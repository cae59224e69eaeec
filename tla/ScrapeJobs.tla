------------------------------ MODULE ScrapeJobs ------------------------------
(***************************************************************************)
(* The bulk scrapes of movies and of music: a job in a thread of its own   *)
(* (app/movies/metadata_manager.py, app/music/metadata_manager.py), its    *)
(* progress row (app/storage/movie_scrape_jobs.py and its twin) and the    *)
(* outcome of every entry (app/storage/movie_scrape_job_items.py).         *)
(*                                                                         *)
(* The rows are all that is known of a job: whoever wants to start, stop   *)
(* or show one first declares the newest running row dead if it gave no    *)
(* sign of life for ten minutes (reconcile_if_stale).                      *)
(***************************************************************************)
EXTENDS Naturals, FiniteSets

CONSTANTS
  Entry,        \* movies and episodes, or tracks
  Album,        \* the albums: a partition of Entry
  ScrapeBounds  \* settings, see ScrapeInit

VARIABLES
  library,   \* the entries in the library
  pictured,  \* those whose metadata row has a poster or a cover
  jobs,      \* the progress rows, by id
  items,     \* the outcome of every entry, or "none"
  scrapers,  \* the thread of each job
  scrapeLeft
scrapeVars == <<library, pictured, jobs, items, scrapers, scrapeLeft>>

Id == 1 .. scrapeLeft.jobs
Spent(what) == scrapeLeft[what] > 0 /\ scrapeLeft' = [scrapeLeft EXCEPT ![what] = @ - 1]
Music == scrapeLeft.music

NoJob == [status |-> "none", matched |-> 0, skipped |-> 0, failed |-> 0, stop |-> FALSE, quiet |-> FALSE, of |-> {}]
NoScraper == [pc |-> "idle", todo |-> {}, now |-> {}, matched |-> 0, skipped |-> 0, failed |-> 0]

ScrapeInit ==
  /\ scrapeLeft \in ScrapeBounds
  /\ library = Entry /\ pictured = {}
  /\ jobs = [j \in Id |-> NoJob] /\ items = [e \in Entry |-> "none"]
  /\ scrapers = [j \in Id |-> NoScraper]

-----------------------------------------------------------------------------
(* The rows.                                                                *)
Newest(rows, in) ==
  LET those == {j \in Id : rows[j].status \in in} IN {j \in those : \A k \in those : k <= j}
Started == {"running", "complete", "stopped", "error"}
\* Only the newest running row is looked at.
Reconciled ==
  [j \in Id |-> IF j \in Newest(jobs, {"running"}) /\ jobs[j].quiet THEN [jobs[j] EXCEPT !.status = "error"] ELSE jobs[j]]
AnyRunning(rows) == \E j \in Id : rows[j].status = "running"
\* update_progress: the counts, and a sign of life.
Told(s, j) == [jobs EXCEPT ![j].matched = s.matched, ![j].skipped = s.skipped, ![j].failed = s.failed, ![j].quiet = FALSE]
Itemised(entries, outcome) == items' = [e \in Entry |-> IF e \in entries THEN outcome ELSE items[e]]

-----------------------------------------------------------------------------
(* Requests.                                                                *)
Grouped(entries) ==
  IF Music THEN {a \cap entries : a \in Album} \ {{}} ELSE {{e} : e \in entries}

\* The check and the new row are under one lock, with the items cleared in
\* between.  The entries are those known at this moment.
Launch(entries) ==
  LET rows == Reconciled
      j == CHOOSE i \in Id : rows[i] = NoJob /\ \A k \in 1 .. i - 1 : rows[k] # NoJob IN
  /\ ~AnyRunning(rows) /\ \E i \in Id : rows[i] = NoJob
  /\ jobs' = [rows EXCEPT ![j] = [NoJob EXCEPT !.status = "running", !.of = entries]]
  /\ scrapers' = [scrapers EXCEPT ![j] = [NoScraper EXCEPT !.pc = "next", !.todo = Grouped(entries)]]
StartBulkScrape ==
  /\ \E all \in BOOLEAN : Launch(IF all THEN library ELSE library \ pictured)
  /\ items' = [e \in Entry |-> "none"]
  /\ UNCHANGED <<library, pictured, scrapeLeft>>

\* What the last run left as it was stays so: only retried entries change.
RetryItems ==
  /\ \E keys \in {{e \in Entry : items[e] = o} : o \in {"failed", "skipped"}} \cup {{e} : e \in Entry} :
        Launch(keys \cap library)
  /\ UNCHANGED <<library, pictured, items, scrapeLeft>>

StopBulkScrape ==
  /\ Spent("stops")
  /\ LET rows == Reconciled
         last == Newest(rows, Started) IN
     jobs' = [j \in Id |-> IF j \in last /\ rows[j].status = "running" THEN [rows[j] EXCEPT !.stop = TRUE] ELSE rows[j]]
  /\ UNCHANGED <<library, pictured, items, scrapers>>

ShowStatus ==
  /\ jobs' = Reconciled /\ jobs' # jobs
  /\ UNCHANGED <<library, pictured, items, scrapers, scrapeLeft>>

\* delete_movie and delete_music, and what the artwork pages do to a row.
DeleteEntry(e) ==
  /\ e \in library /\ Spent("edits")
  /\ library' = library \ {e} /\ pictured' = pictured \ {e}
  /\ UNCHANGED <<jobs, items, scrapers>>
DeleteMetadata(e) ==
  /\ e \in pictured /\ Spent("edits") /\ pictured' = pictured \ {e}
  /\ UNCHANGED <<library, jobs, items, scrapers>>

-----------------------------------------------------------------------------
(* The thread.                                                              *)
To(j, s) == scrapers' = [scrapers EXCEPT ![j] = s]

\* A request to stop is seen between two candidates only.
Candidate(j) ==
  LET s == scrapers[j] IN
  /\ s.pc = "next" /\ jobs' = Told(s, j)
  /\ IF s.todo # {} /\ jobs[j].stop THEN To(j, [s EXCEPT !.pc = "stopping"])
     ELSE IF s.todo = {} THEN To(j, [s EXCEPT !.pc = "completing"])
     ELSE LET g == CHOOSE g \in s.todo : TRUE IN To(j, [s EXCEPT !.pc = "search", !.now = g, !.todo = @ \ {g}])
  /\ UNCHANGED <<library, pictured, items, scrapeLeft>>

\* Nothing to search with or nothing found; what the provider does not know;
\* an error of this candidate alone.
Miss(j) ==
  LET s == scrapers[j]
      n == Cardinality(s.now) IN
  /\ s.pc = "search"
  /\ \E outcome \in {"skipped", "failed"} :
        Itemised(s.now, outcome) /\ To(j, [s EXCEPT !.pc = "next", ![outcome] = @ + n])
  /\ UNCHANGED <<library, pictured, jobs, scrapeLeft>>

\* The provider cannot be reached: all that is left fails with this one.
Rest(s) == s.now \cup UNION s.todo
\* Mutant: only the candidate at hand is noted as failed.
UnavailableAlone(j) ==
  LET s == scrapers[j] IN
  /\ s.pc = "search" /\ Spent("outages") /\ Itemised(s.now, "failed")
  /\ To(j, [s EXCEPT !.pc = "unavailable", !.todo = {}, !.failed = @ + Cardinality(Rest(s))])
  /\ UNCHANGED <<library, pictured, jobs>>
Unavailable(j) ==
  LET s == scrapers[j] IN
  /\ s.pc = "search" /\ Spent("outages") /\ Itemised(Rest(s), "failed")
  /\ To(j, [s EXCEPT !.pc = "unavailable", !.todo = {}, !.failed = @ + Cardinality(Rest(s))])
  /\ UNCHANGED <<library, pictured, jobs>>
GiveUp(j) ==
  LET s == scrapers[j] IN
  /\ s.pc = "unavailable" /\ jobs' = Told(s, j) /\ To(j, [s EXCEPT !.pc = "completing"])
  /\ UNCHANGED <<library, pictured, items, scrapeLeft>>

\* The movie must still be in the library, else this is an error; the tracks
\* of an album are taken as they were when the job began.
Match(j) ==
  LET s == scrapers[j]
      found == Music \/ s.now \subseteq library
      outcome == IF found THEN "matched" ELSE "failed" IN
  /\ s.pc = "search"
  /\ \E art \in BOOLEAN : pictured' = IF ~found THEN pictured ELSE IF art THEN pictured \cup s.now ELSE pictured \ s.now
  /\ Itemised(s.now, outcome) /\ To(j, [s EXCEPT !.pc = "next", ![outcome] = @ + Cardinality(s.now)])
  /\ UNCHANGED <<library, jobs, scrapeLeft>>

\* Whatever the row says by now.
Finish(j) ==
  LET s == scrapers[j] IN
  /\ s.pc \in {"stopping", "completing"}
  /\ jobs' = [jobs EXCEPT ![j].status = IF s.pc = "stopping" THEN "stopped" ELSE "complete"]
  /\ To(j, NoScraper)
  /\ UNCHANGED <<library, pictured, items, scrapeLeft>>

ScrapeCrash ==
  /\ \E j \in Id : scrapers[j] # NoScraper
  /\ Spent("crashes") /\ scrapers' = [j \in Id |-> NoScraper]
  /\ UNCHANGED <<library, pictured, jobs, items>>

\* Ten minutes pass without a sign of life: the thread is gone, or it hangs
\* in a request of the provider.
FallsSilent(j) ==
  /\ jobs[j].status = "running" /\ ~jobs[j].quiet
  /\ jobs' = [jobs EXCEPT ![j].quiet = TRUE]
  /\ (scrapers[j] = NoScraper /\ UNCHANGED scrapeLeft) \/ (scrapers[j].pc = "search" /\ Spent("hangs"))
  /\ UNCHANGED <<library, pictured, items, scrapers>>

ScrapeNext ==
  \/ StartBulkScrape \/ RetryItems \/ StopBulkScrape \/ ShowStatus \/ ScrapeCrash
  \/ \E e \in Entry : DeleteEntry(e) \/ DeleteMetadata(e)
  \/ \E j \in Id : Candidate(j) \/ Miss(j) \/ Unavailable(j) \/ GiveUp(j) \/ Match(j) \/ Finish(j) \/ FallsSilent(j)
ScrapeSpec == ScrapeInit /\ [][ScrapeNext]_scrapeVars

-----------------------------------------------------------------------------
(* The breakdown the page shows is that of the job it shows: each count of  *)
(* the newest job, once it ended by itself, is the number of its entries    *)
(* with that outcome, and a complete job has dealt with every entry it was  *)
(* started for, across stops, outages, retries, crashes and deletions       *)
(* meanwhile.  What "retry failed" works on are these outcomes.             *)
BreakdownAddsUp ==
  \A j \in Newest(jobs, Started) :
     LET with(outcome) == Cardinality({e \in jobs[j].of : items[e] = outcome}) IN
     /\ jobs[j].status = "complete" =>
           /\ jobs[j].matched = with("matched") /\ jobs[j].skipped = with("skipped") /\ jobs[j].failed = with("failed")
           /\ with("none") = 0
     /\ jobs[j].status = "stopped" =>
           /\ jobs[j].matched <= with("matched") /\ jobs[j].skipped <= with("skipped") /\ jobs[j].failed <= with("failed")
           /\ with("none") > 0 => jobs[j].matched + jobs[j].skipped + jobs[j].failed + with("none") = Cardinality(jobs[j].of)

(* Only one job runs at a time.  Does not hold when a request hangs: the    *)
(* job declared dead lives on beside the one started in its stead.          *)
OneJobAtATime == Cardinality({j \in Id : scrapers[j] # NoScraper}) <= 1
===============================================================================
