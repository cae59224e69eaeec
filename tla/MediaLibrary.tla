----------------------------- MODULE MediaLibrary -----------------------------
(***************************************************************************)
(* The libraries of movies and music: what is on disk, the index of it     *)
(* (app/storage/movies_store.py, app/storage/music_store.py), the metadata *)
(* rows with the artwork they name (app/movies/metadata_manager.py,        *)
(* app/music/metadata_manager.py), and the rows that follow a file which   *)
(* was moved (app/storage/metadata_rekey.py).                              *)
(*                                                                         *)
(* One picture serves a season or an album: it is written next to the file *)
(* scraped last, every row of the group names it, and it must outlive all  *)
(* but the last of them.  A row is keyed by the path of its file, so a     *)
(* moved file leaves its row behind until the next sync finds the one file *)
(* with the same fingerprint.                                              *)
(***************************************************************************)
EXTENDS Naturals, FiniteSets

CONSTANTS
  Path, Film, NoFilm,  \* paths, and what may be stored at one
  Picture, NoPicture,  \* artwork files
  PictureOf,           \* [Path -> Picture]: where the artwork for a path is put and looked for
  ShowPicture,         \* the artwork of a show as a whole
  Stock,               \* [Path -> Film \cup {NoFilm}]: what is there at first
  LibraryBounds        \* settings, see LibraryInit

VARIABLES
  shelves,   \* the film at each path
  index,     \* cache_entries: the film each path was last seen with
  gone,      \* deleted_cache_entries: what a path had that is no longer indexed
  rows,      \* metadata_entries
  pictures,  \* the artwork files there are
  scraping,  \* a request or bulk job between its picture and its row
  removing,  \* a request in delete_metadata
  libraryLeft
libraryVars == <<shelves, index, gone, rows, pictures, scraping, removing, libraryLeft>>

Music == libraryLeft.music
SpendOn(what) == libraryLeft[what] > 0 /\ libraryLeft' = [libraryLeft EXCEPT ![what] = @ - 1]

\* Who wrote a row, when, about which film, and the picture it names.  The
\* film is a history: it goes with the file when that is replaced in place.
Row(by, film, picture) == [by |-> by, at |-> libraryLeft.clock, film |-> film, picture |-> picture]
NoMetadata == [by |-> "none", at |-> 0, film |-> NoFilm, picture |-> NoPicture]
Scraping(path, picture) == [path |-> path, picture |-> picture]
NotScraping == [path |-> {}, picture |-> NoPicture]
NotRemoving == [pc |-> "idle", path |-> {}, picture |-> NoPicture, file |-> FALSE]

LibraryInit ==
  /\ libraryLeft \in LibraryBounds
  /\ shelves = Stock
  /\ index = shelves /\ gone = [p \in Path |-> NoFilm]
  /\ rows = [p \in Path |-> NoMetadata] /\ pictures = {}
  /\ scraping = NotScraping /\ removing = NotRemoving

Indexed(ix) == {p \in Path : ix[p] # NoFilm}
NamedIn(picture, rs) == {p \in Path : rs[p].picture = picture}

-----------------------------------------------------------------------------
(* sync_movies_cache, sync_music_cache: one transaction.                    *)
(*                                                                         *)
(* An orphan is a row without an indexed path; it moves to the only path    *)
(* that has the film its own path had, unless a row that is more than found *)
(* artwork is there.  Of several, a scraped one and then the latest wins.   *)
Archived(ix) == [p \in Path |-> IF ix[p] # NoFilm THEN NoFilm ELSE IF index[p] # NoFilm THEN index[p] ELSE gone[p]]
Orphans(ix, rs, old) == {p \in Path : rs[p] # NoMetadata /\ ix[p] = NoFilm /\ old[p] # NoFilm}
Homes(ix, film) == {p \in Path : ix[p] = film}
Claims(ix, rs, old) ==
  [p \in Path |-> IF ix[p] # NoFilm /\ rs[p].by \in {"none", "local"} /\ Homes(ix, ix[p]) = {p}
                  THEN {o \in Orphans(ix, rs, old) : old[o] = ix[p]} ELSE {}]
Better(rs, o, q) == IF (rs[o].by = "local") = (rs[q].by = "local") THEN rs[o].at >= rs[q].at ELSE rs[q].by = "local"
Rekeyed(ix, rs, old) ==
  LET claims == Claims(ix, rs, old)
      winner(p) == CHOOSE o \in claims[p] : \A q \in claims[p] : Better(rs, o, q)
      moved == UNION {claims[p] : p \in Path} IN
  [p \in Path |-> IF claims[p] # {} THEN rs[winner(p)] ELSE IF p \in moved THEN NoMetadata ELSE rs[p]]

\* Artwork found where it is looked for is named by the row, which is made if
\* need be: next to a movie; of a show the season's, or else the show's own.
OfShow(film) == libraryLeft.kind[film] # "movie"
Artwork(p, film) == IF PictureOf[p] \notin pictures /\ OfShow(film) THEN ShowPicture ELSE PictureOf[p]
Recovered(ix, rs) ==
  IF Music THEN rs
  ELSE [p \in Path |->
          IF ix[p] = NoFilm THEN rs[p]
          ELSE IF Artwork(p, ix[p]) \notin pictures THEN rs[p]
          ELSE IF rs[p] = NoMetadata THEN Row("local", ix[p], Artwork(p, ix[p]))
          ELSE [rs[p] EXCEPT !.picture = Artwork(p, ix[p])]]

\* The history: a row belongs to the film that is at its path.
Attributed(ix) == [p \in Path |-> IF ix[p] # NoFilm /\ index[p] # NoFilm /\ rows[p] # NoMetadata THEN [rows[p] EXCEPT !.film = ix[p]] ELSE rows[p]]
Sync ==
  /\ SpendOn("syncs") /\ (libraryLeft.overlap \/ removing = NotRemoving)
  /\ index' = shelves /\ gone' = Archived(shelves)
  /\ rows' = Recovered(shelves, Rekeyed(shelves, Attributed(shelves), Archived(shelves)))
  /\ UNCHANGED <<shelves, pictures, scraping, removing>>

-----------------------------------------------------------------------------
(* Scraping: the picture is written before the row is saved.  Movies ask    *)
(* the index for each entry; the tracks of an album are those the request   *)
(* or the job began with, and the picture goes next to the first of them.   *)
Albums(p) == {q \in Indexed(index) : PictureOf[q] = PictureOf[p]}
Fetch(ps, picture) ==
  /\ scraping = NotScraping /\ SpendOn("scrapes")
  /\ (libraryLeft.overlap \/ removing = NotRemoving)
  /\ \E found \in BOOLEAN :
       /\ pictures' = IF found THEN pictures \cup {picture} ELSE pictures
       /\ scraping' = Scraping(ps, IF found THEN picture ELSE NoPicture)
  /\ UNCHANGED <<shelves, index, gone, rows, removing>>

Is(p, kind) == index[p] # NoFilm /\ ~Music /\ libraryLeft.kind[index[p]] = kind
apply(p) == Is(p, "movie") /\ Fetch({p}, PictureOf[p])
\* The season's poster, with the show's in it if the season has none.
apply_tv_episode(p) == Is(p, "episode") /\ Fetch({p}, PictureOf[p])
\* What belongs to no season gets the show's.
apply_tv_extra(p) == Is(p, "extra") /\ Fetch({p}, ShowPicture)
_apply_release_to_group(p) == Music /\ index[p] # NoFilm /\ Fetch(Albums(p), PictureOf[p])
Scrape(p) == apply(p) \/ apply_tv_episode(p) \/ apply_tv_extra(p) \/ _apply_release_to_group(p)

SaveMetadata ==
  /\ scraping # NotScraping /\ scraping' = NotScraping
  /\ libraryLeft' = [libraryLeft EXCEPT !.clock = @ + 1]
  /\ rows' = [p \in Path |-> IF p \in scraping.path THEN Row("scrape", IF index[p] # NoFilm THEN index[p] ELSE gone[p], scraping.picture) ELSE rows[p]]
  /\ UNCHANGED <<shelves, index, gone, pictures, removing>>

\* The row goes first, then its picture unless it is found artwork or some
\* other row names it; music deletes without asking.
DeleteMetadata(p, file) ==
  /\ removing = NotRemoving /\ SpendOn("deletes") /\ (libraryLeft.overlap \/ scraping = NotScraping)
  /\ index[p] # NoFilm /\ (file \/ rows[p] # NoMetadata)
  /\ rows' = [rows EXCEPT ![p] = NoMetadata]
  /\ removing' = [pc |-> "count", path |-> {p}, file |-> file, picture |-> IF rows[p].by = "local" THEN NoPicture ELSE rows[p].picture]
  /\ UNCHANGED <<shelves, index, gone, pictures, scraping>>
\* Mutant: the last one out is not looked for.
CountNobody ==
  /\ removing.pc = "count" /\ removing' = [removing EXCEPT !.pc = "unlink"]
  /\ UNCHANGED <<shelves, index, gone, rows, pictures, scraping, libraryLeft>>
Count ==
  /\ removing.pc = "count"
  /\ removing' = [removing EXCEPT !.pc = "unlink", !.picture = IF ~Music /\ NamedIn(@, rows) # {} THEN NoPicture ELSE @]
  /\ UNCHANGED <<shelves, index, gone, rows, pictures, scraping, libraryLeft>>
Unlink ==
  /\ removing.pc = "unlink" /\ pictures' = pictures \ {removing.picture}
  /\ removing' = IF removing.file THEN [removing EXCEPT !.pc = "file"] ELSE NotRemoving
  /\ UNCHANGED <<shelves, index, gone, rows, scraping, libraryLeft>>
DeleteFile ==
  /\ removing.pc = "file" /\ removing' = NotRemoving
  /\ LET p == CHOOSE q \in removing.path : TRUE IN
     IF index[p] = NoFilm THEN UNCHANGED <<shelves, index, gone>>
     ELSE /\ shelves' = [shelves EXCEPT ![p] = NoFilm] /\ index' = [index EXCEPT ![p] = NoFilm]
          /\ gone' = [gone EXCEPT ![p] = index[p]]
  /\ UNCHANGED <<rows, pictures, scraping, libraryLeft>>

-----------------------------------------------------------------------------
(* The user at the file system: a file is moved or copied, its artwork not. *)
Shelve(p, q, keep) ==
  /\ shelves[p] # NoFilm /\ shelves[q] = NoFilm /\ SpendOn("moves")
  /\ shelves' = [shelves EXCEPT ![q] = shelves[p], ![p] = IF keep THEN @ ELSE NoFilm]
  /\ UNCHANGED <<index, gone, rows, pictures, scraping, removing>>

Interrupt ==
  /\ SpendOn("crashes") /\ scraping' = NotScraping /\ removing' = NotRemoving
  /\ UNCHANGED <<shelves, index, gone, rows, pictures>>

LibraryNext ==
  \/ Sync \/ SaveMetadata \/ Count \/ Unlink \/ DeleteFile \/ Interrupt
  \/ \E p \in Path : Scrape(p) \/ (\E file \in BOOLEAN : DeleteMetadata(p, file))
  \/ \E p, q \in Path : \E keep \in BOOLEAN : Shelve(p, q, keep)
LibrarySpec == LibraryInit /\ [][LibraryNext]_libraryVars

-----------------------------------------------------------------------------
(* A movie's row names a picture that is there, however many rows share it, *)
(* wherever its file was moved and whichever of them is deleted, as long as *)
(* no scrape saves its row and no sync finds the picture between the count  *)
(* and the unlink of a removal (overlap).  Music does not keep this.        *)
PicturesAreThere == \A p \in Path : rows[p].picture # NoPicture => rows[p].picture \in pictures

(* A row describes the film at its path.  Does not hold: a path that gets   *)
(* another film after a sync missed the old one keeps the old row.          *)
RowsFitTheirFilm == \A p \in Path : (index[p] # NoFilm /\ rows[p] # NoMetadata) => rows[p].film = index[p]
===============================================================================
