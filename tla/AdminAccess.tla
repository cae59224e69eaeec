------------------------------ MODULE AdminAccess ------------------------------
(***************************************************************************)
(* Who may administer a Drone: its one user name and password, which it    *)
(* draws itself and writes to a file until the operator chooses one, and   *)
(* the sessions that were opened with it.  app/common/auth.py,             *)
(* app/storage/state_store.py, app/storage/access_quarantine.py.           *)
(***************************************************************************)
EXTENDS Naturals

CONSTANTS
  Token,        \* the session tokens
  Login,        \* requests that log in
  AccessBounds  \* how many passwords, faults and crashes; see AccessInit

VARIABLES
  credentials,   \* the credentials row: the password, 0 when none; it was drawn; how often it was chosen
  passwordFile,  \* initial-password.txt: the password in it, 0 when it is not there
  drawn,         \* how many passwords there were
  boot,          \* ensure_initial_password: how far it is, and what it drew
  logins,        \* what each client's login has checked
  sessions,      \* the rows: live; the choice of a password they belong to
  changing,      \* an update of the credentials: how far, whose session, the password; done: the last
                 \* choice after which the other sessions were ended
  chosen,        \* the password that the operator chose last
  denied,        \* access-quarantine.json
  accessLeft
accessVars ==
  <<credentials, passwordFile, drawn, boot, logins, sessions, changing, chosen, denied, accessLeft>>

NoSession == [live |-> FALSE, at |-> 0]
NoChange(done) == [pc |-> "idle", by |-> CHOOSE s \in Token : TRUE, to |-> 0, done |-> done]
NoLogin == [checked |-> FALSE, at |-> 0]

AccessInit ==
  /\ credentials = [password |-> 0, initial |-> FALSE, choice |-> 0] /\ passwordFile = 0 /\ drawn = 0
  /\ boot = [pc |-> "off", draw |-> 0] /\ logins = [c \in Login |-> NoLogin]
  /\ sessions = [s \in Token |-> NoSession] /\ changing = NoChange(0) /\ chosen = 0 /\ denied = {}
  /\ accessLeft \in AccessBounds

Use(what) == accessLeft[what] > 0 /\ accessLeft' = [accessLeft EXCEPT ![what] = @ - 1]
Up == boot.pc = "up"
Live(s) == sessions[s].live /\ s \notin denied
requests == <<logins, changing>>

-----------------------------------------------------------------------------
\* At its start a Drone without a password draws one, and so does a Drone
\* whose drawn password was never changed and whose file is gone.
Needed == credentials.password = 0 \/ (credentials.initial /\ passwordFile = 0)

Start ==
  /\ boot.pc = "off"
  /\ IF Needed THEN /\ Use("passwords") /\ drawn' = drawn + 1
                    /\ boot' = [pc |-> "write", draw |-> drawn + 1]
     ELSE boot' = [pc |-> "up", draw |-> 0] /\ UNCHANGED <<drawn, accessLeft>>
  /\ UNCHANGED <<credentials, passwordFile, requests, sessions, chosen, denied>>

\* The file first, then the hash; without the hash the file goes again, and
\* without a password nobody logs in.
WriteFile ==
  /\ boot.pc = "write"
  /\ \/ passwordFile' = boot.draw /\ boot' = [boot EXCEPT !.pc = "save"] /\ UNCHANGED accessLeft
     \/ passwordFile' = 0 /\ boot' = [pc |-> "up", draw |-> 0] /\ Use("faults")
  /\ UNCHANGED <<credentials, drawn, requests, sessions, chosen, denied>>

SaveHash ==
  /\ boot.pc = "save" /\ boot' = [pc |-> "up", draw |-> 0]
  /\ \/ /\ credentials' = [credentials EXCEPT !.password = boot.draw, !.initial = TRUE]
        /\ UNCHANGED <<passwordFile, accessLeft>>
     \/ passwordFile' = 0 /\ Use("faults") /\ UNCHANGED credentials
  /\ UNCHANGED <<drawn, requests, sessions, chosen, denied>>

\* The operator removes the file, to have another password at the next start.
DeleteFile ==
  /\ passwordFile # 0 /\ Use("deletions") /\ passwordFile' = 0
  /\ UNCHANGED <<credentials, drawn, boot, requests, sessions, chosen, denied>>

PowerOff ==
  /\ boot.pc # "off" /\ Use("crashes") /\ boot' = [pc |-> "off", draw |-> 0]
  /\ logins' = [c \in Login |-> NoLogin] /\ changing' = NoChange(changing.done)
  /\ UNCHANGED <<credentials, passwordFile, drawn, sessions, chosen, denied>>

-----------------------------------------------------------------------------
\* A login checks the password and then creates its session.  With late a
\* change may come between.
Check(c) ==
  /\ Up /\ credentials.password # 0 /\ ~logins[c].checked
  /\ (changing.pc # "idle" => changing.pc # "save" \/ accessLeft.late > 0)
  /\ logins' = [logins EXCEPT ![c] = [checked |-> TRUE, at |-> credentials.choice]]
  /\ UNCHANGED <<credentials, passwordFile, drawn, boot, sessions, changing, chosen, denied, accessLeft>>

Create(c, s) ==
  /\ logins[c].checked /\ sessions[s] = NoSession /\ s \notin denied
  /\ sessions' = [sessions EXCEPT ![s] = [live |-> TRUE, at |-> logins[c].at]]
  /\ logins' = [logins EXCEPT ![c] = NoLogin]
  /\ UNCHANGED <<credentials, passwordFile, drawn, boot, changing, chosen, denied, accessLeft>>

\* It expires, or the user logs out.
End(s) ==
  /\ sessions[s].live /\ Up /\ sessions' = [sessions EXCEPT ![s] = NoSession]
  /\ UNCHANGED <<credentials, passwordFile, drawn, boot, requests, chosen, denied, accessLeft>>

-----------------------------------------------------------------------------
\* The operator, in a session, chooses another password: the row, the file,
\* the other sessions.
Change(s) ==
  /\ Up /\ Live(s) /\ changing.pc = "idle" /\ Use("passwords") /\ drawn' = drawn + 1
  /\ (\A c \in Login : ~logins[c].checked \/ accessLeft.late > 0)
  /\ changing' = [pc |-> "save", by |-> s, to |-> drawn + 1, done |-> changing.done]
  /\ UNCHANGED <<credentials, passwordFile, boot, logins, sessions, chosen, denied>>

\* Mutant: the row keeps saying that the password was drawn.
StillInitial == [credentials EXCEPT !.password = changing.to, !.choice = @ + 1]
NewRow == [password |-> changing.to, initial |-> FALSE, choice |-> credentials.choice + 1]

SaveChoice ==
  /\ changing.pc = "save" /\ changing' = [changing EXCEPT !.pc = "unlink"]
  /\ credentials' = NewRow /\ chosen' = changing.to
  /\ sessions' = [sessions EXCEPT ![changing.by].at = credentials.choice + 1]
  /\ UNCHANGED <<passwordFile, drawn, boot, logins, denied, accessLeft>>

UnlinkFile ==
  /\ changing.pc = "unlink" /\ changing' = [changing EXCEPT !.pc = "revoke"] /\ passwordFile' = 0
  /\ UNCHANGED <<credentials, drawn, boot, logins, sessions, chosen, denied, accessLeft>>

RevokeOthers ==
  /\ changing.pc = "revoke" /\ changing' = NoChange(credentials.choice)
  /\ sessions' = [s \in Token |-> IF s = changing.by THEN sessions[s] ELSE NoSession]
  /\ UNCHANGED <<credentials, passwordFile, drawn, boot, logins, chosen, denied, accessLeft>>

\* What a clone that is held inherited: its sessions are denied, and deleted
\* unless the database refuses.
Quarantine ==
  /\ boot.pc = "off" /\ Use("clones")
  /\ denied' = denied \cup {s \in Token : sessions[s].live}
  /\ \/ sessions' = [s \in Token |-> NoSession]
     \/ UNCHANGED sessions
  /\ UNCHANGED <<credentials, passwordFile, drawn, boot, requests, chosen>>

AccessNext ==
  \/ Start \/ WriteFile \/ SaveHash \/ DeleteFile \/ PowerOff \/ Quarantine
  \/ \E c \in Login : Check(c) \/ \E s \in Token : Create(c, s)
  \/ \E s \in Token : End(s) \/ Change(s)
  \/ SaveChoice \/ UnlinkFile \/ RevokeOthers

AccessSpec == AccessInit /\ [][AccessNext]_accessVars

-----------------------------------------------------------------------------
\* The password that the operator chose is the Drone's until the operator
\* chooses another, whatever becomes of the file and however the Drone stops;
\* and a change that ran to its end ended every other session that was opened
\* with the old password (handlers_system.py:231-234).
ChosenStays == chosen # 0 => credentials.password = chosen
OthersAreOut == \A s \in Token : (Live(s) /\ Up) => sessions[s].at >= changing.done
AccessIsTheOperators == ChosenStays /\ OthersAreOut

AccessTypes ==
  /\ credentials \in [password : Nat, initial : BOOLEAN, choice : Nat] /\ drawn \in Nat
  /\ boot \in [pc : {"off", "write", "save", "up"}, draw : Nat]
  /\ logins \in [Login -> [checked : BOOLEAN, at : Nat]] /\ sessions \in [Token -> [live : BOOLEAN, at : Nat]]
  /\ changing = [pc |-> changing.pc, by |-> changing.by, to |-> changing.to, done |-> changing.done]
  /\ changing.pc \in {"idle", "save", "unlink", "revoke"} /\ changing.to \in Nat /\ changing.done \in Nat
  /\ changing.pc # "idle" => changing.by \in Token
  /\ accessLeft \in [{"passwords", "faults", "crashes", "deletions", "clones", "late"} -> Nat]

\* A login that checked a password, and the session that changes it, are of
\* the choice that the end of the change will keep.
InTime(at) == at >= changing.done /\ (changing.pc \in {"unlink", "revoke"} => at = credentials.choice)

\* What lasts, as long as no login overlaps a change (late): a password that was
\* chosen is never drawn again, and nothing older than the last change is on
\* its way to a session.
AccessInv ==
  /\ AccessTypes /\ accessLeft["late"] = 0 /\ ChosenStays
  /\ chosen # 0 => ~credentials.initial /\ boot.pc \in {"off", "up"}
  /\ changing.pc # "idle" => Up
  /\ changing.done <= credentials.choice
  /\ changing.pc = "save" => \A c \in Login : ~logins[c].checked
  /\ \A c \in Login : logins[c].checked => InTime(logins[c].at)
  /\ \A s \in Token : sessions[s].live => sessions[s].at >= changing.done
  /\ changing.pc \in {"unlink", "revoke"} /\ sessions[changing.by].live
       => sessions[changing.by].at = credentials.choice

\* Not so while a change is only half done: with a crash between the new row
\* and the end of the other sessions they live on.
ChangedIsOut == (Up /\ changing.pc = "idle") => \A s \in Token : Live(s) => sessions[s].at = credentials.choice

\* Not so with a crash between the file and the hash of a password that is
\* drawn in place of a lost one: the file then opens nothing, and no start
\* replaces it; nor is it removed when the crash follows the new row.
FileOpens == (Up /\ passwordFile # 0) => passwordFile = credentials.password
==============================================================================
