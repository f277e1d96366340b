--------------------------- MODULE AccountsProofs ---------------------------
(***************************************************************************)
(* Proofs about Accounts for any accounts, logins and calls, and any       *)
(* number of faults: a cancelled login stays out, an account shown as      *)
(* signed in can be read, and no secret is left without an owner.          *)
(***************************************************************************)
EXTENDS Accounts, TLAPS

-----------------------------------------------------------------------------
(* The inductive invariant *)

\* What a completion does before it knows the account.
Unnamed == {"idle", "claim", "poll", "answer", "exchange"}

Rotation == {"existing", "putRefresh", "putMetadata", "wipeRefresh", "wipeMetadata",
             "upsert", "dropRefresh", "dropMetadata", "rollback", "done"}

StepsOf == [k \in {"none", "login", "refresh", "session", "reload", "remove"} |->
    CASE k = "none"    -> {"idle"}
      [] k = "login"   -> {"claim", "poll", "answer", "exchange", "release"} \cup Rotation
      [] k = "refresh" -> {"load", "get", "renew"} \cup Rotation
      [] k = "session" -> {"load", "get", "renew", "select"} \cup Rotation
      [] k = "reload"  -> {"load", "get", "done"}
      [] k = "remove"  -> {"keep", "dropRefresh", "dropMetadata", "deleteRow", "putRefresh",
                           "putMetadata", "wipeRefresh", "wipeMetadata", "done"}]

\* Each call is at a statement of its own command, with what the statement needs.
ProgramOf(c) ==
    /\ pc[c] \in StepsOf[kind[c]]
    /\ pc[c] = "idle" => login[c] = None /\ old[c] = None /\ seen[c] = NoRecord
    /\ pc[c] \in Unnamed => acct[c] = None
    /\ OnAccount(c) => acct[c] \in Accounts
    /\ kind[c] = "login" => login[c] \in started
    /\ kind[c] = "remove" \/ pc[c] \in {"dropRefresh", "dropMetadata"} => old[c] \in Refs
    /\ pc[c] \in {"wipeRefresh", "wipeMetadata", "rollback"} => faults > 0

ProgramInv == \A c \in Calls : ProgramOf(c)

\* A call that has not written its row yet: nothing names its credential.
Fresh(c) ==
    /\ kind[c] \notin {"reload", "remove"}
    /\ pc[c] \in Unnamed \cup {"load", "get", "select", "renew", "existing",
                               "putRefresh", "putMetadata", "upsert"}

Named(c) ==
    \/ \E a \in Accounts : row[a].ref = c
    \/ \E d \in Calls : old[d] = c \/ seen[d].ref = c

\* Every reference belongs to one account.
OwnerInv ==
    /\ \A a \in Accounts : row[a].ref # None => RefAccount(row[a].ref) = a
    /\ \A c \in Calls :
          /\ old[c] # None => acct[c] \in Accounts /\ RefAccount(old[c]) = acct[c]
          /\ seen[c].ref # None => acct[c] \in Accounts /\ RefAccount(seen[c].ref) = acct[c]
          /\ entry[c] # {} => acct[c] \in Accounts
          /\ Fresh(c) => ~Named(c)
          /\ Fresh(c) /\ pc[c] \notin {"putMetadata", "upsert"} => entry[c] = {}

\* A credential is whole before a row names it, and what a rotation or a failed
\* removal still touches is named by no row.
WholeOf(c) ==
    /\ Fresh(c) /\ pc[c] = "putMetadata" => "refresh" \in entry[c]
    /\ Fresh(c) /\ pc[c] = "upsert" => Readable(c)
    /\ \/ kind[c] # "remove" /\ pc[c] \in {"dropRefresh", "dropMetadata"}
       \/ kind[c] = "remove" /\ pc[c] \in {"putRefresh", "putMetadata"}
       => \A a \in Accounts : row[a].ref # old[c]

WholeInv == (faults = 0 => \A c \in Calls : WholeOf(c)) /\ ActiveRowIsReadable

\* The only credentials of account a are its row's and those in the set.
OnlyOwned(a, refs) ==
    \A r \in Refs : RefAccount(r) = a /\ ~Absent(r) => r = row[a].ref \/ r \in refs

\* What is left to clean up at each step of the one call on account a.
TidyRotation(c, a) ==
    /\ pc[c] \in {"load", "get", "select", "renew", "existing"} => OnlyOwned(a, {})
    /\ pc[c] \in {"putRefresh", "putMetadata", "upsert", "wipeRefresh", "wipeMetadata"}
         => OnlyOwned(a, {c})
    /\ pc[c] = "wipeMetadata" => "refresh" \notin entry[c]
    /\ pc[c] \in {"putRefresh", "putMetadata", "upsert"} => seen[c] = row[a]
    /\ pc[c] \in {"dropRefresh", "dropMetadata", "rollback"} =>
         /\ row[a].ref = c /\ seen[c] # NoRecord /\ seen[c].ref = old[c]
         /\ OnlyOwned(a, {old[c]})
    /\ pc[c] = "dropMetadata" => "refresh" \notin entry[old[c]]

TidyRemoval(c, a) ==
    /\ row[a].ref = old[c]
    /\ OnlyOwned(a, {})
    /\ pc[c] = "dropMetadata" => "refresh" \notin entry[old[c]]
    /\ pc[c] = "deleteRow" => Absent(old[c])

TidyCall(c, a) == IF kind[c] = "remove" THEN TidyRemoval(c, a) ELSE TidyRotation(c, a)

AloneOn(a) ==
    \A c, d \in Calls :
        OnAccount(c) /\ OnAccount(d) /\ acct[c] = a /\ acct[d] = a => c = d

\* Commands on an account that never overlapped leave only what they still delete.
TidyOf(a) ==
    /\ AloneOn(a)
    /\ faults <= 1 /\ ~crashed =>
         /\ (\A c \in Calls : OnAccount(c) => acct[c] # a) => OnlyOwned(a, {})
         /\ \A c \in Calls : OnAccount(c) /\ acct[c] = a => TidyCall(c, a)

TidyInv == \A a \in Accounts \ overlapped : TidyOf(a)

AccountsInv == TypeOK /\ ProgramInv /\ OwnerInv /\ WholeInv /\ TidyInv

-----------------------------------------------------------------------------
(* Type correctness *)

LEMMA OnAccountHasOne ==
  ASSUME TypeOK, ProgramInv, NEW c \in Calls, OnAccount(c)
  PROVE  acct[c] \in Accounts
BY DEF ProgramInv, ProgramOf

\* MarkRelogin keeps the reference and never signs anybody in.
LEMMA MarkReloginFacts ==
  ASSUME TypeOK, NEW a \in Accounts, MarkRelogin(a)
  PROVE  /\ row' \in [Accounts -> AccountRecord \cup {NoRecord}]
         /\ \A b \in Accounts :
               /\ row'[b].ref = row[b].ref
               /\ row'[b].state \in {row[b].state, "relogin-required"}
               /\ row'[b] = NoRecord <=> row[b] = NoRecord
         /\ \A b \in Accounts \ {a} : row'[b] = row[b]
<1>1. CASE row[a] = NoRecord
  BY <1>1 DEF MarkRelogin, TypeOK
<1>2. CASE row[a] # NoRecord
  <2>. DEFINE new == [row[a] EXCEPT !.state = "relogin-required"]
  <2>1. row[a] \in AccountRecord
    BY <1>2 DEF TypeOK
  <2>2. new \in AccountRecord /\ new.ref = row[a].ref /\ new.state = "relogin-required"
    BY <2>1 DEF AccountRecord
  <2>3. row' = [row EXCEPT ![a] = new]
    BY <1>2 DEF MarkRelogin
  <2>4. new # NoRecord
    BY <2>2 DEF NoRecord
  <2>. HIDE DEF new
  <2>. QED
    BY <1>2, <2>2, <2>3, <2>4 DEF TypeOK
<1>. QED
  BY <1>1, <1>2

LEMMA CallTypeOK ==
  ASSUME TypeOK, ProgramInv, NEW c \in Calls, Step(c)
  PROVE  TypeOK'
<1>. USE AccountsAssumption DEF TypeOK, rows, Goto, Steps, Refs
<1>0. /\ OnAccount(c) => acct[c] \in Accounts
      /\ kind[c] = "login" => login[c] \in started
      /\ kind[c] = "remove" \/ pc[c] \in {"dropRefresh", "dropMetadata"} => old[c] \in Refs
  BY DEF ProgramInv, ProgramOf
<1>1. CASE ClaimLogin(c)
  <2>1. login[c] \in started
    BY <1>0, <1>1 DEF ProgramInv, ProgramOf, ClaimLogin, StepsOf, Rotation
  <2>2. pending' \subseteq started /\ cancelled' \subseteq started /\ claimed' \subseteq started
    BY <1>1, <2>1 DEF ClaimLogin, RemovePending
  <2>3. pc' \in [Calls -> Steps]
    BY <1>1 DEF ClaimLogin
  <2>. QED
    BY <1>1, <2>2, <2>3 DEF ClaimLogin, locals
<1>2. CASE SendPoll(c)
  BY <1>0, <1>2 DEF SendPoll, logins, OnAccount
<1>3. CASE ReceivePoll(c)
  BY <1>0, <1>3 DEF ReceivePoll, logins, locals, OnAccount
<1>4. CASE Exchange(c)
  BY <1>0, <1>4 DEF Exchange, logins, EnterAccount, OnAccount
<1>5. CASE Release(c)
  BY <1>0, <1>5 DEF Release, RemovePending, locals, OnAccount
<1>6. CASE LoadRecord(c)
  BY <1>0, <1>6 DEF LoadRecord, logins, OnAccount
<1>7. CASE LoadSession(c)
  <2>1. acct[c] \in Accounts
    BY <1>0, <1>7 DEF LoadSession, OnAccount
  <2>2. row' \in [Accounts -> AccountRecord \cup {NoRecord}]
    BY <1>7, <2>1, MarkReloginFacts DEF LoadSession
  <2>3. pc' \in [Calls -> Steps] /\ faults' \in 0..MaxFaults
    BY <1>7 DEF LoadSession, Fault
  <2>. QED
    BY <1>7, <2>2, <2>3 DEF LoadSession, logins, locals
<1>8. CASE SelectForSession(c)
  BY <1>0, <1>8 DEF SelectForSession, logins, locals, OnAccount
<1>9. CASE Renew(c)
  BY <1>0, <1>9 DEF Renew, logins, locals, OnAccount
<1>10. CASE ReadExisting(c)
  BY <1>0, <1>10 DEF ReadExisting, logins, OnAccount
<1>11. CASE Put(c)
  <2>1. Target(c) \in Refs
    BY <1>0 DEF Target
  <2>2. entry' \in [Refs -> SUBSET Fields]
    BY <1>11, <2>1 DEF Put, Written, Fields
  <2>3. pc' \in [Calls -> Steps] /\ faults' \in 0..MaxFaults
    BY <1>11 DEF Put, Fault
  <2>. QED
    BY <1>11, <2>2, <2>3 DEF Put, logins, locals
<1>12. CASE Wipe(c)
  BY <1>0, <1>12 DEF Wipe, Deleted, Target, Fault, Finish, logins, locals, OnAccount
<1>13. CASE Upsert(c)
  <2>1. acct[c] \in Accounts
    BY <1>0, <1>13 DEF Upsert, OnAccount
  <2>2. /\ row' \in [Accounts -> AccountRecord \cup {NoRecord}]
        /\ selected' \in Accounts \cup {None}
    BY <1>13, <2>1 DEF Upsert, AccountRecord
  <2>3. row[acct[c]].ref \in Refs \cup {None}
    BY <2>1 DEF AccountRecord, NoRecord
  <2>4. old' \in [Calls -> Refs \cup {None}]
    BY <1>13, <2>3 DEF Upsert
  <2>5. pc' \in [Calls -> Steps] /\ faults' \in 0..MaxFaults
        /\ kind' \in [Calls -> {"none", "login", "refresh", "session", "reload", "remove"}]
    BY <1>13 DEF Upsert, Succeed, Fault
  <2>. QED
    BY <1>13, <2>2, <2>4, <2>5 DEF Upsert, logins
<1>14. CASE DropOld(c)
  BY <1>0, <1>14 DEF DropOld, Deleted, Succeed, Fault, logins, OnAccount
<1>15. CASE RollbackRow(c)
  BY <1>0, <1>15 DEF RollbackRow, Fault, logins, locals, OnAccount
<1>16. CASE KeepSession(c)
  <2>1. kept' \in [Calls -> BOOLEAN]
    <3>1. \A r \in Refs : Readable(r) \in BOOLEAN
      BY DEF Readable
    <3>. QED
      BY <1>16, <3>1 DEF KeepSession, Readable
  <2>2. pc' \in [Calls -> Steps] /\ faults' \in 0..MaxFaults
    BY <1>16 DEF KeepSession, Fault
  <2>. QED
    BY <1>16, <2>1, <2>2 DEF KeepSession, logins
<1>17. CASE DeleteRow(c)
  BY <1>0, <1>17 DEF DeleteRow, Fault, logins, locals, OnAccount
<1>. QED
  BY <1>1, <1>2, <1>3, <1>4, <1>5, <1>6, <1>7, <1>8, <1>9, <1>10, <1>11, <1>12, <1>13, <1>14, <1>15, <1>16, <1>17 DEF Step

\* A command begins.
Begins ==
    \/ \E c \in Calls, l \in Logins : BeginCompletion(c, l)
    \/ \E c \in Calls, a \in Accounts :
           BeginRemove(c, a) \/ \E k \in {"refresh", "session"} : BeginSession(c, a, k)

\* What changes neither the accounts' rows nor the calls.
Elsewhere ==
    \/ \E l \in Logins : StartDeviceLogin(l) \/ CodeExpires(l) \/ CancelDeviceLogin(l)
    \/ \E a \in Accounts : SelectAccount(a)
    \/ \E p \in Profiles, a \in Accounts \cup {None} : AssignProfileAccount(p, a)

LEMMA NextSplit == Next => Begins \/ Elsewhere \/ Crash \/ \E c \in Calls : Step(c)
BY DEF Next, Begins, Elsewhere

LEMMA BeginTypeOK ==
  ASSUME TypeOK, Begins
  PROVE  TypeOK'
<1>. USE AccountsAssumption DEF TypeOK, rows, Goto, Steps, Refs
<1>1. ASSUME NEW c \in Calls, NEW l \in Logins, BeginCompletion(c, l)
      PROVE  TypeOK'
  BY <1>1 DEF BeginCompletion, logins
<1>2. ASSUME NEW c \in Calls, NEW a \in Accounts, BeginRemove(c, a)
      PROVE  TypeOK'
  <2>1. row[a].ref \in Refs
    BY <1>2 DEF BeginRemove, AccountRecord
  <2>. QED
    BY <1>2, <2>1 DEF BeginRemove, logins, EnterAccount
<1>3. ASSUME NEW c \in Calls, NEW a \in Accounts, NEW k \in {"refresh", "session"},
             BeginSession(c, a, k)
      PROVE  TypeOK'
  BY <1>3 DEF BeginSession, logins, EnterAccount
<1>. HIDE DEF TypeOK
<1>. QED
  BY <1>1, <1>2, <1>3 DEF Begins

LEMMA ElsewhereTypeOK ==
  ASSUME TypeOK, Elsewhere \/ Crash
  PROVE  TypeOK'
<1>. USE AccountsAssumption DEF TypeOK, rows, Steps
<1>1. ASSUME NEW l \in Logins, StartDeviceLogin(l) \/ CodeExpires(l) \/ CancelDeviceLogin(l)
      PROVE  TypeOK'
  <2>1. /\ started' \subseteq Logins /\ pending' \subseteq started' /\ expired' \subseteq started'
        /\ cancelled' \subseteq started' /\ claimed' \subseteq started'
    <3>1. CASE StartDeviceLogin(l)
      BY <3>1 DEF StartDeviceLogin
    <3>2. CASE CodeExpires(l)
      BY <3>2 DEF CodeExpires
    <3>3. CASE CancelDeviceLogin(l)
      BY <3>3 DEF CancelDeviceLogin
    <3>. QED
      BY <1>1, <3>1, <3>2, <3>3
  <2>2. UNCHANGED <<row, selected, assigned, entry, pc, locals, overlapped, crashed, faults>>
    BY <1>1 DEF StartDeviceLogin, CodeExpires, CancelDeviceLogin
  <2>. QED
    BY <2>1, <2>2 DEF locals
<1>2. ASSUME NEW a \in Accounts, SelectAccount(a)
      PROVE  TypeOK'
  BY <1>2 DEF SelectAccount, logins, locals
<1>3. ASSUME NEW p \in Profiles, NEW a \in Accounts \cup {None}, AssignProfileAccount(p, a)
      PROVE  TypeOK'
  BY <1>3 DEF AssignProfileAccount, logins, locals
<1>4. CASE Crash
  BY <1>4 DEF Crash, Fault, locals
<1>. HIDE DEF TypeOK
<1>. QED
  BY <1>1, <1>2, <1>3, <1>4 DEF Elsewhere

LEMMA InitTypeOK == Init => TypeOK
<1>. SUFFICES ASSUME Init PROVE TypeOK
  OBVIOUS
<1>. USE AccountsAssumption DEF Init
<1>1. row \in [Accounts -> AccountRecord \cup {NoRecord}]
  <2>1. \A a \in Accounts : [ref |-> a, state |-> "active"] \in AccountRecord
    BY DEF AccountRecord, Refs
  <2>. QED
    BY <2>1
<1>2. entry \in [Refs -> SUBSET Fields]
  <2>1. entry = [r \in Refs |-> IF r \in Stored THEN Fields ELSE {}]
    OBVIOUS
  <2>2. \A r \in Refs : (IF r \in Stored THEN Fields ELSE {}) \in SUBSET Fields
    BY ONLY TRUE
  <2>. QED
    BY ONLY <2>1, <2>2
<1>3. /\ selected \in Accounts \cup {None} /\ assigned \in [Profiles -> Accounts \cup {None}]
      /\ faults \in 0..MaxFaults /\ crashed \in BOOLEAN /\ overlapped \subseteq Accounts
  <2>1. selected \in Accounts \cup {None} /\ crashed \in BOOLEAN /\ overlapped \subseteq Accounts
    OBVIOUS
  <2>2. assigned \in [Profiles -> Accounts \cup {None}]
    OBVIOUS
  <2>3. faults \in 0..MaxFaults
    OBVIOUS
  <2>. QED
    BY ONLY <2>1, <2>2, <2>3
<1>4. polls \in [Calls -> 0..MaxPolls]
  OBVIOUS
<1>5. /\ pc \in [Calls -> Steps] /\ login \in [Calls -> Logins \cup {None}]
      /\ acct \in [Calls -> Accounts \cup {None}] /\ old \in [Calls -> Refs \cup {None}]
      /\ kept \in [Calls -> BOOLEAN]
      /\ kind \in [Calls -> {"none", "login", "refresh", "session", "reload", "remove"}]
      /\ seen \in [Calls -> AccountRecord \cup {NoRecord}]
  BY DEF Steps
<1>6. /\ started \subseteq Logins /\ pending \subseteq started /\ expired \subseteq started
      /\ cancelled \subseteq started /\ claimed \subseteq started
  OBVIOUS
<1>. QED
  BY <1>1, <1>2, <1>3, <1>4, <1>5, <1>6 DEF TypeOK

-----------------------------------------------------------------------------
(* The program of each call *)

\* What a step of call c does not touch.
OthersKept(c) ==
    /\ \A d \in Calls \ {c} :
          /\ pc'[d] = pc[d] /\ kind'[d] = kind[d] /\ login'[d] = login[d]
          /\ acct'[d] = acct[d] /\ old'[d] = old[d] /\ seen'[d] = seen[d]
    /\ started \subseteq started' /\ cancelled \subseteq cancelled' /\ faults <= faults'

LEMMA StepKeepsOthers ==
  ASSUME TypeOK, NEW c \in Calls, Step(c)
  PROVE  OthersKept(c) /\ login' = login /\ started' = started
<1>. USE AccountsAssumption DEF TypeOK, OthersKept, rows, Goto, logins, locals, Fault
<1>0. faults \in Nat
  OBVIOUS
<1>1. CASE ClaimLogin(c) \/ SendPoll(c) \/ ReceivePoll(c) \/ Release(c)
  BY <1>1 DEF ClaimLogin, SendPoll, ReceivePoll, Release, RemovePending
<1>2. CASE Exchange(c)
  BY <1>2 DEF Exchange, EnterAccount
<1>3. CASE LoadRecord(c) \/ LoadSession(c) \/ SelectForSession(c) \/ Renew(c) \/ ReadExisting(c)
  BY <1>0, <1>3 DEF LoadRecord, LoadSession, SelectForSession, Renew, ReadExisting
<1>4. CASE Put(c) \/ Wipe(c)
  BY <1>0, <1>4 DEF Put, Wipe, Finish
<1>5. CASE Upsert(c)
  BY <1>0, <1>5 DEF Upsert, Succeed
<1>6. CASE DropOld(c) \/ RollbackRow(c)
  BY <1>0, <1>6 DEF DropOld, RollbackRow, Succeed
<1>7. CASE KeepSession(c) \/ DeleteRow(c)
  BY <1>0, <1>7 DEF KeepSession, DeleteRow
<1>. QED
  BY <1>1, <1>2, <1>3, <1>4, <1>5, <1>6, <1>7 DEF Step

LEMMA ProgramFrame ==
  ASSUME TypeOK, TypeOK', ProgramInv, NEW c \in Calls, OthersKept(c), ProgramOf(c)'
  PROVE  ProgramInv'
<1>. SUFFICES ASSUME NEW d \in Calls, d # c
              PROVE  ProgramOf(d)'
  BY DEF ProgramInv
<1>1. ProgramOf(d)
  BY DEF ProgramInv
<1>2. faults \in Nat /\ faults' \in Nat
  BY DEF TypeOK
<1>. QED
  BY <1>1, <1>2 DEF ProgramOf, OthersKept, OnAccount

LEMMA CallProgram ==
  ASSUME TypeOK, TypeOK', ProgramInv, NEW c \in Calls, Step(c)
  PROVE  ProgramInv'
<1>1. OthersKept(c) /\ login' = login /\ started' = started
  BY StepKeepsOthers
<1>2. ProgramOf(c) /\ faults \in 0..MaxFaults
  BY DEF ProgramInv, TypeOK
<1>3. SUFFICES ProgramOf(c)'
  BY <1>1, ProgramFrame
<1>. USE AccountsAssumption, <1>1, <1>2
     DEF TypeOK, ProgramOf, OnAccount, rows, Goto, logins, locals, Fault, StepsOf, Rotation, Unnamed
<1>4. CASE ClaimLogin(c)
  BY <1>4 DEF ClaimLogin
<1>5. CASE SendPoll(c) \/ ReceivePoll(c)
  BY <1>5 DEF SendPoll, ReceivePoll
<1>6. CASE Exchange(c)
  BY <1>6 DEF Exchange, EnterAccount
<1>7. CASE Release(c)
  BY <1>7 DEF Release
<1>8. CASE LoadRecord(c)
  BY <1>8 DEF LoadRecord
<1>9. CASE LoadSession(c)
  BY <1>9 DEF LoadSession
<1>10. CASE SelectForSession(c) \/ Renew(c)
  BY <1>10 DEF SelectForSession, Renew
<1>11. CASE ReadExisting(c)
  BY <1>11 DEF ReadExisting
<1>12. CASE Put(c)
  BY <1>12 DEF Put
<1>13. CASE Wipe(c)
  BY <1>13 DEF Wipe, Finish
<1>14. CASE Upsert(c)
  <2>1. acct[c] \in Accounts /\ kind[c] \in {"login", "refresh", "session"}
    BY <1>14 DEF Upsert
  <2>2. row[acct[c]] # NoRecord => row[acct[c]].ref \in Refs
    BY <2>1 DEF AccountRecord
  <2>3. pc'[c] \in StepsOf[kind'[c]] /\ (pc'[c] = "dropRefresh" => old'[c] \in Refs)
    BY <1>14, <2>1, <2>2 DEF Upsert, Succeed
  <2>4. /\ kind'[c] # "remove" /\ pc'[c] \in {"dropRefresh", "release", "load", "done", "wipeRefresh"}
        /\ kind'[c] = "login" <=> kind[c] = "login"
        /\ acct' = acct /\ (pc'[c] = "wipeRefresh" => faults' > 0)
    BY <1>14, <2>1 DEF Upsert, Succeed
  <2>. QED
    BY <2>1, <2>3, <2>4
<1>15. CASE DropOld(c)
  BY <1>15 DEF DropOld, Succeed
<1>16. CASE RollbackRow(c)
  BY <1>16 DEF RollbackRow
<1>17. CASE KeepSession(c)
  BY <1>17 DEF KeepSession
<1>18. CASE DeleteRow(c)
  BY <1>18 DEF DeleteRow
<1>. QED
  BY <1>4, <1>5, <1>6, <1>7, <1>8, <1>9, <1>10, <1>11, <1>12, <1>13, <1>14, <1>15, <1>16, <1>17, <1>18 DEF Step

LEMMA InitProgram == Init => ProgramInv
BY AccountsAssumption DEF Init, ProgramInv, ProgramOf, StepsOf, OnAccount

LEMMA BeginProgram ==
  ASSUME TypeOK, TypeOK', ProgramInv, Begins
  PROVE  ProgramInv'
<1>. USE AccountsAssumption
     DEF TypeOK, ProgramOf, OnAccount, rows, Goto, logins, StepsOf, Rotation, Unnamed, OthersKept
<1>1. ASSUME NEW c \in Calls, NEW l \in Logins, BeginCompletion(c, l)
      PROVE  ProgramInv'
  <2>1. ProgramOf(c)
    BY DEF ProgramInv
  <2>2. OthersKept(c) /\ ProgramOf(c)'
    BY <1>1, <2>1 DEF BeginCompletion
  <2>. QED
    BY <2>2, ProgramFrame
<1>2. ASSUME NEW c \in Calls, NEW a \in Accounts, BeginRemove(c, a)
      PROVE  ProgramInv'
  <2>1. ProgramOf(c) /\ row[a].ref \in Refs
    BY <1>2 DEF ProgramInv, BeginRemove, AccountRecord
  <2>2. OthersKept(c) /\ ProgramOf(c)'
    BY <1>2, <2>1 DEF BeginRemove, EnterAccount
  <2>. QED
    BY <2>2, ProgramFrame
<1>3. ASSUME NEW c \in Calls, NEW a \in Accounts, NEW k \in {"refresh", "session"},
             BeginSession(c, a, k)
      PROVE  ProgramInv'
  <2>1. ProgramOf(c)
    BY DEF ProgramInv
  <2>2. OthersKept(c)
    BY <1>3 DEF BeginSession, EnterAccount
  <2>3. ProgramOf(c)'
    BY <1>3, <2>1 DEF BeginSession, EnterAccount
  <2>. QED
    BY <2>2, <2>3, ProgramFrame
<1>. QED
  BY <1>1, <1>2, <1>3 DEF Begins

LEMMA ElsewhereKeepsCalls ==
  ASSUME TypeOK, Elsewhere
  PROVE  /\ pc' = pc /\ kind' = kind /\ login' = login /\ acct' = acct /\ seen' = seen
         /\ old' = old /\ kept' = kept /\ row' = row /\ entry' = entry /\ faults' = faults
         /\ overlapped' = overlapped /\ crashed' = crashed
         /\ started \subseteq started' /\ cancelled \subseteq cancelled'
BY DEF Elsewhere, StartDeviceLogin, CodeExpires, CancelDeviceLogin, SelectAccount,
       AssignProfileAccount, logins, locals, rows

LEMMA ElsewhereProgram ==
  ASSUME TypeOK, TypeOK', ProgramInv, Elsewhere \/ Crash
  PROVE  ProgramInv'
<1>1. CASE Elsewhere
  BY <1>1, ElsewhereKeepsCalls DEF ProgramInv, ProgramOf, OnAccount
<1>2. CASE Crash
  BY <1>2 DEF Crash, Fault, TypeOK, ProgramInv, ProgramOf, OnAccount, locals, StepsOf,
              Rotation, Unnamed
<1>. QED
  BY <1>1, <1>2

THEOREM TypesAndProgram == Spec => [](TypeOK /\ ProgramInv)
<1>1. Init => TypeOK /\ ProgramInv
  BY InitTypeOK, InitProgram
<1>2. TypeOK /\ ProgramInv /\ [Next]_vars => (TypeOK /\ ProgramInv)'
  <2>. SUFFICES ASSUME TypeOK, ProgramInv, [Next]_vars
                PROVE  TypeOK' /\ ProgramInv'
    OBVIOUS
  <2>1. CASE UNCHANGED vars
    BY <2>1 DEF vars, TypeOK, ProgramInv, ProgramOf, OnAccount
  <2>2. CASE Begins
    BY <2>2, BeginTypeOK, BeginProgram
  <2>3. CASE Elsewhere \/ Crash
    BY <2>3, ElsewhereTypeOK, ElsewhereProgram
  <2>4. CASE \E c \in Calls : Step(c)
    BY <2>4, CallTypeOK, CallProgram
  <2>. QED
    BY <2>1, <2>2, <2>3, <2>4, NextSplit
<1>. QED
  BY <1>1, <1>2, PTL DEF Spec

\* A completion that is out of the exchange can only step aside.
LEMMA OutStepsAside ==
  ASSUME TypeOK, ProgramInv, NEW l \in Logins, Out(l), NEW c \in Calls, Step(c), login[c] = l
  PROVE  pc'[c] \in {"poll", "release", "done"}
<1>. USE DEF TypeOK, Out, Goto
<1>1. pc[c] \in {"claim", "poll", "release", "done"}
  BY AccountsAssumption DEF ProgramInv, ProgramOf
<1>. QED
  BY <1>1 DEF Step, ClaimLogin, SendPoll, ReceivePoll, Exchange, Release, LoadRecord,
     LoadSession, SelectForSession, Renew, ReadExisting, Put, Wipe, Upsert, DropOld,
     RollbackRow, KeepSession, DeleteRow

LEMMA OutStays ==
  ASSUME TypeOK, ProgramInv, [Next]_vars, NEW l \in Logins, Out(l)
  PROVE  Out(l)'
<1>1. CASE UNCHANGED vars
  BY <1>1 DEF vars, Out
<1>2. CASE Begins
  BY <1>2, AccountsAssumption DEF Begins, BeginCompletion, BeginRemove, BeginSession, Out,
     ProgramInv, ProgramOf, TypeOK, Goto, logins
<1>3. CASE Elsewhere
  BY <1>3, ElsewhereKeepsCalls DEF Out
<1>4. CASE Crash
  BY <1>4 DEF Crash, Out, locals, TypeOK
<1>5. ASSUME NEW c \in Calls, Step(c)
      PROVE  Out(l)'
  BY <1>5, StepKeepsOthers, OutStepsAside DEF OthersKept, Out
<1>. QED
  BY <1>1, <1>2, <1>3, <1>4, <1>5, NextSplit

\* A cancelled login whose answer is not under way stays out, whatever else
\* runs: poll_token looks at the flag before every request.
THEOREM CancelledLoginStaysOut == Spec => CancelledStaysOut
<1>1. TypeOK /\ ProgramInv /\ [Next]_vars => [\A l \in Logins : Out(l) => Out(l)']_vars
  BY OutStays
<1>. QED
  BY <1>1, TypesAndProgram, PTL DEF Spec, CancelledStaysOut

-----------------------------------------------------------------------------
(* Who owns a reference *)

\* How a call moves references: a row takes the call's own credential, or what
\* the call has seen; what a call remembers it takes from its account's row.
RefsMove(c) ==
    /\ acct'[c] # acct[c] => acct[c] = None
    /\ \A a \in Accounts :
          \/ row'[a].ref \in {row[a].ref, None}
          \/ a = acct[c] /\ row'[a].ref = c /\ ~Fresh(c)'
          \/ a = acct[c] /\ row'[a].ref = seen[c].ref
    /\ old'[c] = old[c] \/ (acct'[c] \in Accounts /\ old'[c] = row[acct'[c]].ref)
    /\ seen'[c] = seen[c] \/ (acct'[c] \in Accounts /\ seen'[c] = row[acct'[c]])
    /\ Fresh(c)' => Fresh(c)
    /\ Fresh(c)' /\ pc[c] \in {"putMetadata", "upsert"} => pc'[c] \in {"putMetadata", "upsert"}
    /\ \A r \in Refs :
          \/ entry'[r] \subseteq entry[r]
          \/ r = old[c]
          \/ /\ r = c /\ acct[c] \in Accounts
             /\ Fresh(c)' => pc'[c] \in {"putMetadata", "upsert"}

LEMMA OwnerFrame ==
  ASSUME TypeOK, TypeOK', OwnerInv, NEW c \in Calls, OthersKept(c), RefsMove(c)
  PROVE  OwnerInv'
<1>1. None \notin Accounts \cup Calls /\ Accounts \cap Calls = {} /\ Refs = Calls \cup Accounts
      /\ acct \in [Calls -> Accounts \cup {None}] /\ acct' \in [Calls -> Accounts \cup {None}]
  BY AccountsAssumption DEF Refs, TypeOK
<1>2. \A d \in Calls : acct[d] \in Accounts => acct'[d] = acct[d]
  BY <1>1 DEF RefsMove, OthersKept
<1>3. \A r, a : a \in Accounts /\ RefAccount(r) = a => RefAccount(r)' = a
  BY <1>2 DEF RefAccount
<1>4. /\ \A a \in Accounts : row[a].ref # None => RefAccount(row[a].ref) = a
      /\ \A d \in Calls :
            /\ old[d] # None => acct[d] \in Accounts /\ RefAccount(old[d]) = acct[d]
            /\ seen[d].ref # None => acct[d] \in Accounts /\ RefAccount(seen[d].ref) = acct[d]
  BY DEF OwnerInv
<1>5. ASSUME NEW a \in Accounts, row'[a].ref # None
      PROVE  RefAccount(row[a].ref)' = a
  <2>1. CASE row'[a].ref = row[a].ref
    BY <2>1, <1>2, <1>4, <1>5 DEF RefAccount
  <2>2. CASE a = acct[c] /\ row'[a].ref = c
    BY <2>2, <1>1, <1>2 DEF RefAccount
  <2>3. CASE a = acct[c] /\ row'[a].ref = seen[c].ref
    BY <2>3, <1>2, <1>4, <1>5 DEF RefAccount
  <2>. QED
    BY <2>1, <2>2, <2>3, <1>5 DEF RefsMove
<1>6. ASSUME NEW d \in Calls, old'[d] # None
      PROVE  acct'[d] \in Accounts /\ RefAccount(old[d])' = acct'[d]
  <2>1. CASE old'[d] = old[d]
    BY <2>1, <1>2, <1>4, <1>6 DEF RefAccount
  <2>2. CASE d = c /\ acct'[c] \in Accounts /\ old'[c] = row[acct'[c]].ref
    BY <2>2, <1>2, <1>4, <1>6 DEF RefAccount
  <2>. QED
    BY <2>1, <2>2 DEF RefsMove, OthersKept
<1>7. ASSUME NEW d \in Calls, seen'[d].ref # None
      PROVE  acct'[d] \in Accounts /\ RefAccount(seen[d].ref)' = acct'[d]
  <2>1. CASE seen'[d] = seen[d]
    BY <2>1, <1>2, <1>4, <1>7 DEF RefAccount
  <2>2. CASE d = c /\ acct'[c] \in Accounts /\ seen'[c] = row[acct'[c]]
    BY <2>2, <1>2, <1>4, <1>7 DEF RefAccount
  <2>. QED
    BY <2>1, <2>2 DEF RefsMove, OthersKept
<1>8. \A d \in Calls : Fresh(d)' => Fresh(d)
  BY DEF RefsMove, OthersKept, Fresh
<1>9. ASSUME NEW d \in Calls, Fresh(d)'
      PROVE  ~Named(d)'
  <2>1. ~Named(d) /\ d # None
    BY <1>1, <1>8, <1>9 DEF OwnerInv
  <2>2. \A a \in Accounts : row'[a].ref # d
    BY <2>1, <1>9 DEF RefsMove, Named
  <2>3. \A e \in Calls : old'[e] # d /\ seen'[e].ref # d
    BY <2>1 DEF RefsMove, OthersKept, Named
  <2>. QED
    BY <2>2, <2>3 DEF Named
<1>10. ASSUME NEW d \in Calls, entry'[d] # {}
       PROVE  acct'[d] \in Accounts
  <2>1. CASE entry[d] # {}
    BY <2>1, <1>2 DEF OwnerInv
  <2>2. CASE d = old[c]
    BY <2>2, <1>1, <1>2, <1>4 DEF RefAccount
  <2>3. CASE d = c /\ acct[c] \in Accounts
    BY <2>3, <1>2
  <2>. QED
    BY <2>1, <2>2, <2>3, <1>1, <1>10 DEF RefsMove
<1>11. ASSUME NEW d \in Calls, Fresh(d)', pc'[d] \notin {"putMetadata", "upsert"}
       PROVE  entry'[d] = {}
  <2>1. Fresh(d) /\ ~Named(d) /\ pc[d] \notin {"putMetadata", "upsert"}
    BY <1>8, <1>11 DEF OwnerInv, RefsMove, OthersKept
  <2>2. entry[d] = {} /\ d # old[c] /\ d \in Refs
    BY <2>1, <1>1 DEF OwnerInv, Named
  <2>. QED
    BY <2>2, <1>11 DEF RefsMove
<1>. QED
  BY <1>5, <1>6, <1>7, <1>9, <1>10, <1>11 DEF OwnerInv

LEMMA InitOwner == Init => OwnerInv
BY AccountsAssumption DEF Init, OwnerInv, RefAccount, Fresh, Named, NoRecord, Refs

LEMMA LoadSessionKeepsRefs ==
  ASSUME TypeOK, NEW c \in Calls, acct[c] \in Accounts, LoadSession(c)
  PROVE  \A a \in Accounts :
            /\ row'[a].ref = row[a].ref
            /\ row'[a].state \in {row[a].state, "relogin-required"}
            /\ row'[a] = NoRecord <=> row[a] = NoRecord
<1>1. row' = row \/ MarkRelogin(acct[c])
  BY DEF LoadSession
<1>2. CASE MarkRelogin(acct[c])
  BY <1>2, MarkReloginFacts
<1>. QED
  BY <1>1, <1>2

LEMMA CallRefsMove ==
  ASSUME TypeOK, ProgramInv, NEW c \in Calls, Step(c)
  PROVE  RefsMove(c)
<1>1. ProgramOf(c)
  BY DEF ProgramInv
<1>. USE AccountsAssumption
     DEF TypeOK, RefsMove, Fresh, rows, Goto, logins, locals, Unnamed
<1>2. CASE ClaimLogin(c) \/ SendPoll(c) \/ ReceivePoll(c) \/ Release(c)
  BY <1>2 DEF ClaimLogin, SendPoll, ReceivePoll, Release
<1>3. CASE Exchange(c)
  BY <1>1, <1>3 DEF Exchange, EnterAccount, ProgramOf
<1>4. CASE LoadRecord(c) \/ ReadExisting(c)
  BY <1>1, <1>4 DEF LoadRecord, ReadExisting, ProgramOf, OnAccount
<1>5. CASE LoadSession(c)
  <2>1. acct[c] \in Accounts
    BY <1>1, <1>5 DEF LoadSession, ProgramOf, OnAccount
  <2>2. \A a \in Accounts : row'[a].ref = row[a].ref
    BY <1>5, <2>1, LoadSessionKeepsRefs
  <2>. QED
    BY <1>5, <2>2 DEF LoadSession
<1>6. CASE SelectForSession(c) \/ Renew(c)
  BY <1>6 DEF SelectForSession, Renew
<1>7. CASE Put(c)
  <2>1. acct[c] \in Accounts
    BY <1>1, <1>7 DEF Put, ProgramOf, OnAccount
  <2>2. \A r \in Refs : r # Target(c) => entry'[r] = entry[r]
    BY <1>7 DEF Put, Written
  <2>3. Target(c) \in {c, old[c]}
    BY DEF Target
  <2>4. Fresh(c)' => Fresh(c) /\ pc'[c] \in {"putMetadata", "upsert"}
    BY <1>7 DEF Put
  <2>. QED
    BY <1>7, <2>1, <2>2, <2>3, <2>4 DEF Put
<1>8. CASE Wipe(c)
  <2>1. \A r \in Refs : entry'[r] \subseteq entry[r]
    BY <1>8 DEF Wipe, Deleted
  <2>. QED
    BY <1>8, <2>1 DEF Wipe, Finish
<1>9. CASE Upsert(c)
  BY <1>1, <1>9 DEF Upsert, Succeed, ProgramOf, OnAccount, StepsOf, Rotation
<1>10. CASE DropOld(c)
  <2>1. \A r \in Refs : entry'[r] \subseteq entry[r]
    BY <1>10 DEF DropOld, Deleted
  <2>. QED
    BY <1>10, <2>1 DEF DropOld, Succeed
<1>11. CASE RollbackRow(c)
  BY <1>1, <1>11 DEF RollbackRow, ProgramOf, OnAccount
<1>12. CASE KeepSession(c)
  BY <1>12 DEF KeepSession
<1>13. CASE DeleteRow(c)
  <2>1. \A a \in Accounts : row'[a] \in {row[a], NoRecord}
    BY <1>13 DEF DeleteRow
  <2>2. \A a \in Accounts : row'[a].ref \in {row[a].ref, None}
    BY <2>1 DEF NoRecord
  <2>. QED
    BY <1>1, <1>13, <2>2 DEF DeleteRow, ProgramOf, StepsOf, Rotation
<1>. QED
  BY <1>2, <1>3, <1>4, <1>5, <1>6, <1>7, <1>8, <1>9, <1>10, <1>11, <1>12, <1>13 DEF Step

LEMMA BeginOwner ==
  ASSUME TypeOK, TypeOK', ProgramInv, OwnerInv, Begins
  PROVE  OwnerInv'
<1>. USE AccountsAssumption
     DEF TypeOK, RefsMove, Fresh, rows, Goto, logins, Unnamed, OthersKept, ProgramOf
<1>1. ASSUME NEW c \in Calls, NEW l \in Logins, BeginCompletion(c, l)
      PROVE  OwnerInv'
  <2>1. ProgramOf(c)
    BY DEF ProgramInv
  <2>2. OthersKept(c)
    BY <1>1 DEF BeginCompletion
  <2>3. RefsMove(c)
    BY <1>1, <2>1 DEF BeginCompletion, StepsOf
  <2>. QED
    BY <2>2, <2>3, OwnerFrame
<1>2. ASSUME NEW c \in Calls, NEW a \in Accounts, BeginRemove(c, a)
      PROVE  OwnerInv'
  <2>1. ProgramOf(c)
    BY DEF ProgramInv
  <2>2. OthersKept(c)
    BY <1>2 DEF BeginRemove, EnterAccount
  <2>3. RefsMove(c)
    BY <1>2, <2>1 DEF BeginRemove, EnterAccount
  <2>. QED
    BY <2>2, <2>3, OwnerFrame
<1>3. ASSUME NEW c \in Calls, NEW a \in Accounts, NEW k \in {"refresh", "session"},
             BeginSession(c, a, k)
      PROVE  OwnerInv'
  <2>1. ProgramOf(c)
    BY DEF ProgramInv
  <2>2. OthersKept(c)
    BY <1>3 DEF BeginSession, EnterAccount
  <2>3. RefsMove(c)
    BY <1>3, <2>1 DEF BeginSession, EnterAccount, StepsOf
  <2>. QED
    BY <2>2, <2>3, OwnerFrame
<1>. QED
  BY <1>1, <1>2, <1>3 DEF Begins

LEMMA OwnerStep ==
  ASSUME TypeOK, TypeOK', ProgramInv, OwnerInv, [Next]_vars
  PROVE  OwnerInv'
<1>1. CASE UNCHANGED vars
  BY <1>1 DEF vars, OwnerInv, RefAccount, Fresh, Named
<1>2. CASE Elsewhere
  BY <1>2, ElsewhereKeepsCalls DEF OwnerInv, RefAccount, Fresh, Named
<1>3. CASE Crash
  BY <1>3 DEF Crash, OwnerInv, RefAccount, Fresh, Named, rows, locals, TypeOK, Unnamed
<1>4. ASSUME NEW c \in Calls, Step(c)
      PROVE  OwnerInv'
  BY <1>4, StepKeepsOthers, CallRefsMove, OwnerFrame
<1>. QED
  BY <1>1, <1>2, <1>3, <1>4, BeginOwner, NextSplit

-----------------------------------------------------------------------------
(* Credentials are whole while nothing fails *)

\* How a call works on the rows and the credentials while nothing fails.
WholeMove(c) ==
    /\ \A r \in Refs : r \notin {c, old[c]} => entry'[r] = entry[r]
    /\ \A r \in Refs :
          \/ entry[r] \subseteq entry'[r]
          \/ /\ r = old[c] /\ pc[c] \in {"dropRefresh", "dropMetadata"}
             /\ kind[c] = "remove" => pc'[c] \in {"dropMetadata", "deleteRow"}
    /\ \A a \in Accounts :
          \/ row'[a] = row[a]
          \/ row'[a].state # "active" /\ row'[a].ref \in {row[a].ref, None}
          \/ /\ a = acct[c] /\ row'[a].ref = c /\ entry' = entry
             /\ Fresh(c) /\ pc[c] = "upsert"
    /\ kind[c] = "remove" =>
          /\ kind'[c] = "remove" /\ acct'[c] = acct[c] /\ old'[c] = old[c]
          /\ pc[c] = "dropMetadata" => pc'[c] = "deleteRow"
          /\ pc[c] = "deleteRow" /\ row[acct[c]].state = "active" =>
                row'[acct[c]].state # "active"

LEMMA WholeOthers ==
  ASSUME TypeOK, TypeOK', ProgramInv, OwnerInv, faults = 0, WholeInv,
         NEW c \in Calls, OthersKept(c), WholeMove(c), NEW d \in Calls \ {c}
  PROVE  WholeOf(d)'
<1>1. WholeOf(d) /\ ProgramOf(d) /\ (Fresh(d) => ~Named(d))
  BY DEF WholeInv, ProgramInv, OwnerInv
<1>2. d \in Refs /\ None \notin Refs
  BY AccountsAssumption DEF Refs
<1>3. Fresh(d) => entry'[d] = entry[d]
  BY <1>1, <1>2 DEF WholeMove, Named
<1>4. Fresh(d)' <=> Fresh(d)
  BY DEF OthersKept, Fresh
<1>5. pc[d] \in {"dropRefresh", "dropMetadata"} \/ kind[d] = "remove" => old[d] \in Refs
  BY <1>1 DEF ProgramOf
<1>6. \A a \in Accounts : row'[a].ref \in {row[a].ref, None} \/ (row'[a].ref = c /\ Fresh(c))
  BY DEF WholeMove
<1>7. Fresh(c) => old[d] # c
  BY DEF OwnerInv, Named
<1>8. (\A a \in Accounts : row[a].ref # old[d]) /\ old[d] \in Refs =>
           \A a \in Accounts : row'[a].ref # old[d]
  BY <1>2, <1>6, <1>7
<1>9. pc'[d] = pc[d] /\ kind'[d] = kind[d] /\ old'[d] = old[d]
  BY DEF OthersKept
<1>. QED
  BY <1>1, <1>3, <1>4, <1>5, <1>8, <1>9 DEF WholeOf, Readable

LEMMA RowsStayWhole ==
  ASSUME TypeOK, TypeOK', ProgramInv, OwnerInv, faults = 0, WholeInv,
         NEW c \in Calls, OthersKept(c), WholeMove(c)
  PROVE  ActiveRowIsReadable'
<1>. SUFFICES ASSUME NEW a \in Accounts, row'[a].state = "active"
              PROVE  Readable(row[a].ref)' \/ BeingRemoved(a)'
  BY DEF ActiveRowIsReadable
<1>1. WholeOf(c)
  BY DEF WholeInv
<1>2. CASE row'[a] # row[a]
  <2>1. row'[a].ref = c /\ entry' = entry /\ Fresh(c) /\ pc[c] = "upsert"
    BY <1>2 DEF WholeMove
  <2>. QED
    BY <1>1, <2>1 DEF WholeOf, Readable
<1>3. CASE row'[a] = row[a]
  <2>1. row[a].state = "active" /\ row[a].ref \in Refs
    BY <1>3 DEF TypeOK, AccountRecord, NoRecord
  <2>2. row[a].ref \in Refs => RefAccount(row[a].ref) = a
    BY AccountsAssumption DEF OwnerInv, Refs
  <2>3. Readable(row[a].ref) \/ BeingRemoved(a)
    BY <2>1 DEF WholeInv, ActiveRowIsReadable
  <2>4. CASE Readable(row[a].ref) /\ entry[row[a].ref] \subseteq entry'[row[a].ref]
    <3>1. entry'[row[a].ref] \subseteq Fields
      BY <2>1 DEF TypeOK
    <3>. QED
      BY <1>3, <2>4, <3>1 DEF Readable
  <2>5. CASE ~(entry[row[a].ref] \subseteq entry'[row[a].ref])
    <3>1. /\ row[a].ref = old[c] /\ pc[c] \in {"dropRefresh", "dropMetadata"}
          /\ kind[c] = "remove" => pc'[c] \in {"dropMetadata", "deleteRow"}
      BY <2>1, <2>5 DEF WholeMove
    <3>2. kind[c] = "remove"
      BY <1>1, <3>1 DEF WholeOf
    <3>3. acct[c] = a
      BY <2>1, <2>2, <3>1, AccountsAssumption DEF OwnerInv, Refs
    <3>. QED
      BY <1>3, <3>1, <3>2, <3>3 DEF WholeMove, BeingRemoved
  <2>6. ASSUME NEW d \in Calls, kind[d] = "remove", acct[d] = a, old[d] = row[a].ref,
               pc[d] \in {"dropMetadata", "deleteRow", "putRefresh", "putMetadata"}
        PROVE  BeingRemoved(a)'
    <3>1. pc[d] \in {"dropMetadata", "deleteRow"}
      BY <2>6 DEF WholeInv, WholeOf
    <3>2. CASE d # c
      BY <1>3, <2>6, <3>2 DEF OthersKept, BeingRemoved
    <3>3. CASE d = c
      BY <1>3, <2>1, <2>6, <3>1, <3>3 DEF WholeMove, BeingRemoved
    <3>. QED
      BY <3>2, <3>3
  <2>. QED
    BY <2>3, <2>4, <2>5, <2>6 DEF BeingRemoved
<1>. QED
  BY <1>2, <1>3

LEMMA CallWholeMove ==
  ASSUME TypeOK, ProgramInv, OwnerInv, faults' = 0, NEW c \in Calls, Step(c)
  PROVE  WholeMove(c) /\ faults = 0
<1>1. ProgramOf(c) /\ faults = 0 /\ ~Fault
  BY StepKeepsOthers DEF ProgramInv, OthersKept, TypeOK, Fault
<1>. USE AccountsAssumption, <1>1
     DEF TypeOK, WholeMove, rows, Goto, logins, locals
<1>2. CASE ClaimLogin(c) \/ SendPoll(c) \/ ReceivePoll(c) \/ Release(c)
  BY <1>2 DEF ClaimLogin, SendPoll, ReceivePoll, Release
<1>3. CASE Exchange(c)
  BY <1>3 DEF Exchange, EnterAccount, ProgramOf, StepsOf
<1>4. CASE LoadRecord(c) \/ ReadExisting(c)
  BY <1>4 DEF LoadRecord, ReadExisting
<1>5. CASE LoadSession(c)
  <2>1. acct[c] \in Accounts
    BY <1>5 DEF LoadSession, ProgramOf, OnAccount
  <2>2. row' = row \/ MarkRelogin(acct[c])
    BY <1>5 DEF LoadSession
  <2>3. \A a \in Accounts : row'[a] = row[a]
            \/ (row'[a].state # "active" /\ row'[a].ref \in {row[a].ref, None})
    BY <2>1, <2>2 DEF MarkRelogin, AccountRecord
  <2>4. entry' = entry /\ kind' = kind /\ acct' = acct /\ old' = old /\ pc[c] = "get"
    BY <1>5 DEF LoadSession
  <2>. QED
    BY <2>3, <2>4
<1>6. CASE SelectForSession(c) \/ Renew(c)
  BY <1>6 DEF SelectForSession, Renew
<1>7. CASE Put(c)
  <2>1. /\ \A r \in Refs : r # Target(c) => entry'[r] = entry[r]
        /\ \A r \in Refs : entry[r] \subseteq entry'[r]
    BY <1>7 DEF Put, Written
  <2>2. Target(c) \in {c, old[c]}
    BY DEF Target
  <2>. QED
    BY <1>7, <2>1, <2>2 DEF Put
<1>8. CASE Wipe(c)
  BY <1>8 DEF Wipe, ProgramOf
<1>9. CASE Upsert(c)
  <2>1. kind[c] \in {"login", "refresh", "session"} /\ acct[c] \in Accounts
    BY <1>9 DEF Upsert, ProgramOf, StepsOf, Rotation, OnAccount
  <2>2. Fresh(c)
    BY <1>9, <2>1 DEF Fresh, Upsert
  <2>. QED
    BY <1>9, <2>1, <2>2 DEF Upsert
<1>10. CASE DropOld(c)
  <2>1. \A r \in Refs : r # old[c] => entry'[r] = entry[r]
    BY <1>10 DEF DropOld, Deleted
  <2>2. pc[c] \in {"dropRefresh", "dropMetadata"}
    BY <1>10 DEF DropOld
  <2>3. /\ kind[c] = "remove" => kind' = kind /\ pc'[c] \in {"dropMetadata", "deleteRow"}
        /\ kind[c] = "remove" /\ pc[c] = "dropMetadata" => pc'[c] = "deleteRow"
        /\ acct' = acct /\ old' = old /\ row' = row
    BY <1>10 DEF DropOld
  <2>. QED
    BY <2>1, <2>2, <2>3
<1>11. CASE RollbackRow(c)
  BY <1>11 DEF RollbackRow, ProgramOf
<1>12. CASE KeepSession(c)
  BY <1>12 DEF KeepSession
<1>13. CASE DeleteRow(c)
  <2>1. acct[c] \in Accounts /\ NoRecord.state # "active" /\ NoRecord.ref = None
    BY <1>13 DEF DeleteRow, ProgramOf, OnAccount, NoRecord
  <2>. QED
    BY <1>13, <2>1 DEF DeleteRow
<1>. QED
  BY <1>2, <1>3, <1>4, <1>5, <1>6, <1>7, <1>8, <1>9, <1>10, <1>11, <1>12, <1>13 DEF Step

LEMMA CallWhole ==
  ASSUME TypeOK, ProgramInv, OwnerInv, WholeInv, faults' = 0, NEW c \in Calls, Step(c)
  PROVE  WholeOf(c)'
<1>1. ProgramOf(c) /\ faults = 0 /\ ~Fault
  BY StepKeepsOthers DEF ProgramInv, OthersKept, TypeOK, Fault
<1>2. WholeOf(c)
  BY <1>1 DEF WholeInv
<1>. USE AccountsAssumption, <1>1
     DEF TypeOK, WholeOf, Fresh, Unnamed, rows, Goto, logins, locals
<1>3. CASE ClaimLogin(c) \/ SendPoll(c) \/ ReceivePoll(c) \/ Release(c)
  BY <1>3 DEF ClaimLogin, SendPoll, ReceivePoll, Release
<1>4. CASE Exchange(c)
  BY <1>4 DEF Exchange
<1>5. CASE LoadRecord(c) \/ LoadSession(c) \/ SelectForSession(c) \/ Renew(c)
  BY <1>5 DEF LoadRecord, LoadSession, SelectForSession, Renew
<1>6. CASE ReadExisting(c)
  BY <1>6 DEF ReadExisting, ProgramOf, StepsOf, Rotation
<1>7. CASE Put(c)
  <2>1. Fresh(c) => Target(c) = c /\ c \in Refs
    BY DEF Target, Refs
  <2>2. Fresh(c)' => Fresh(c)
    BY <1>7 DEF Put
  <2>3. Fresh(c) /\ pc'[c] = "putMetadata" => "refresh" \in entry'[c]
    BY <1>7, <2>1 DEF Put, Written
  <2>4. Fresh(c) /\ pc'[c] = "upsert" => entry'[c] = Fields
    BY <1>2, <1>7, <2>1 DEF Put, Written, Fields
  <2>. QED
    BY <1>2, <1>7, <2>2, <2>3, <2>4 DEF Put, Readable
<1>8. CASE Wipe(c)
  BY <1>8 DEF Wipe, ProgramOf
<1>9. CASE Upsert(c)
  <2>1. kind[c] \in {"login", "refresh", "session"} /\ acct[c] \in Accounts
    BY <1>9 DEF Upsert, ProgramOf, StepsOf, Rotation, OnAccount
  <2>2. \A a \in Accounts : row[a].ref # c
    BY <1>9, <2>1 DEF Upsert, OwnerInv, Named
  <2>3. CASE row[acct[c]] = NoRecord
    BY <1>9, <2>1, <2>3 DEF Upsert, Succeed
  <2>4. CASE row[acct[c]] # NoRecord
    <3>1. row[acct[c]].ref # None
      BY <2>1, <2>4 DEF AccountRecord, Refs
    <3>2. \A a \in Accounts : row[a].ref = row[acct[c]].ref => a = acct[c]
      BY <2>1, <3>1 DEF OwnerInv
    <3>3. \A a \in Accounts : row'[a].ref # row[acct[c]].ref
      BY <1>9, <2>1, <2>2, <3>2 DEF Upsert
    <3>4. old'[c] = row[acct[c]].ref /\ pc'[c] = "dropRefresh" /\ kind'[c] # "remove"
      BY <1>9, <2>1, <2>4 DEF Upsert
    <3>. QED
      BY <3>3, <3>4
  <2>. QED
    BY <2>3, <2>4
<1>10. CASE DropOld(c)
  BY <1>2, <1>10 DEF DropOld, Succeed
<1>11. CASE RollbackRow(c)
  BY <1>11 DEF RollbackRow, ProgramOf
<1>12. CASE KeepSession(c)
  BY <1>12 DEF KeepSession, ProgramOf, StepsOf, Rotation
<1>13. CASE DeleteRow(c)
  <2>1. acct[c] \in Accounts /\ kind[c] = "remove" /\ old[c] # None
    BY <1>13 DEF DeleteRow, ProgramOf, OnAccount, StepsOf, Rotation, Refs
  <2>2. row[acct[c]] = NoRecord => \A a \in Accounts : row[a].ref # old[c]
    BY <2>1 DEF OwnerInv, NoRecord
  <2>. QED
    BY <1>13, <2>1, <2>2 DEF DeleteRow
<1>. QED
  BY <1>3, <1>4, <1>5, <1>6, <1>7, <1>8, <1>9, <1>10, <1>11, <1>12, <1>13 DEF Step

LEMMA InitWhole == Init => WholeInv
<1>. SUFFICES ASSUME Init PROVE WholeInv
  OBVIOUS
<1>1. \A c \in Calls : WholeOf(c)
  BY DEF Init, WholeOf, Fresh
<1>2. \A a \in Accounts : row[a].state = "active" => Readable(row[a].ref)
  <2>. SUFFICES ASSUME NEW a \in Accounts, row[a].state = "active"
                PROVE  Readable(row[a].ref)
    OBVIOUS
  <2>1. a \in Stored /\ row[a].ref = a /\ a \in Refs
    BY DEF Init, NoRecord, Refs
  <2>. QED
    BY <2>1 DEF Init, Readable
<1>. QED
  BY <1>1, <1>2 DEF WholeInv, ActiveRowIsReadable

LEMMA BeginWhole ==
  ASSUME TypeOK, TypeOK', ProgramInv, OwnerInv, WholeInv, Begins
  PROVE  WholeInv'
<1>1. PICK c \in Calls : /\ pc[c] = "idle" /\ row' = row /\ entry' = entry /\ faults' = faults
                         /\ pc'[c] \in {"claim", "load", "keep"} /\ OthersKept(c)
  BY DEF Begins, BeginCompletion, BeginRemove, BeginSession, EnterAccount, OthersKept, Goto,
         TypeOK, logins, rows
<1>2. ASSUME faults' = 0, NEW d \in Calls
      PROVE  WholeOf(d)'
  <2>1. CASE d = c
    BY <1>1, <2>1 DEF WholeOf
  <2>2. CASE d # c
    BY <1>1, <1>2, <2>2 DEF WholeInv, WholeOf, OthersKept, Fresh, Readable
  <2>. QED
    BY <2>1, <2>2
<1>3. ActiveRowIsReadable'
  <2>. SUFFICES ASSUME faults' = 0, NEW a \in Accounts, row'[a].state = "active"
                PROVE  Readable(row[a].ref)' \/ BeingRemoved(a)'
    BY DEF ActiveRowIsReadable
  <2>1. Readable(row[a].ref) \/ BeingRemoved(a)
    BY <1>1 DEF WholeInv, ActiveRowIsReadable
  <2>. QED
    BY <1>1, <2>1 DEF Readable, BeingRemoved, OthersKept
<1>. QED
  BY <1>2, <1>3 DEF WholeInv

LEMMA WholeStep ==
  ASSUME TypeOK, TypeOK', ProgramInv, OwnerInv, WholeInv, [Next]_vars
  PROVE  WholeInv'
<1>1. CASE UNCHANGED vars
  BY <1>1 DEF vars, WholeInv, WholeOf, ActiveRowIsReadable, Readable, BeingRemoved, Fresh
<1>2. CASE Elsewhere
  BY <1>2, ElsewhereKeepsCalls
     DEF WholeInv, WholeOf, ActiveRowIsReadable, Readable, BeingRemoved, Fresh
<1>3. CASE Crash
  <2>1. faults' # 0
    BY <1>3 DEF Crash, Fault, TypeOK
  <2>. QED
    BY <2>1 DEF WholeInv, ActiveRowIsReadable
<1>4. ASSUME NEW c \in Calls, Step(c)
      PROVE  WholeInv'
  <2>. SUFFICES ASSUME faults' = 0
                PROVE  (\A d \in Calls : WholeOf(d)') /\ ActiveRowIsReadable'
    BY DEF WholeInv, ActiveRowIsReadable
  <2>1. OthersKept(c) /\ WholeMove(c) /\ faults = 0
    BY <1>4, StepKeepsOthers, CallWholeMove
  <2>2. WholeOf(c)'
    BY <1>4, CallWhole
  <2>. QED
    BY <2>1, <2>2, WholeOthers, RowsStayWhole
<1>. QED
  BY <1>1, <1>2, <1>3, <1>4, BeginWhole, NextSplit

-----------------------------------------------------------------------------
(* No secret is left without an owner *)

\* A call on account a leaves every other account as it was.
TidyMove(c, a) ==
    /\ OnAccount(c) /\ acct[c] = a /\ acct' = acct
    /\ overlapped' = overlapped /\ crashed' = crashed
    /\ \A b \in Accounts \ {a} : row'[b] = row[b]
    /\ \A r \in Refs : r \notin {c, old[c]} => entry'[r] = entry[r]

LEMMA TidyFrame ==
  ASSUME TypeOK, TypeOK', ProgramInv, OwnerInv, TidyInv, NEW c \in Calls, NEW a \in Accounts,
         OthersKept(c), TidyMove(c, a),
         a \notin overlapped /\ faults' <= 1 /\ ~crashed =>
            IF OnAccount(c)' THEN TidyCall(c, a)' ELSE OnlyOwned(a, {})'
  PROVE  TidyInv'
<1>. SUFFICES ASSUME NEW b \in Accounts, b \notin overlapped
              PROVE  TidyOf(b)'
  BY DEF TidyInv, TidyMove
<1>1. TidyOf(b) /\ faults \in Nat /\ faults' \in Nat /\ faults <= faults'
  BY DEF TidyInv, TypeOK, OthersKept
<1>2. \A d \in Calls : OnAccount(d)' => OnAccount(d)
  BY DEF TidyMove, OthersKept, OnAccount
<1>3. \A d \in Calls \ {c} : OnAccount(d)' <=> OnAccount(d)
  BY DEF OthersKept, OnAccount
<1>4. AloneOn(b)'
  BY <1>1, <1>2 DEF TidyOf, AloneOn, TidyMove
<1>5. \A r : RefAccount(r)' = RefAccount(r)
  BY DEF TidyMove, RefAccount
<1>6. RefAccount(c) = a /\ (old[c] # None => RefAccount(old[c]) = a)
  BY DEF OwnerInv, RefAccount, TidyMove
<1>7. None \notin Refs
  BY AccountsAssumption DEF Refs
<1>8. ASSUME faults' <= 1, ~crashed', b # a
      PROVE  /\ (\A d \in Calls : OnAccount(d)' => acct'[d] # b) => OnlyOwned(b, {})'
             /\ \A d \in Calls : OnAccount(d)' /\ acct'[d] = b => TidyCall(d, b)'
  <2>1. row'[b] = row[b] /\ \A r \in Refs : RefAccount(r) = b => entry'[r] = entry[r]
    BY <1>6, <1>7, <1>8 DEF TidyMove
  <2>2. \A refs : OnlyOwned(b, refs)' <=> OnlyOwned(b, refs)
    BY <1>5, <2>1 DEF OnlyOwned, Absent
  <2>3. faults <= 1 /\ ~crashed
    BY <1>1, <1>8 DEF TidyMove
  <2>4. (\A d \in Calls : OnAccount(d)' => acct'[d] # b) => OnlyOwned(b, {})'
    BY <1>1, <1>3, <1>8, <2>2, <2>3 DEF TidyMove, TidyOf
  <2>5. ASSUME NEW d \in Calls, OnAccount(d)', acct'[d] = b
        PROVE  TidyCall(d, b)'
    <3>1. d # c /\ OnAccount(d) /\ acct[d] = b
      BY <1>2, <1>8, <2>5 DEF TidyMove
    <3>2. TidyCall(d, b)
      BY <1>1, <2>3, <3>1 DEF TidyOf
    <3>3. pc'[d] = pc[d] /\ kind'[d] = kind[d] /\ old'[d] = old[d] /\ seen'[d] = seen[d]
      BY <3>1 DEF OthersKept
    <3>4. d \in Refs /\ entry'[d] = entry[d]
      BY <2>1, <3>1 DEF RefAccount, Refs
    <3>5. old[d] \in Refs => entry'[old[d]] = entry[old[d]]
      BY <2>1, <3>1, <1>7 DEF OwnerInv
    <3>6. pc[d] \in {"dropRefresh", "dropMetadata"} \/ kind[d] = "remove" => old[d] \in Refs
      BY DEF ProgramInv, ProgramOf
    <3>. QED
      BY <2>1, <2>2, <3>2, <3>3, <3>4, <3>5, <3>6
         DEF TidyCall, TidyRotation, TidyRemoval, Absent
  <2>. QED
    BY <2>4, <2>5
<1>9. ASSUME faults' <= 1, ~crashed', b = a
      PROVE  /\ (\A d \in Calls : OnAccount(d)' => acct'[d] # b) => OnlyOwned(b, {})'
             /\ \A d \in Calls : OnAccount(d)' /\ acct'[d] = b => TidyCall(d, b)'
  <2>1. IF OnAccount(c)' THEN TidyCall(c, a)' ELSE OnlyOwned(a, {})'
    BY <1>9 DEF TidyMove
  <2>2. \A d \in Calls : OnAccount(d)' /\ acct'[d] = b => d = c
    BY <1>1, <1>2, <1>9 DEF TidyMove, TidyOf, AloneOn
  <2>. QED
    BY <1>9, <2>1, <2>2 DEF TidyMove
<1>. QED
  BY <1>4, <1>8, <1>9 DEF TidyOf

LEMMA CallTidyMove ==
  ASSUME TypeOK, ProgramInv, NEW c \in Calls, Step(c), OnAccount(c)
  PROVE  acct[c] \in Accounts /\ TidyMove(c, acct[c])
<1>1. ProgramOf(c) /\ acct[c] \in Accounts
  BY DEF ProgramInv, ProgramOf
<1>. USE <1>1 DEF TypeOK, TidyMove, OnAccount, rows, Goto, logins, locals
<1>2. CASE LoadRecord(c) \/ ReadExisting(c) \/ SelectForSession(c) \/ Renew(c) \/ KeepSession(c)
  BY <1>2 DEF LoadRecord, ReadExisting, SelectForSession, Renew, KeepSession
<1>3. CASE LoadSession(c)
  BY <1>3 DEF LoadSession, MarkRelogin
<1>4. CASE Put(c)
  BY <1>4 DEF Put, Written, Target
<1>5. CASE Wipe(c)
  BY <1>5 DEF Wipe, Deleted, Target
<1>6. CASE Upsert(c)
  BY <1>6 DEF Upsert
<1>7. CASE DropOld(c)
  BY <1>7 DEF DropOld, Deleted
<1>8. CASE RollbackRow(c)
  BY <1>8 DEF RollbackRow
<1>9. CASE DeleteRow(c)
  BY <1>9 DEF DeleteRow
<1>. QED
  BY <1>2, <1>3, <1>4, <1>5, <1>6, <1>7, <1>8, <1>9
     DEF Step, ClaimLogin, SendPoll, ReceivePoll, Exchange, Release

LEMMA RotationTidy ==
  ASSUME TypeOK, ProgramInv, OwnerInv, NEW c \in Calls, Step(c), OnAccount(c),
         kind[c] # "remove", TidyRotation(c, acct[c]), faults' <= 1
  PROVE  IF OnAccount(c)' THEN TidyCall(c, acct[c])' ELSE OnlyOwned(acct[c], {})'
<1>. DEFINE a == acct[c]
            After == IF OnAccount(c)' THEN TidyRotation(c, a)' ELSE OnlyOwned(a, {})'
<1>1. /\ ProgramOf(c) /\ a \in Accounts /\ acct' = acct /\ c \in Refs /\ None \notin Refs
      /\ \A r : RefAccount(r)' = RefAccount(r)
  BY CallTidyMove, AccountsAssumption DEF ProgramInv, TidyMove, Refs, RefAccount
<1>2. kind'[c] # "remove"
  BY DEF Step, ClaimLogin, SendPoll, ReceivePoll, Exchange, Release, LoadRecord,
     LoadSession, SelectForSession, Renew, ReadExisting, Put, Wipe, Upsert, DropOld,
     RollbackRow, KeepSession, DeleteRow, locals, Succeed, TypeOK
<1>3. SUFFICES After
  BY <1>1, <1>2 DEF TidyCall
<1>4. faults > 0 => ~Fault
  BY DEF Fault, TypeOK
<1>. USE <1>1 DEF TypeOK, OnAccount, rows, Goto, logins, locals, TidyRotation
<1>5. CASE LoadRecord(c) \/ SelectForSession(c) \/ Renew(c)
  BY <1>5 DEF LoadRecord, SelectForSession, Renew, OnlyOwned, Absent
<1>6. CASE ReadExisting(c)
  BY <1>6 DEF ReadExisting, OnlyOwned, Absent
<1>7. CASE LoadSession(c)
  <2>1. row'[a].ref = row[a].ref
    BY <1>7, LoadSessionKeepsRefs
  <2>. QED
    BY <1>7, <2>1 DEF LoadSession, OnlyOwned, Absent
<1>8. CASE Put(c)
  <2>1. OnlyOwned(a, {c})' /\ seen'[c] = row'[a]
    BY <1>8 DEF Put, Written, Target, OnlyOwned, Absent
  <2>2. pc'[c] \in {"putMetadata", "upsert", "wipeRefresh"}
    BY <1>8 DEF Put
  <2>. QED
    BY <2>1, <2>2
<1>9. CASE Wipe(c)
  <2>1. faults > 0
    BY <1>9 DEF Wipe, ProgramOf
  <2>2. CASE pc[c] = "wipeRefresh"
    <3>1. OnlyOwned(a, {c})' /\ pc'[c] = "wipeMetadata" /\ "refresh" \notin entry'[c]
      BY <1>4, <1>9, <2>1, <2>2 DEF Wipe, Deleted, Target, OnlyOwned, Absent
    <3>. QED
      BY <3>1
  <2>3. CASE pc[c] = "wipeMetadata"
    <3>1. entry'[c] = {} /\ \A r \in Refs \ {c} : entry'[r] = entry[r]
      BY <1>4, <1>9, <2>1, <2>3 DEF Wipe, Deleted, Target, Fields
    <3>2. row' = row /\ pc'[c] \in {"release", "done"}
      BY <1>4, <1>9, <2>1, <2>3 DEF Wipe, Finish
    <3>3. OnlyOwned(a, {})'
      BY <2>3, <3>1, <3>2 DEF OnlyOwned, Absent
    <3>. QED
      BY <3>2, <3>3
  <2>. QED
    BY <1>9, <2>2, <2>3 DEF Wipe
<1>10. CASE Upsert(c)
  <2>1. pc[c] = "upsert" /\ entry' = entry
    BY <1>10 DEF Upsert
  <2>2. CASE UNCHANGED row /\ pc'[c] = "wipeRefresh"
    BY <2>1, <2>2 DEF OnlyOwned, Absent
  <2>3. CASE /\ row' = [row EXCEPT ![a] = [ref |-> c, state |-> "active"]]
             /\ old'[c] = row[a].ref /\ seen'[c] = seen[c]
             /\ IF row[a] = NoRecord THEN pc'[c] \in {"release", "load", "done"}
                                     ELSE pc'[c] = "dropRefresh"
    <3>1. row'[a].ref = c /\ OnlyOwned(a, {old[c]})'
      BY <2>1, <2>3 DEF OnlyOwned, Absent
    <3>2. CASE row[a] = NoRecord /\ pc'[c] \in {"release", "load", "done"}
      <4>1. OnlyOwned(a, {})'
        BY <2>3, <3>1, <3>2 DEF OnlyOwned, NoRecord
      <4>. QED
        BY <3>2, <4>1
    <3>3. CASE row[a] # NoRecord /\ pc'[c] = "dropRefresh"
      BY <2>1, <2>3, <3>1, <3>3
    <3>. QED
      BY <2>3, <3>2, <3>3
  <2>. QED
    BY <1>10, <2>2, <2>3 DEF Upsert, Succeed
<1>11. CASE DropOld(c)
  <2>1. row' = row /\ seen' = seen /\ old' = old
    BY <1>11 DEF DropOld
  <2>2. CASE entry' = entry /\ pc'[c] = "rollback"
    BY <1>11, <2>1, <2>2 DEF DropOld, OnlyOwned, Absent
  <2>3. CASE pc[c] = "dropRefresh" /\ Deleted(old[c], "refresh") /\ pc'[c] = "dropMetadata"
    <3>1. OnlyOwned(a, {old[c]})' /\ "refresh" \notin entry'[old[c]]
      BY <2>1, <2>3 DEF Deleted, OnlyOwned, Absent, ProgramOf
    <3>. QED
      BY <2>1, <2>3, <3>1
  <2>4. CASE /\ pc[c] = "dropMetadata" /\ Deleted(old[c], "metadata")
             /\ pc'[c] \in {"release", "load", "done"}
    <3>1. entry'[old[c]] = {} /\ \A r \in Refs \ {old[c]} : entry'[r] = entry[r]
      BY <2>4 DEF Deleted, Fields, ProgramOf
    <3>2. OnlyOwned(a, {})'
      BY <2>1, <2>4, <3>1 DEF OnlyOwned, Absent
    <3>. QED
      BY <2>4, <3>2
  <2>. QED
    BY <1>11, <2>2, <2>3, <2>4 DEF DropOld, Succeed
<1>12. CASE RollbackRow(c)
  <2>1. /\ pc[c] = "rollback" /\ row' = [row EXCEPT ![a] = seen[c]] /\ entry' = entry
        /\ pc'[c] = "wipeRefresh"
    BY <1>4, <1>12 DEF RollbackRow, ProgramOf
  <2>2. OnlyOwned(a, {c})'
    BY <2>1 DEF OnlyOwned, Absent
  <2>. QED
    BY <2>1, <2>2
<1>13. CASE KeepSession(c) \/ DeleteRow(c)
  BY <1>13 DEF KeepSession, DeleteRow, ProgramOf, StepsOf, Rotation
<1>. QED
  BY <1>5, <1>6, <1>7, <1>8, <1>9, <1>10, <1>11, <1>12, <1>13
     DEF Step, ClaimLogin, SendPoll, ReceivePoll, Exchange, Release

LEMMA RemovalTidy ==
  ASSUME TypeOK, ProgramInv, OwnerInv, NEW c \in Calls, Step(c), OnAccount(c),
         kind[c] = "remove", TidyRemoval(c, acct[c]), faults' <= 1
  PROVE  IF OnAccount(c)' THEN TidyCall(c, acct[c])' ELSE OnlyOwned(acct[c], {})'
<1>. DEFINE a == acct[c]
            After == IF OnAccount(c)' THEN TidyRemoval(c, a)' ELSE OnlyOwned(a, {})'
<1>1. /\ ProgramOf(c) /\ a \in Accounts /\ acct' = acct /\ old[c] \in Refs /\ None \notin Refs
      /\ \A r : RefAccount(r)' = RefAccount(r)
  BY CallTidyMove, AccountsAssumption DEF ProgramInv, ProgramOf, TidyMove, Refs, RefAccount
<1>2. pc[c] \in {"keep", "dropRefresh", "dropMetadata", "deleteRow", "putRefresh", "putMetadata",
                 "wipeRefresh", "wipeMetadata"}
  BY <1>1 DEF ProgramOf, StepsOf, OnAccount
<1>3. kind'[c] = "remove" /\ old' = old
  BY <1>2 DEF Step, ClaimLogin, SendPoll, ReceivePoll, Exchange, Release, LoadRecord,
     LoadSession, SelectForSession, Renew, ReadExisting, Put, Wipe, Upsert, DropOld,
     RollbackRow, KeepSession, DeleteRow, locals
<1>4. SUFFICES After
  BY <1>1, <1>3 DEF TidyCall
<1>. USE <1>1, <1>3 DEF TypeOK, OnAccount, rows, Goto, locals, TidyRemoval
<1>5. CASE KeepSession(c)
  BY <1>5 DEF KeepSession, OnlyOwned, Absent
<1>6. CASE Put(c)
  <2>1. row' = row /\ \A r \in Refs \ {old[c]} : entry'[r] = entry[r]
    BY <1>6 DEF Put, Written, Target
  <2>2. OnlyOwned(a, {})'
    BY <2>1 DEF OnlyOwned, Absent
  <2>3. pc'[c] \in {"putMetadata", "done", "wipeRefresh"}
    BY <1>6 DEF Put
  <2>. QED
    BY <2>1, <2>2, <2>3
<1>7. CASE Wipe(c)
  <2>1. row' = row /\ \A r \in Refs \ {old[c]} : entry'[r] = entry[r]
    BY <1>7 DEF Wipe, Deleted, Target
  <2>2. OnlyOwned(a, {})'
    BY <2>1 DEF OnlyOwned, Absent
  <2>3. pc'[c] \in {"wipeMetadata", "done"}
    BY <1>7 DEF Wipe, Finish
  <2>. QED
    BY <2>1, <2>2, <2>3
<1>8. CASE DropOld(c)
  <2>1. row' = row /\ \A r \in Refs \ {old[c]} : entry'[r] = entry[r]
    BY <1>8 DEF DropOld, Deleted
  <2>2. OnlyOwned(a, {})'
    BY <2>1 DEF OnlyOwned, Absent
  <2>3. \/ pc'[c] = "done"
        \/ pc'[c] = "dropMetadata" /\ Deleted(old[c], "refresh")
        \/ pc'[c] = "deleteRow" /\ pc[c] = "dropMetadata" /\ Deleted(old[c], "metadata")
    BY <1>8 DEF DropOld
  <2>4. pc'[c] = "dropMetadata" => "refresh" \notin entry'[old[c]]
    BY <2>3 DEF Deleted
  <2>5. pc'[c] = "deleteRow" => entry'[old[c]] = {}
    BY <2>3 DEF Deleted, Fields
  <2>. QED
    BY <2>1, <2>2, <2>3, <2>4, <2>5 DEF Absent
<1>9. CASE DeleteRow(c)
  <2>1. row[a] # NoRecord /\ pc[c] = "deleteRow" /\ entry' = entry
    BY <1>9 DEF DeleteRow, NoRecord
  <2>2. CASE row' = [row EXCEPT ![a] = NoRecord] /\ pc'[c] = "done"
    BY <2>1, <2>2 DEF OnlyOwned, Absent
  <2>3. CASE row' = row /\ pc'[c] \in {"putRefresh", "done"}
    BY <2>1, <2>3 DEF OnlyOwned, Absent
  <2>. QED
    BY <1>9, <2>1, <2>2, <2>3 DEF DeleteRow
<1>. QED
  BY <1>2, <1>5, <1>6, <1>7, <1>8, <1>9
     DEF Step, ClaimLogin, SendPoll, ReceivePoll, Exchange, Release, LoadRecord,
     LoadSession, SelectForSession, Renew, ReadExisting, Upsert, RollbackRow

LEMMA InitTidy == Init => TidyInv
<1>. SUFFICES ASSUME Init, NEW a \in Accounts PROVE TidyOf(a)
  BY DEF TidyInv
<1>1. \A c \in Calls : ~OnAccount(c) /\ c \notin Stored /\ c \in Refs /\ entry[c] = {}
  BY AccountsAssumption DEF Init, OnAccount, Refs
<1>2. OnlyOwned(a, {})
  <2>. SUFFICES ASSUME NEW r \in Refs, RefAccount(r) = a, ~Absent(r)
                PROVE  r = row[a].ref
    BY DEF OnlyOwned
  <2>1. r \in Stored /\ r = a
    BY <1>1 DEF Init, Absent, RefAccount
  <2>. QED
    BY <2>1 DEF Init
<1>. QED
  BY <1>1, <1>2 DEF TidyOf, AloneOn

\* A call begins to work on account a.
TidyEnters(c, a) ==
    /\ ~OnAccount(c) /\ acct[c] = None /\ EnterAccount(c, a)
    /\ row' = row /\ entry' = entry /\ faults' = faults /\ crashed' = crashed
    /\ \/ kind'[c] # "remove" /\ pc'[c] \in {"load", "existing"}
       \/ kind'[c] = "remove" /\ pc'[c] = "keep" /\ old'[c] = row[a].ref

LEMMA TidyEnter ==
  ASSUME TypeOK, TypeOK', ProgramInv, OwnerInv, TidyInv, NEW c \in Calls, NEW a \in Accounts,
         OthersKept(c), TidyEnters(c, a)
  PROVE  TidyInv'
<1>. SUFFICES ASSUME NEW b \in Accounts, b \notin overlapped'
              PROVE  TidyOf(b)'
  BY DEF TidyInv
<1>1. /\ b \notin overlapped /\ (b = a => \A d \in Calls \ {c} : OnAccount(d) => acct[d] # a)
      /\ acct' = [acct EXCEPT ![c] = a]
  BY DEF TidyEnters, EnterAccount
<1>2. TidyOf(b)
  BY <1>1 DEF TidyInv
<1>3. \A d \in Calls \ {c} : acct'[d] = acct[d] /\ (OnAccount(d)' <=> OnAccount(d))
  BY DEF OthersKept, OnAccount
<1>4. OnAccount(c)' /\ acct'[c] = a
  BY <1>1 DEF TidyEnters, OnAccount, TypeOK
<1>5. c \in Refs /\ entry[c] = {} /\ None \notin Accounts /\ None \notin Refs
  BY AccountsAssumption DEF OwnerInv, TidyEnters, Refs
<1>6. \A r \in Refs \ {c} : RefAccount(r)' = RefAccount(r)
  BY <1>3 DEF RefAccount
<1>7. \A refs : OnlyOwned(b, refs) => OnlyOwned(b, refs)'
  BY <1>5, <1>6 DEF OnlyOwned, Absent, TidyEnters
<1>8. AloneOn(b)'
  BY <1>1, <1>2, <1>3, <1>4 DEF TidyOf, AloneOn, TidyEnters
<1>9. ASSUME faults' <= 1, ~crashed'
      PROVE  /\ (\A d \in Calls : OnAccount(d)' => acct'[d] # b) => OnlyOwned(b, {})'
             /\ \A d \in Calls : OnAccount(d)' /\ acct'[d] = b => TidyCall(d, b)'
  <2>1. faults <= 1 /\ ~crashed
    BY <1>9 DEF TidyEnters
  <2>2. (\A d \in Calls \ {c} : OnAccount(d) => acct[d] # b) => OnlyOwned(b, {})'
    BY <1>2, <1>7, <2>1 DEF TidyOf, TidyEnters
  <2>3. ASSUME NEW d \in Calls, d # c, OnAccount(d), acct[d] = b
        PROVE  TidyCall(d, b)'
    <3>1. TidyCall(d, b) /\ d \in Refs
      BY <1>2, <2>1, <2>3 DEF TidyOf, Refs
    <3>2. pc'[d] = pc[d] /\ kind'[d] = kind[d] /\ old'[d] = old[d] /\ seen'[d] = seen[d]
      BY <2>3 DEF OthersKept
    <3>. QED
      BY <1>7, <3>1, <3>2 DEF TidyCall, TidyRotation, TidyRemoval, Absent, TidyEnters
  <2>4. b = a => TidyCall(c, b)'
    BY <1>1, <2>2 DEF TidyCall, TidyRotation, TidyRemoval, TidyEnters
  <2>. QED
    BY <1>3, <1>4, <2>2, <2>3, <2>4
<1>. QED
  BY <1>8, <1>9 DEF TidyOf

\* Nothing happens to the accounts.
LEMMA TidyQuiet ==
  ASSUME TidyInv, row' = row, entry' = entry, acct' = acct, seen' = seen, old' = old,
         overlapped' = overlapped, crashed' = crashed, faults' = faults,
         \A c \in Calls : OnAccount(c)' <=> OnAccount(c),
         \A c \in Calls : OnAccount(c) => pc'[c] = pc[c] /\ kind'[c] = kind[c]
  PROVE  TidyInv'
<1>. SUFFICES ASSUME NEW a \in Accounts, a \notin overlapped
              PROVE  TidyOf(a)'
  BY DEF TidyInv
<1>1. TidyOf(a)
  BY DEF TidyInv
<1>2. \A refs : OnlyOwned(a, refs)' <=> OnlyOwned(a, refs)
  BY DEF OnlyOwned, Absent, RefAccount
<1>3. AloneOn(a)'
  BY <1>1 DEF TidyOf, AloneOn
<1>4. \A c \in Calls : OnAccount(c) /\ TidyCall(c, a) => TidyCall(c, a)'
  BY <1>2 DEF TidyCall, TidyRotation, TidyRemoval, Absent
<1>. QED
  BY <1>1, <1>2, <1>3, <1>4 DEF TidyOf

LEMMA CallTidy ==
  ASSUME TypeOK, TypeOK', ProgramInv, OwnerInv, TidyInv, NEW c \in Calls, Step(c)
  PROVE  TidyInv'
<1>1. OthersKept(c) /\ ProgramOf(c)
  BY StepKeepsOthers DEF ProgramInv
<1>2. CASE OnAccount(c)
  <2>. DEFINE a == acct[c]
  <2>1. a \in Accounts /\ TidyMove(c, a) /\ acct'[c] = a
    BY <1>2, CallTidyMove DEF TidyMove
  <2>2. ASSUME a \notin overlapped, faults' <= 1, ~crashed
        PROVE  IF OnAccount(c)' THEN TidyCall(c, acct[c])' ELSE OnlyOwned(acct[c], {})'
    <3>1. faults <= 1
      BY <1>1, <2>2 DEF OthersKept, TypeOK
    <3>2. TidyCall(c, a)
      BY <1>2, <2>1, <2>2, <3>1 DEF TidyInv, TidyOf
    <3>. QED
      BY <1>2, <2>2, <3>2, RotationTidy, RemovalTidy DEF TidyCall
  <2>3. \A b : b = a => (TidyCall(c, acct[c])' <=> TidyCall(c, b)')
                     /\ (OnlyOwned(acct[c], {})' <=> OnlyOwned(b, {})')
    BY <2>1 DEF TidyCall, TidyRotation, TidyRemoval, OnlyOwned
  <2>4. a \notin overlapped /\ faults' <= 1 /\ ~crashed =>
            \A b : b = a => IF OnAccount(c)' THEN TidyCall(c, b)' ELSE OnlyOwned(b, {})'
    BY <2>2, <2>3
  <2>. HIDE DEF a
  <2>. QED
    BY <1>1, <2>1, <2>4, TidyFrame
<1>3. CASE ~OnAccount(c)
  <2>. USE DEF TypeOK, Goto, rows, logins, locals, OnAccount
  <2>1. CASE ClaimLogin(c) \/ SendPoll(c) \/ ReceivePoll(c) \/ Release(c)
    BY <2>1, TidyQuiet DEF ClaimLogin, SendPoll, ReceivePoll, Release
  <2>2. CASE Exchange(c)
    <3>1. pc[c] = "exchange" /\ kind[c] = "login" /\ acct[c] = None
      BY <1>1, <2>2 DEF Exchange, ProgramOf, StepsOf, Rotation, Unnamed
    <3>2. CASE Goto(c, "release") /\ UNCHANGED <<acct, overlapped>>
      BY <2>2, <3>1, <3>2, TidyQuiet DEF Exchange
    <3>3. ASSUME NEW a \in Accounts, Goto(c, "existing") /\ EnterAccount(c, a)
          PROVE  TidyInv'
      <4>1. TidyEnters(c, a)
        BY <2>2, <3>1, <3>3 DEF Exchange, TidyEnters
      <4>. QED
        BY <1>1, <4>1, TidyEnter
    <3>. QED
      BY <2>2, <3>2, <3>3 DEF Exchange
  <2>. QED
    BY <1>3, <2>1, <2>2 DEF Step, LoadRecord, LoadSession, SelectForSession, Renew, ReadExisting,
       Put, Wipe, Upsert, DropOld, RollbackRow, KeepSession, DeleteRow
<1>. QED
  BY <1>2, <1>3

LEMMA BeginTidy ==
  ASSUME TypeOK, TypeOK', ProgramInv, OwnerInv, TidyInv, Begins
  PROVE  TidyInv'
<1>. USE DEF TypeOK, Goto, rows, logins, OnAccount, OthersKept
<1>0. \A c \in Calls : pc[c] = "idle" => acct[c] = None /\ kind[c] = "none"
  BY DEF ProgramInv, ProgramOf, Unnamed, StepsOf, Rotation
<1>1. ASSUME NEW c \in Calls, NEW l \in Logins, BeginCompletion(c, l)
      PROVE  TidyInv'
  <2>1. \A d \in Calls : OnAccount(d) <=> OnAccount(d)'
    BY <1>1 DEF BeginCompletion
  <2>2. \A d \in Calls : OnAccount(d) => pc'[d] = pc[d] /\ kind'[d] = kind[d]
    BY <1>1 DEF BeginCompletion
  <2>. QED
    BY <1>1, <2>1, <2>2, TidyQuiet DEF BeginCompletion
<1>2. ASSUME NEW c \in Calls, NEW a \in Accounts, BeginRemove(c, a)
      PROVE  TidyInv'
  <2>1. OthersKept(c)
    BY <1>2 DEF BeginRemove, EnterAccount
  <2>2. TidyEnters(c, a)
    BY <1>0, <1>2 DEF BeginRemove, TidyEnters
  <2>. QED
    BY <2>1, <2>2, TidyEnter
<1>3. ASSUME NEW c \in Calls, NEW a \in Accounts, NEW k \in {"refresh", "session"},
             BeginSession(c, a, k)
      PROVE  TidyInv'
  <2>1. OthersKept(c)
    BY <1>3 DEF BeginSession, EnterAccount
  <2>2. TidyEnters(c, a)
    BY <1>0, <1>3 DEF BeginSession, TidyEnters
  <2>. QED
    BY <2>1, <2>2, TidyEnter
<1>. QED
  BY <1>1, <1>2, <1>3 DEF Begins

LEMMA TidyStep ==
  ASSUME TypeOK, TypeOK', ProgramInv, OwnerInv, TidyInv, [Next]_vars
  PROVE  TidyInv'
<1>1. CASE UNCHANGED vars
  BY <1>1, TidyQuiet DEF vars, OnAccount
<1>2. CASE Elsewhere
  BY <1>2, ElsewhereKeepsCalls, TidyQuiet DEF OnAccount
<1>3. CASE Crash
  <2>1. crashed' /\ overlapped' = overlapped /\ \A c \in Calls : ~OnAccount(c)'
    BY <1>3 DEF Crash, OnAccount, TypeOK
  <2>. QED
    BY <2>1 DEF TidyInv, TidyOf, AloneOn
<1>. QED
  BY <1>1, <1>2, <1>3, CallTidy, BeginTidy, NextSplit

THEOREM AccountsInvariant == Spec => []AccountsInv
<1>1. Init => AccountsInv
  BY InitTypeOK, InitProgram, InitOwner, InitWhole, InitTidy DEF AccountsInv
<1>2. TypeOK /\ ProgramInv /\ (TypeOK /\ ProgramInv)' /\ OwnerInv /\ WholeInv /\ TidyInv
        /\ [Next]_vars => (OwnerInv /\ WholeInv /\ TidyInv)'
  BY OwnerStep, WholeStep, TidyStep
<1>. QED
  BY <1>1, <1>2, TypesAndProgram, PTL DEF Spec, AccountsInv

LEMMA TidyTells ==
  ASSUME TypeOK, OwnerInv, TidyInv
  PROVE  NoForgottenSecret
<1>. SUFFICES ASSUME faults <= 1, ~crashed, NEW r \in Refs, ~Absent(r),
                     RefAccount(r) \notin overlapped,
                     \A c \in Calls : OnAccount(c) => acct[c] # RefAccount(r)
              PROVE  row[RefAccount(r)].ref = r
  BY DEF NoForgottenSecret
<1>1. RefAccount(r) \in Accounts
  BY DEF Refs, RefAccount, OwnerInv, Absent
<1>2. OnlyOwned(RefAccount(r), {})
  BY <1>1 DEF TidyInv, TidyOf
<1>. QED
  BY <1>2 DEF OnlyOwned

\* Whatever logins, refreshes and removals overlap: while nothing fails, an account
\* shown as signed in has its credential in the vault, and a failure by itself
\* leaves no credential behind that no row names.
THEOREM VaultAndRowsAgree == Spec => []CredentialsMatchRows
<1>1. AccountsInv => CredentialsMatchRows
  BY TidyTells DEF AccountsInv, WholeInv, CredentialsMatchRows
<1>. QED
  BY <1>1, AccountsInvariant, PTL
=============================================================================
