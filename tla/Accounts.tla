------------------------------ MODULE Accounts ------------------------------
(***************************************************************************)
(* Microsoft accounts: the table of pending device logins, the account     *)
(* rows in SQLite, and the operating system's credential vault, a store of *)
(* its own that no transaction spans.                                      *)
(*                                                                         *)
(* Logins, refreshes and sessions are asynchronous commands that overlap   *)
(* freely; removing, selecting, assigning and cancelling are synchronous   *)
(* commands, which the window's thread runs one after the other.  A        *)
(* credential is written and deleted field by field; of its three fields   *)
(* the two that decide whether it can be read are kept.                    *)
(***************************************************************************)
EXTENDS Integers, FiniteSets

CONSTANTS
    Accounts,    \* Minecraft profile identifiers
    Stored,      \* the accounts an earlier run of the launcher has stored
    Logins,      \* identifiers of device logins
    Profiles,    \* profiles an account can be assigned to
    Calls,       \* invocations of the commands that take several steps
    None,
    MaxPending,  \* MAX_PENDING_DEVICE_LOGINS
    MaxPolls,    \* token requests that fit before a login's deadline
    MaxFaults    \* bound: failing statements and crashes in one behaviour

ASSUME AccountsAssumption ==
    /\ Stored \subseteq Accounts
    /\ Accounts \cap Calls = {}
    /\ None \notin Accounts \cup Calls \cup Logins \cup Profiles
    /\ MaxPending \in Nat \ {0} /\ MaxPolls \in Nat \ {0} /\ MaxFaults \in Nat

VARIABLES
    row,        \* table accounts: vault reference and session state
    selected,   \* launcher_account_selection
    assigned,   \* profile_account_assignments
    entry,      \* the fields a vault reference has in the credential store
    started,    \* logins Microsoft has issued a code for
    pending,    \* AuthService.pending
    expired,    \* logins whose code is older than its lifetime
    cancelled,  \* PendingLogin.cancelled
    claimed,    \* PendingLogin.in_progress
    pc,         \* next statement of each call
    kind,       \* the command a call runs
    login,      \* the login a completion is about
    acct,       \* the account a call is about
    seen,       \* the account record a call has read
    old,        \* the vault reference a call deletes
    kept,       \* remove_account read a session it can put back
    polls,      \* token requests a call has sent
    overlapped, \* history: accounts two commands have worked on at once
    crashed, faults

rows     == <<row, selected, assigned>>
logins   == <<started, pending, expired, cancelled, claimed>>
locals   == <<kind, login, acct, seen, old, kept, polls>>
vars     == <<row, selected, assigned, entry, started, pending, expired,
              cancelled, claimed, pc, kind, login, acct, seen, old, kept, polls,
              overlapped, crashed, faults>>

\* A vault reference is a fresh identifier: the call that made it, or the
\* account for one an earlier run made.
Refs   == Calls \cup Accounts
Fields == {"refresh", "metadata"}

AccountRecord == [ref : Refs, state : {"active", "relogin-required"}]
NoRecord      == [ref |-> None, state |-> "none"]

\* CredentialVault::get returns a session, or nothing; else it is an error.
Readable(r) == entry[r] = Fields
Absent(r)   == entry[r] = {}

Init ==
    /\ row = [a \in Accounts |-> IF a \in Stored THEN [ref |-> a, state |-> "active"]
                                                 ELSE NoRecord]
    /\ selected \in Stored \cup {None}
    /\ assigned = [p \in Profiles |-> None]
    /\ entry = [r \in Refs |-> IF r \in Stored THEN Fields ELSE {}]
    /\ started = {} /\ pending = {} /\ expired = {} /\ cancelled = {} /\ claimed = {}
    /\ pc = [c \in Calls |-> "idle"]
    /\ kind = [c \in Calls |-> "none"]
    /\ login = [c \in Calls |-> None]
    /\ acct = [c \in Calls |-> None]
    /\ seen = [c \in Calls |-> NoRecord]
    /\ old = [c \in Calls |-> None]
    /\ kept = [c \in Calls |-> FALSE]
    /\ polls = [c \in Calls |-> 0]
    /\ overlapped = {} /\ crashed = FALSE /\ faults = 0

Goto(c, step) == pc' = [pc EXCEPT ![c] = step]

Fault == faults < MaxFaults /\ faults' = faults + 1

\* A completion returns through remove_pending, every other command directly.
Finish(c) == Goto(c, IF kind[c] = "login" THEN "release" ELSE "done")

\* From here on a call reads or writes the rows and credentials of its account.
OnAccount(c) ==
    pc[c] \notin {"idle", "claim", "poll", "answer", "exchange", "release", "done"}

EnterAccount(c, a) ==
    /\ acct' = [acct EXCEPT ![c] = a]
    /\ overlapped' = overlapped \cup
           {b \in {a} : \E d \in Calls \ {c} : OnAccount(d) /\ acct[d] = b}

MainThreadFree == \A c \in Calls : kind[c] = "remove" => pc[c] \in {"idle", "done"}

-----------------------------------------------------------------------------
(* Device logins *)

\* start_device_login, after Microsoft has issued the code.  An expired login
\* is dropped without being told; a full table refuses the new one.
StartDeviceLogin(l) ==
    /\ l \notin started
    /\ started' = started \cup {l}
    /\ LET left == pending \ expired IN
         pending' = IF Cardinality(left) >= MaxPending THEN left ELSE left \cup {l}
    /\ UNCHANGED <<rows, entry, expired, cancelled, claimed, pc, locals,
                   overlapped, crashed, faults>>

CodeExpires(l) ==
    /\ l \in started \ expired
    /\ expired' = expired \cup {l}
    /\ UNCHANGED <<rows, entry, started, pending, cancelled, claimed, pc, locals,
                   overlapped, crashed, faults>>

CancelDeviceLogin(l) ==
    /\ MainThreadFree
    /\ l \in pending
    /\ pending' = pending \ {l}
    /\ cancelled' = cancelled \cup {l}
    /\ UNCHANGED <<rows, entry, started, expired, claimed, pc, locals,
                   overlapped, crashed, faults>>

RemovePending(l) ==
    /\ pending' = pending \ {l}
    /\ cancelled' = cancelled \cup (pending \cap {l})

\* complete_device_login clones the pending entry and leaves the mutex ...
BeginCompletion(c, l) ==
    /\ pc[c] = "idle"
    /\ l \in pending
    /\ Goto(c, "claim")
    /\ kind' = [kind EXCEPT ![c] = "login"]
    /\ login' = [login EXCEPT ![c] = l]
    /\ UNCHANGED <<rows, entry, logins, acct, seen, old, kept, polls,
                   overlapped, crashed, faults>>

\* ... then judges the copy: an expired login is removed, one that another
\* call completes is refused.
ClaimLogin(c) ==
    /\ pc[c] = "claim"
    /\ LET l == login[c] IN
         \/ /\ l \in expired
            /\ RemovePending(l)
            /\ Goto(c, "done")
            /\ UNCHANGED claimed
         \/ /\ l \notin expired
            /\ Goto(c, IF l \in claimed THEN "done" ELSE "poll")
            /\ claimed' = claimed \cup {l}
            /\ UNCHANGED <<pending, cancelled>>
    /\ UNCHANGED <<rows, entry, started, expired, locals, overlapped, crashed, faults>>

\* Mutant: the flag is only looked at when the command begins.
SendPollUnchecked(c) ==
    /\ pc[c] = "poll"
    /\ Goto(c, IF polls[c] = MaxPolls THEN "release" ELSE "answer")
    /\ polls' = [polls EXCEPT ![c] = IF @ = MaxPolls THEN @ ELSE @ + 1]
    /\ UNCHANGED <<rows, entry, logins, kind, login, acct, seen, old, kept,
                   overlapped, crashed, faults>>

\* Mutant: the loop has no deadline of its own.
SendPollForever(c) ==
    /\ pc[c] = "poll"
    /\ Goto(c, IF login[c] \in cancelled THEN "release" ELSE "answer")
    /\ UNCHANGED <<rows, entry, logins, locals, overlapped, crashed, faults>>

\* poll_token: one turn of the loop sleeps, looks at the flag and asks.
SendPoll(c) ==
    /\ pc[c] = "poll"
    /\ \/ /\ login[c] \in cancelled \/ polls[c] = MaxPolls
          /\ Goto(c, "release")
          /\ UNCHANGED polls
       \/ /\ login[c] \notin cancelled /\ polls[c] < MaxPolls
          /\ Goto(c, "answer")
          /\ polls' = [polls EXCEPT ![c] = @ + 1]
    /\ UNCHANGED <<rows, entry, logins, kind, login, acct, seen, old, kept,
                   overlapped, crashed, faults>>

\* The answer: not yet, the token, or a refusal.
ReceivePoll(c) ==
    /\ pc[c] = "answer"
    /\ \E step \in {"poll", "exchange", "release"} : Goto(c, step)
    /\ UNCHANGED <<rows, entry, logins, locals, overlapped, crashed, faults>>

\* exchange_for_minecraft: five requests in a row, any of which may fail; the
\* last one says whose account it is.  The flag is not looked at any more.
Exchange(c) ==
    /\ pc[c] = "exchange"
    /\ \/ /\ Goto(c, "release")
          /\ UNCHANGED <<acct, overlapped>>
       \/ \E a \in Accounts : Goto(c, "existing") /\ EnterAccount(c, a)
    /\ UNCHANGED <<rows, entry, logins, kind, login, seen, old, kept, polls,
                   crashed, faults>>

Release(c) ==
    /\ pc[c] = "release"
    /\ RemovePending(login[c])
    /\ Goto(c, "done")
    /\ UNCHANGED <<rows, entry, started, expired, claimed, locals, overlapped,
                   crashed, faults>>
-----------------------------------------------------------------------------
(* refresh_account and ensure_minecraft_session *)

BeginSession(c, a, command) ==
    /\ pc[c] = "idle"
    /\ Goto(c, "load")
    /\ kind' = [kind EXCEPT ![c] = command]
    /\ EnterAccount(c, a)
    /\ UNCHANGED <<rows, entry, logins, login, seen, old, kept, polls, crashed, faults>>

\* load_session: first the record ...
LoadRecord(c) ==
    /\ pc[c] = "load"
    /\ seen' = [seen EXCEPT ![c] = row[acct[c]]]
    /\ Goto(c, IF row[acct[c]].state = "active" THEN "get" ELSE "done")
    /\ UNCHANGED <<rows, entry, logins, kind, login, acct, old, kept, polls,
                   overlapped, crashed, faults>>

\* ... then its credential.  One that is missing or cannot be read marks the
\* account, whatever record it has by now.
MarkRelogin(a) ==
    row' = IF row[a] = NoRecord THEN row
                                ELSE [row EXCEPT ![a].state = "relogin-required"]

LoadSession(c) ==
    /\ pc[c] = "get"
    /\ \/ /\ Readable(seen[c].ref)
          /\ \/ kind[c] \in {"refresh", "session"} /\ Goto(c, "renew")
             \/ kind[c] = "session" /\ Goto(c, "select")
             \/ kind[c] = "reload" /\ Goto(c, "done")
          /\ UNCHANGED <<row, faults>>
       \/ /\ ~Readable(seen[c].ref)
          /\ MarkRelogin(acct[c])
          /\ Goto(c, "done")
          /\ UNCHANGED faults
       \/ /\ Fault
          /\ \/ MarkRelogin(acct[c])
             \/ ~Readable(seen[c].ref) /\ UNCHANGED row
          /\ Goto(c, "done")
    /\ UNCHANGED <<selected, assigned, entry, logins, locals, overlapped, crashed>>

\* The Minecraft token is fresh enough: only select_account is left.
SelectForSession(c) ==
    /\ pc[c] = "select"
    /\ selected' = IF row[acct[c]] = NoRecord THEN selected ELSE acct[c]
    /\ Goto(c, "done")
    /\ UNCHANGED <<row, assigned, entry, logins, locals, overlapped, crashed, faults>>

\* refresh_session; another account's identity is refused.
Renew(c) ==
    /\ pc[c] = "renew"
    /\ \E step \in {"existing", "done"} : Goto(c, step)
    /\ UNCHANGED <<rows, entry, logins, locals, overlapped, crashed, faults>>
-----------------------------------------------------------------------------
(* persist_authenticated: a new credential first, then the row, then the old *)
(* credential goes                                                           *)

\* The credential put and delete work on in this command.
Target(c) == IF kind[c] = "remove" THEN old[c] ELSE c

Written(c, f) == entry' = [entry EXCEPT ![Target(c)] = @ \cup {f}]
Deleted(r, f) == entry' = [entry EXCEPT ![r] = @ \ {f}]

ReadExisting(c) ==
    /\ pc[c] = "existing"
    /\ seen' = [seen EXCEPT ![c] = row[acct[c]]]
    /\ Goto(c, "putRefresh")
    /\ UNCHANGED <<rows, entry, logins, kind, login, acct, old, kept, polls,
                   overlapped, crashed, faults>>

\* CredentialVault::put; a failing write deletes what was written, as well as
\* that goes.
Put(c) ==
    /\ \/ /\ pc[c] = "putRefresh"
          /\ Written(c, "refresh")
          /\ Goto(c, "putMetadata")
          /\ UNCHANGED faults
       \/ /\ pc[c] = "putMetadata"
          /\ Written(c, "metadata")
          /\ IF kind[c] = "remove" THEN Goto(c, "done") ELSE Goto(c, "upsert")
          /\ UNCHANGED faults
       \/ /\ pc[c] \in {"putRefresh", "putMetadata"}
          /\ Fault
          /\ Goto(c, "wipeRefresh")
          /\ UNCHANGED entry
    /\ UNCHANGED <<rows, logins, locals, overlapped, crashed>>

\* Mutant: the cleanup of the new credential forgets its second half.
WipeHalf(c) ==
    /\ pc[c] \in {"wipeRefresh", "wipeMetadata"}
    /\ Deleted(Target(c), "refresh")
    /\ Finish(c)
    /\ UNCHANGED <<rows, logins, locals, overlapped, crashed, faults>>

\* The new credential is taken back after an error.
Wipe(c) ==
    /\ \/ /\ pc[c] = "wipeRefresh"
          /\ Deleted(Target(c), "refresh")
          /\ Goto(c, "wipeMetadata")
          /\ UNCHANGED faults
       \/ /\ pc[c] = "wipeMetadata"
          /\ Deleted(Target(c), "metadata")
          /\ Finish(c)
          /\ UNCHANGED faults
       \/ /\ pc[c] \in {"wipeRefresh", "wipeMetadata"}
          /\ Fault
          /\ Finish(c)
          /\ UNCHANGED entry
    /\ UNCHANGED <<rows, logins, locals, overlapped, crashed>>

Succeed(c) ==
    /\ pc' = [pc EXCEPT ![c] = CASE kind[c] = "login"   -> "release"
                                 [] kind[c] = "session" -> "load"
                                 [] OTHER               -> "done"]
    /\ kind' = [kind EXCEPT ![c] = IF @ = "session" THEN "reload" ELSE @]

\* upsert_account returns the reference the row had at that moment.
Upsert(c) ==
    /\ pc[c] = "upsert"
    /\ LET a == acct[c] IN
         \/ /\ row' = [row EXCEPT ![a] = [ref |-> c, state |-> "active"]]
            /\ selected' = a
            /\ old' = [old EXCEPT ![c] = row[a].ref]
            /\ IF row[a] = NoRecord THEN Succeed(c)
                                    ELSE Goto(c, "dropRefresh") /\ UNCHANGED kind
            /\ UNCHANGED faults
         \/ /\ Fault
            /\ Goto(c, "wipeRefresh")
            /\ UNCHANGED <<row, selected, old, kind>>
    /\ UNCHANGED <<assigned, entry, logins, login, acct, seen, kept, polls,
                   overlapped, crashed>>

\* The old credential is deleted: by a rotation, which undoes itself when that
\* fails, and by a removal, which just returns.
DropOld(c) ==
    /\ \/ /\ pc[c] = "dropRefresh"
          /\ Deleted(old[c], "refresh")
          /\ Goto(c, "dropMetadata")
          /\ UNCHANGED <<kind, faults>>
       \/ /\ pc[c] = "dropMetadata"
          /\ Deleted(old[c], "metadata")
          /\ IF kind[c] = "remove" THEN Goto(c, "deleteRow") /\ UNCHANGED kind
                                   ELSE Succeed(c)
          /\ UNCHANGED faults
       \/ /\ pc[c] \in {"dropRefresh", "dropMetadata"}
          /\ Fault
          /\ Goto(c, IF kind[c] = "remove" THEN "done" ELSE "rollback")
          /\ UNCHANGED <<entry, kind>>
    /\ UNCHANGED <<rows, logins, login, acct, seen, old, kept, polls, overlapped,
                   crashed>>

\* The record read at the beginning is written back, if there was one; the new
\* credential goes in any case.
RollbackRow(c) ==
    /\ pc[c] = "rollback"
    /\ \/ /\ seen[c] # NoRecord
          /\ row' = [row EXCEPT ![acct[c]] = seen[c]]
          /\ selected' = acct[c]
          /\ UNCHANGED faults
       \/ /\ seen[c] = NoRecord
          /\ UNCHANGED <<row, selected, faults>>
       \/ /\ Fault
          /\ UNCHANGED <<row, selected>>
    /\ Goto(c, "wipeRefresh")
    /\ UNCHANGED <<assigned, entry, logins, locals, overlapped, crashed>>
-----------------------------------------------------------------------------
(* remove_account *)

BeginRemove(c, a) ==
    /\ pc[c] = "idle"
    /\ MainThreadFree
    /\ row[a] # NoRecord
    /\ Goto(c, "keep")
    /\ kind' = [kind EXCEPT ![c] = "remove"]
    /\ EnterAccount(c, a)
    /\ seen' = [seen EXCEPT ![c] = row[a]]
    /\ old' = [old EXCEPT ![c] = row[a].ref]
    /\ UNCHANGED <<rows, entry, logins, login, kept, polls, crashed, faults>>

\* The session is read to be put back; one that cannot be read ends the removal.
KeepSession(c) ==
    /\ pc[c] = "keep"
    /\ \/ /\ Readable(old[c]) \/ Absent(old[c])
          /\ kept' = [kept EXCEPT ![c] = Readable(old[c])]
          /\ Goto(c, "dropRefresh")
          /\ UNCHANGED faults
       \/ /\ ~Readable(old[c]) /\ ~Absent(old[c])
          /\ Goto(c, "done")
          /\ UNCHANGED <<kept, faults>>
       \/ /\ Fault
          /\ Goto(c, "done")
          /\ UNCHANGED kept
    /\ UNCHANGED <<rows, entry, logins, kind, login, acct, seen, old, polls,
                   overlapped, crashed>>

\* delete_account, which cascades; when it fails the session is put back.
DeleteRow(c) ==
    /\ pc[c] = "deleteRow"
    /\ LET a == acct[c] IN
         \/ /\ row[a] # NoRecord
            /\ row' = [row EXCEPT ![a] = NoRecord]
            /\ selected' = IF selected = a THEN None ELSE selected
            /\ assigned' = [p \in Profiles |-> IF assigned[p] = a THEN None ELSE assigned[p]]
            /\ Goto(c, "done")
            /\ UNCHANGED faults
         \/ /\ \/ row[a] = NoRecord /\ UNCHANGED faults
               \/ Fault
            /\ Goto(c, IF kept[c] THEN "putRefresh" ELSE "done")
            /\ UNCHANGED rows
    /\ UNCHANGED <<entry, logins, locals, overlapped, crashed>>
-----------------------------------------------------------------------------
(* Commands of one statement *)

SelectAccount(a) ==
    /\ MainThreadFree
    /\ row[a] # NoRecord
    /\ selected' = a
    /\ UNCHANGED <<row, assigned, entry, logins, pc, locals, overlapped, crashed, faults>>

AssignProfileAccount(p, a) ==
    /\ MainThreadFree
    /\ a # None => row[a] # NoRecord
    /\ assigned' = [assigned EXCEPT ![p] = a]
    /\ UNCHANGED <<row, selected, entry, logins, pc, locals, overlapped, crashed, faults>>

\* The launcher ends and starts again; migrate_legacy_metadata finds nothing.
Crash ==
    /\ Fault
    /\ crashed' = TRUE
    /\ pending' = {} /\ expired' = started
    /\ pc' = [c \in Calls |-> IF pc[c] = "idle" THEN "idle" ELSE "done"]
    /\ UNCHANGED <<rows, entry, started, cancelled, claimed, locals, overlapped>>

Step(c) ==
    \/ ClaimLogin(c) \/ SendPoll(c) \/ ReceivePoll(c) \/ Exchange(c) \/ Release(c)
    \/ LoadRecord(c) \/ LoadSession(c) \/ SelectForSession(c) \/ Renew(c)
    \/ ReadExisting(c) \/ Put(c) \/ Wipe(c) \/ Upsert(c) \/ DropOld(c) \/ RollbackRow(c)
    \/ KeepSession(c) \/ DeleteRow(c)

Next ==
    \/ \E l \in Logins : StartDeviceLogin(l) \/ CodeExpires(l) \/ CancelDeviceLogin(l)
    \/ \E c \in Calls, l \in Logins : BeginCompletion(c, l)
    \/ \E c \in Calls, a \in Accounts :
           BeginRemove(c, a) \/ \E k \in {"refresh", "session"} : BeginSession(c, a, k)
    \/ \E c \in Calls : Step(c)
    \/ \E a \in Accounts : SelectAccount(a)
    \/ \E p \in Profiles, a \in Accounts \cup {None} : AssignProfileAccount(p, a)
    \/ Crash

Spec == Init /\ [][Next]_vars

\* Every request has a timeout and every statement returns.
FairSpec == Spec /\ \A c \in Calls : WF_vars(Step(c))
-----------------------------------------------------------------------------
Steps == {"idle", "claim", "poll", "answer", "exchange", "release", "load", "get",
          "select", "renew", "existing", "putRefresh", "putMetadata", "wipeRefresh",
          "wipeMetadata", "upsert", "dropRefresh", "dropMetadata", "rollback", "keep",
          "deleteRow", "done"}

\* The types of the rows, the vault, the login table and the calls' locals.
TypeOK ==
    /\ row \in [Accounts -> AccountRecord \cup {NoRecord}]
    /\ selected \in Accounts \cup {None}
    /\ assigned \in [Profiles -> Accounts \cup {None}]
    /\ entry \in [Refs -> SUBSET Fields]
    /\ started \subseteq Logins /\ pending \subseteq started /\ expired \subseteq started
    /\ cancelled \subseteq started /\ claimed \subseteq started
    /\ pc \in [Calls -> Steps]
    /\ kind \in [Calls -> {"none", "login", "refresh", "session", "reload", "remove"}]
    /\ login \in [Calls -> Logins \cup {None}]
    /\ acct \in [Calls -> Accounts \cup {None}]
    /\ seen \in [Calls -> AccountRecord \cup {NoRecord}]
    /\ old \in [Calls -> Refs \cup {None}]
    /\ kept \in [Calls -> BOOLEAN]
    /\ polls \in [Calls -> 0..MaxPolls]
    /\ overlapped \subseteq Accounts
    /\ crashed \in BOOLEAN /\ faults \in 0..MaxFaults

\* The call that is taking account a off removes what its row refers to.
BeingRemoved(a) ==
    \E c \in Calls : /\ kind[c] = "remove" /\ acct[c] = a /\ old[c] = row[a].ref
                     /\ pc[c] \in {"dropMetadata", "deleteRow", "putRefresh", "putMetadata"}

\* While no statement fails and the launcher does not end, an account shown as
\* signed in has a credential that can be read, however logins, refreshes and
\* removals of it overlap; only its own removal is ever between the two stores.
ActiveRowIsReadable ==
    faults = 0 => \A a \in Accounts :
        row[a].state = "active" => Readable(row[a].ref) \/ BeingRemoved(a)

RefAccount(r) == IF r \in Calls THEN acct[r] ELSE r

\* When commands on an account do not overlap, no error path leaves a credential
\* in the vault that no row names: nothing would ever delete it.  One statement
\* may fail (the error paths are then without errors of their own), and the
\* launcher does not end in between.
NoForgottenSecret ==
    (faults <= 1 /\ ~crashed) => \A r \in Refs :
        LET a == RefAccount(r) IN
        (~Absent(r) /\ a \notin overlapped /\ \A c \in Calls : OnAccount(c) => acct[c] # a)
            => row[a].ref = r

\* The vault and the account rows, two stores without a common transaction,
\* are well formed and agree as far as persist_authenticated and remove_account
\* promise.
CredentialsMatchRows == TypeOK /\ ActiveRowIsReadable /\ NoForgottenSecret

\* No call works for login l after it was cancelled.
Out(l) ==
    /\ l \in cancelled
    /\ \A c \in Calls : login[c] = l => pc[c] \in {"idle", "claim", "poll", "release", "done"}

\* Once a login is cancelled and no answer for it is under way, no command that
\* already holds it, or has begun to, asks for its token or stores its account.
CancelledStaysOut == [][\A l \in Logins : Out(l) => Out(l)']_vars

\* A completion that waits for the user comes back, with the slot of its login
\* free, when the user never answers, and whatever fails in it.
CompletionReturns ==
    \A c \in Calls : (pc[c] = "poll") ~> (pc[c] = "done" /\ login[c] \notin pending)

\* What docs/PHASE-3-SECURITY.md says of missing or damaged credentials, and of
\* no others: an account is sent to sign in again when its own credential cannot
\* be read.  Does not hold: load_session reads the row, then the entry; after a
\* rotation in between the entry is gone and the account is blamed.
ReloginIsEarned ==
    [][\A a \in Accounts :
          (row[a].state = "active" /\ row'[a].state = "relogin-required")
              => ~Readable(row[a].ref)]_vars
=============================================================================
