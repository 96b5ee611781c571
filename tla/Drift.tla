-------------------------------- MODULE Drift --------------------------------
(***************************************************************************)
(* Source drift of one instruction set: the registry's hashes, the hashes  *)
(* its steps cite, the flags, the scan, re-verification and what an edit   *)
(* does to citations and flags (drift.py, routers/sources.py,              *)
(* service._commit_document, reverify, sources/registry.py).               *)
(*                                                                         *)
(* A scan reads the documents, then the registry, then the flags, each in  *)
(* a statement of its own and without a lock; its inserts wait for the     *)
(* set's row.  The scan that follows a rehash runs in a second transaction *)
(* of the same session, which still holds the source as the rehash left    *)
(* it.  An edit holds the row's lock from its load to its commit and reads *)
(* the registry, unlocked, in between.  SpacedRequests says that no scan   *)
(* and no edit is under way when anything else is written.                 *)
(*                                                                         *)
(* A content is its hash.  The approval state matters here only in that a  *)
(* retired set is neither scanned nor edited nor published.                *)
(***************************************************************************)
EXTENDS Naturals, Sequences

CONSTANTS
  Steps,          \* the step ids of the document
  Sources,        \* the registered sources
  Hashes,         \* the contents a source may have
  Scanners,       \* sessions that rehash or scan
  Scheduler,      \* the one of the background thread, which only scans
  SpacedRequests, \* TRUE: no write while a scan or an edit is under way
  MaxChanges      \* bound on changes of a source

NoCite == "none"

ASSUME HashesAssumption == NoCite \notin Hashes
ASSUME ScannersAssumption == Scheduler \in Scanners
ASSUME ChangesAssumption == MaxChanges \in Nat /\ SpacedRequests \in BOOLEAN

VARIABLES
  hash,       \* sources.content_hash
  cites,      \* the hash each step cites for each source, or NoCite
  flags,      \* drift_flags rows per step and source, by id
  lock,       \* who holds the set's row: nobody, an edit, a publish
  scans,      \* what each scan under way has read
  retired,    \* state is retired
  changes,    \* changes of sources so far
  unscanned   \* sources no scan has compared since they changed

vars == <<hash, cites, flags, lock, scans, retired, changes, unscanned>>

Citations == Steps \X Sources
Cites == [Citations -> Hashes \cup {NoCite}]

\* cited_hash decides nothing and is left out.
Flag == [current : Hashes, status : {"open", "reverified", "edited"}]

\* What a scan finds: citations that are behind, with the registry's hash.
Found == UNION {[behind -> Hashes] : behind \in SUBSET Citations}

Free == [by |-> "nobody"]
Publishing == [by |-> "publish"]
Editing == [by : {"edit"}, touched : SUBSET Steps, next : Cites]

Idle == [at |-> "idle"]
\* own: the sources the session holds an object of, with their hashes.
Scan == [at : {"start"}, over : SUBSET Sources, own : [Sources -> Hashes \cup {NoCite}]]
        \cup [at : {"document"}, over : SUBSET Sources,
              own : [Sources -> Hashes \cup {NoCite}], cites : Cites]
        \cup [at : {"sources", "flags"}, over : SUBSET Sources, found : Found]

DriftTypeOK ==
  /\ hash \in [Sources -> Hashes]
  /\ cites \in Cites
  /\ flags \in [Citations -> Seq(Flag)]
  /\ lock \in {Free, Publishing} \cup Editing
  /\ scans \in [Scanners -> Scan \cup {Idle}]
  /\ retired \in BOOLEAN
  /\ changes \in 0 .. MaxChanges
  /\ unscanned \subseteq Sources

Drifted(p) == cites[p] \notin {NoCite, hash[p[2]]}
Latest(p) == flags[p][Len(flags[p])]
Open(p) == {i \in DOMAIN flags[p] : flags[p][i].status = "open"}
Stale == \E p \in Citations : Open(p) # {}

-----------------------------------------------------------------------------
\* A fresh set cites what the registry holds; a branch copies an older version
\* of its parent, and the citations with it, but no flags.
DriftInit ==
  /\ hash \in [Sources -> Hashes]
  /\ cites \in Cites
  /\ flags = [p \in Citations |-> <<>>]
  /\ lock = Free
  /\ scans = [k \in Scanners |-> Idle]
  /\ retired = FALSE
  /\ changes = 0
  /\ unscanned = {p[2] : p \in {q \in Citations : Drifted(q)}}

Spaced ==
  SpacedRequests => lock = Free /\ scans = [k \in Scanners |-> Idle]

-----------------------------------------------------------------------------
(* The registry.                                                           *)

NoneOwn == [x \in Sources |-> NoCite]

\* rehash, or create_source of a source that exists: the new hash is committed,
\* the scan of that source comes after.
Rehash(k, x, h) ==
  /\ Spaced
  /\ k # Scheduler
  /\ scans[k] = Idle
  /\ h # hash[x]
  /\ changes < MaxChanges
  /\ hash' = [hash EXCEPT ![x] = h]
  /\ scans' = [scans EXCEPT ![k] =
       [at |-> "start", over |-> {x}, own |-> [NoneOwn EXCEPT ![x] = h]]]
  /\ changes' = changes + 1
  /\ unscanned' = unscanned \cup {x}
  /\ UNCHANGED <<cites, flags, lock, retired>>

-----------------------------------------------------------------------------
(* The scan.                                                               *)

\* The select over SCANNED_STATES: a retired set is not in it.
ReadDocument(over, own) ==
  IF retired THEN Idle
  ELSE [at |-> "document", over |-> over, own |-> own, cites |-> cites]

\* check-drift or a tick of the scheduler, a session of its own.
CheckDrift(k) ==
  /\ Spaced
  /\ scans[k] = Idle
  /\ scans' = [scans EXCEPT ![k] = ReadDocument(Sources, NoneOwn)]
  /\ UNCHANGED <<hash, cites, flags, lock, retired, changes, unscanned>>

\* The second transaction of a rehash.
ScanDocument(k) ==
  /\ scans[k].at = "start"
  /\ scans' = [scans EXCEPT ![k] = ReadDocument(@.over, @.own)]
  /\ UNCHANGED <<hash, cites, flags, lock, retired, changes, unscanned>>

\* Variant: the session is asked for an object it may not hold.
SessionObject(scan, x) == scan.own[x]

\* The hash the scan compares with: the session's own object, else the row.
Seen(scan, x) == IF scan.own[x] # NoCite THEN scan.own[x] ELSE hash[x]

Behind(scan) ==
  {p \in Citations : /\ p[2] \in scan.over
                     /\ scan.cites[p] \notin {NoCite, Seen(scan, p[2])}}

ScanSources(k) ==
  LET scan == scans[k] IN
  /\ scan.at = "document"
  /\ scans' = [scans EXCEPT ![k] =
       [at |-> "sources", over |-> scan.over,
        found |-> [p \in Behind(scan) |-> Seen(scan, p[2])]]]
  /\ unscanned' = unscanned \ {x \in scan.over : Seen(scan, x) = hash[x]}
  /\ UNCHANGED <<hash, cites, flags, lock, retired, changes>>

\* Variant: an open flag is flagged again if the source has moved on.
SameHash(p, current) == flags[p] # <<>> /\ Latest(p).current = current

\* Variant: a citation that was flagged before is not flagged again.
EverFlagged(p, current) == flags[p] # <<>>

\* Already open, or the latest flag was about this hash.
AlreadyKnown(p, current) ==
  /\ flags[p] # <<>>
  /\ Latest(p).status = "open" \/ Latest(p).current = current

ScanFlags(k) ==
  LET found == scans[k].found
      new   == {p \in DOMAIN found : ~AlreadyKnown(p, found[p])}
  IN
  /\ scans[k].at = "sources"
  /\ scans' = [scans EXCEPT ![k] =
       IF new = {} THEN Idle
       ELSE [at |-> "flags", over |-> @.over, found |-> [p \in new |-> found[p]]]]
  /\ UNCHANGED <<hash, cites, flags, lock, retired, changes, unscanned>>

\* Variant: the inserts do not wait for the set's row.
NoLock == TRUE

LockFree == lock = Free

ScanInsert(k) ==
  LET found == scans[k].found IN
  /\ scans[k].at = "flags"
  /\ LockFree
  /\ flags' = [p \in Citations |->
       IF p \in DOMAIN found
       THEN Append(flags[p], [current |-> found[p], status |-> "open"])
       ELSE flags[p]]
  /\ scans' = [scans EXCEPT ![k] = Idle]
  /\ UNCHANGED <<hash, cites, lock, retired, changes, unscanned>>

\* The process dies, or the tick fails and is logged.
ScanDies(k) ==
  /\ scans[k] # Idle
  /\ scans' = [scans EXCEPT ![k] = Idle]
  /\ unscanned' = unscanned \cup scans[k].over
  /\ UNCHANGED <<hash, cites, flags, lock, retired, changes>>

-----------------------------------------------------------------------------
(* What people do with the set.                                            *)

\* resolve_citations refreshes every citation, then the steps that did not
\* change get their old ones back.
NextCites(touched, citing) ==
  [p \in Citations |->
     CASE p[1] \notin touched -> cites[p]
       [] p \in citing        -> hash[p[2]]
       [] OTHER               -> NoCite]

\* An edit or a merge changes some steps; those cite what they now cite.
EditBegin(touched, citing) ==
  /\ Spaced
  /\ LockFree
  /\ ~retired
  /\ lock' = [by |-> "edit", touched |-> touched, next |-> NextCites(touched, citing)]
  /\ UNCHANGED <<hash, cites, flags, scans, retired, changes, unscanned>>

\* Variant: a flag whose step dropped the citation stays open.
StillCited(cited, flag) == cited = flag.current

\* resolve_after_edit
Settles(cited, flag) == cited = NoCite \/ cited = flag.current

Closed(rows, which, resolution) ==
  [i \in DOMAIN rows |->
     IF i \in which THEN [rows[i] EXCEPT !.status = resolution] ELSE rows[i]]

EditCommit ==
  /\ lock.by = "edit"
  /\ cites' = lock.next
  /\ flags' = [p \in Citations |->
       Closed(flags[p], {i \in Open(p) : Settles(lock.next[p], flags[p][i])}, "edited")]
  /\ lock' = Free
  /\ UNCHANGED <<hash, scans, retired, changes, unscanned>>

\* reverify: an expert confirms all stale steps, or some of them.
Reverify(steps) ==
  /\ Spaced
  /\ LockFree
  /\ \E p \in Citations : p[1] \in steps /\ Open(p) # {}
  /\ flags' = [p \in Citations |->
       Closed(flags[p], {i \in Open(p) : p[1] \in steps}, "reverified")]
  /\ UNCHANGED <<hash, cites, lock, scans, retired, changes, unscanned>>

\* The gate is passed; the lock is held while the targets are called.
PublishBegin ==
  /\ Spaced
  /\ LockFree
  /\ ~retired
  /\ ~Stale
  /\ lock' = Publishing
  /\ UNCHANGED <<hash, cites, flags, scans, retired, changes, unscanned>>

\* The publish commits or fails, or the edit's session is closed.
Unlock ==
  /\ lock # Free
  /\ lock' = Free
  /\ UNCHANGED <<hash, cites, flags, scans, retired, changes, unscanned>>

RetireSet ==
  /\ Spaced
  /\ LockFree
  /\ ~retired
  /\ retired' = TRUE
  /\ UNCHANGED <<hash, cites, flags, lock, scans, changes, unscanned>>

-----------------------------------------------------------------------------
ScanStep(k) == ScanDocument(k) \/ ScanSources(k) \/ ScanFlags(k) \/ ScanInsert(k)

DriftNext ==
  \/ \E k \in Scanners, x \in Sources, h \in Hashes : Rehash(k, x, h)
  \/ \E k \in Scanners : CheckDrift(k) \/ ScanStep(k) \/ ScanDies(k)
  \/ \E touched \in SUBSET Steps : \E citing \in SUBSET (touched \X Sources) :
       EditBegin(touched, citing)
  \/ EditCommit
  \/ \E steps \in SUBSET Steps : Reverify(steps)
  \/ PublishBegin
  \/ Unlock
  \/ RetireSet

DriftSpec == DriftInit /\ [][DriftNext]_vars

\* The scheduler is on: it scans on every tick and outlives a tick that fails,
\* and from some tick on they do not fail.  Its inserts wait for the row's lock
\* in a queue, and a request that holds the lock ends.
DriftFairness ==
  /\ WF_vars(CheckDrift(Scheduler))
  /\ WF_vars(ScanStep(Scheduler))
  /\ SF_vars(ScanInsert(Scheduler))
  /\ <>[][~ScanDies(Scheduler)]_vars
  /\ WF_vars(EditCommit \/ Unlock)

FairDriftSpec == DriftSpec /\ DriftFairness

-----------------------------------------------------------------------------
(* What holds however requests overlap.                                    *)

\* No flag is opened between the publish gate and the end of the delivery: the
\* insert waits for the row (_publish_gate, the foreign key of drift_flags).
NoFlagDuringPublish == lock = Publishing => ~Stale

\* A citation that stays behind the registry is flagged, or has a flag about
\* this hash on record, as long as the scheduler runs.
DriftIsNoticed ==
  \A p \in Citations, h \in Hashes :
    LET IsBehind == Drifted(p) /\ hash[p[2]] = h /\ ~retired
    IN  IsBehind ~> \/ ~IsBehind
                    \/ Open(p) # {}
                    \/ flags[p] # <<>> /\ Latest(p).current = h

-----------------------------------------------------------------------------
(* What holds when requests are spaced.                                    *)

\* There is one open flag at most per step and source (scan_instruction_set).
OneOpenFlag ==
  \A p \in Citations : \A i, j \in Open(p) : i = j

\* An open flag is about a citation the step still has, and that does not carry
\* the hash the flag asks for.  Such a citation may still carry the registry's
\* hash, when the source changed again since it was flagged: then the flag is
\* open over nothing (EditClosesTheCurrent) (scan_instruction_set,
\* resolve_after_edit).
OpenFlagsBite ==
  \A p \in Citations : \A i \in Open(p) :
    cites[p] \notin {NoCite, flags[p][i].current}

\* Of the flags the gate asks about none is doubled, and none asks for a citation
\* that is gone or for a hash that is cited already: both of the above.
FlagsAreSound == OneOpenFlag /\ OpenFlagsBite

Owed(x) == x \in unscanned \/ \E k \in Scanners : scans[k] # Idle /\ x \in scans[k].over

Accounted(p) ==
  /\ flags[p] # <<>>
  /\ \/ Open(p) # {}
     \/ Latest(p).current = hash[p[2]]
     \/ Latest(p).status = "reverified"

\* A citation behind the registry, with no scan owed, is under an open flag, or
\* its latest flag names this hash, or somebody re-verified the step since it
\* was flagged last (scan_instruction_set, resolve_after_edit).
DriftIsAccountedFor ==
  \A p \in Citations : Drifted(p) /\ ~Owed(p[2]) /\ ~retired => Accounted(p)

-----------------------------------------------------------------------------
(* What the code says of itself, and does not do.                          *)

\* "After an edit, close flags whose step now cites the registry's current
\* hash": a step an edit leaves with that hash is under no open flag
\* (resolve_after_edit).
EditClosesTheCurrent ==
  [][EditCommit => \A p \in Citations : cites'[p] = hash[p[2]] => Open(p)' = {}]_vars
=============================================================================
