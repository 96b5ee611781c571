----------------------------- MODULE DriftProofs -----------------------------
(***************************************************************************)
(* Proofs about Drift, for any steps, sources, contents, scanners and      *)
(* bound, and both values of SpacedRequests.                               *)
(***************************************************************************)
EXTENDS Drift, TLAPS

-----------------------------------------------------------------------------
(* Type correctness.                                                       *)

ScanTypes == scans \in [Scanners -> Scan \cup {Idle}]

\* What a scan holds in each of its phases.
LEMMA ScanPhases ==
  ASSUME NEW s \in Scan \cup {Idle}
  PROVE  /\ s.at = "start" => s.over \subseteq Sources /\ s.own \in [Sources -> Hashes \cup {NoCite}]
         /\ s.at = "document" =>
              /\ s.over \subseteq Sources
              /\ s.own \in [Sources -> Hashes \cup {NoCite}]
              /\ s.cites \in Cites
         /\ s.at \in {"sources", "flags"} => s.over \subseteq Sources /\ s.found \in Found
         /\ s # Idle => s.over \subseteq Sources
BY DEF Scan, Idle

\* Narrowing what was found leaves something found.
LEMMA FoundNarrows ==
  ASSUME NEW found \in Found, NEW S \in SUBSET DOMAIN found
  PROVE  [p \in S |-> found[p]] \in Found
<1>1. PICK behind \in SUBSET Citations : found \in [behind -> Hashes]
  BY DEF Found
<1>2. [p \in S |-> found[p]] \in [S -> Hashes]
  BY <1>1
<1>3. S \in SUBSET Citations
  BY <1>1
<1> QED BY <1>2, <1>3 DEF Found

\* Closing flags keeps the rows flags.
LEMMA ClosedType ==
  ASSUME NEW rows \in Seq(Flag), NEW which \in SUBSET DOMAIN rows,
         NEW resolution \in {"reverified", "edited"}
  PROVE  Closed(rows, which, resolution) \in Seq(Flag)
<1>1. \A i \in DOMAIN rows : rows[i] \in Flag
  OBVIOUS
<1>2. \A i \in DOMAIN rows : [rows[i] EXCEPT !.status = resolution] \in Flag
  BY <1>1 DEF Flag
<1>3. Closed(rows, which, resolution) \in [1 .. Len(rows) -> Flag]
  BY <1>1, <1>2 DEF Closed
<1> QED BY <1>3

LEMMA DriftTypeInit == DriftInit => DriftTypeOK
<1> SUFFICES ASSUME DriftInit PROVE DriftTypeOK
  OBVIOUS
<1>1. flags \in [Citations -> Seq(Flag)]
  BY DEF DriftInit
<1>2. unscanned \subseteq Sources
  BY DEF DriftInit, Citations
<1>3. changes \in 0 .. MaxChanges
  BY ChangesAssumption DEF DriftInit
<1>4. scans \in [Scanners -> Scan \cup {Idle}]
  BY DEF DriftInit
<1> QED BY <1>1, <1>2, <1>3, <1>4 DEF DriftInit, DriftTypeOK

\* A read of the document is a scan in its second phase, or the end of it.
LEMMA ReadType ==
  ASSUME DriftTypeOK, NEW over \in SUBSET Sources, NEW own \in [Sources -> Hashes \cup {NoCite}]
  PROVE  ReadDocument(over, own) \in Scan \cup {Idle}
BY DEF DriftTypeOK, ReadDocument, Scan

LEMMA DriftTypeStep == DriftTypeOK /\ [DriftNext]_vars => DriftTypeOK'
<1> SUFFICES ASSUME DriftTypeOK, [DriftNext]_vars PROVE DriftTypeOK'
  OBVIOUS
<1> USE DEF DriftTypeOK
<1>1. ASSUME NEW k \in Scanners, NEW x \in Sources, NEW h \in Hashes, Rehash(k, x, h)
      PROVE  DriftTypeOK'
  <2>1. changes' \in 0 .. MaxChanges
    BY <1>1, ChangesAssumption DEF Rehash
  <2>2. [at |-> "start", over |-> {x}, own |-> [NoneOwn EXCEPT ![x] = h]] \in Scan
    BY DEF Scan, NoneOwn
  <2>3. scans' \in [Scanners -> Scan \cup {Idle}]
    BY <1>1, <2>2 DEF Rehash
  <2> QED BY <1>1, <2>1, <2>3 DEF Rehash
<1>2. ASSUME NEW k \in Scanners, CheckDrift(k) PROVE DriftTypeOK'
  <2>1. ReadDocument(Sources, NoneOwn) \in Scan \cup {Idle}
    BY ReadType DEF NoneOwn
  <2> QED BY <1>2, <2>1 DEF CheckDrift
<1>3. ASSUME NEW k \in Scanners, ScanDocument(k) PROVE DriftTypeOK'
  <2>1. ReadDocument(scans[k].over, scans[k].own) \in Scan \cup {Idle}
    BY <1>3, ScanPhases, ReadType DEF ScanDocument
  <2> QED BY <1>3, <2>1 DEF ScanDocument
<1>4. ASSUME NEW k \in Scanners, ScanSources(k) PROVE DriftTypeOK'
  <2> DEFINE scan == scans[k]
             found == [p \in Behind(scan) |-> Seen(scan, p[2])]
  <2>1. /\ scan.over \subseteq Sources
        /\ scan.own \in [Sources -> Hashes \cup {NoCite}]
    BY <1>4, ScanPhases DEF ScanSources
  <2>2. \A p \in Citations : Seen(scan, p[2]) \in Hashes
    BY <2>1, HashesAssumption DEF Seen, Citations
  <2>3. Behind(scan) \in SUBSET Citations
    BY DEF Behind
  <2>4. found \in [Behind(scan) -> Hashes]
    BY <2>2, <2>3
  <2>5. found \in Found
    BY <2>3, <2>4 DEF Found
  <2>6. [at |-> "sources", over |-> scan.over, found |-> found] \in Scan
    BY <2>1, <2>5 DEF Scan
  <2>7. scans' \in [Scanners -> Scan \cup {Idle}]
    BY <1>4, <2>6 DEF ScanSources
  <2> QED BY <1>4, <2>7 DEF ScanSources
<1>5. ASSUME NEW k \in Scanners, ScanFlags(k) PROVE DriftTypeOK'
  <2> DEFINE found == scans[k].found
             new == {p \in DOMAIN found : ~AlreadyKnown(p, found[p])}
  <2>1. scans[k].over \subseteq Sources /\ found \in Found
    BY <1>5, ScanPhases DEF ScanFlags
  <2>2. [p \in new |-> found[p]] \in Found
    BY <2>1, FoundNarrows
  <2>3. [at |-> "flags", over |-> scans[k].over, found |-> [p \in new |-> found[p]]] \in Scan
    BY <2>1, <2>2 DEF Scan
  <2>4. scans' \in [Scanners -> Scan \cup {Idle}]
    BY <1>5, <2>3 DEF ScanFlags
  <2> QED BY <1>5, <2>4 DEF ScanFlags
<1>6. ASSUME NEW k \in Scanners, ScanInsert(k) PROVE DriftTypeOK'
  <2> DEFINE found == scans[k].found
  <2>1. found \in Found
    BY <1>6, ScanPhases DEF ScanInsert
  <2>2. \A p \in DOMAIN found : [current |-> found[p], status |-> "open"] \in Flag
    BY <2>1 DEF Found, Flag
  <2>3. \A p \in Citations : flags'[p] \in Seq(Flag)
    BY <1>6, <2>2 DEF ScanInsert
  <2>4. flags' \in [Citations -> Seq(Flag)]
    BY <1>6, <2>3 DEF ScanInsert
  <2> QED BY <1>6, <2>4 DEF ScanInsert
<1>7. ASSUME NEW k \in Scanners, ScanDies(k) PROVE DriftTypeOK'
  <2>1. scans[k].over \subseteq Sources
    BY <1>7, ScanPhases DEF ScanDies
  <2> QED BY <1>7, <2>1 DEF ScanDies
<1>8. ASSUME NEW touched \in SUBSET Steps, NEW citing \in SUBSET (touched \X Sources),
             EditBegin(touched, citing)
      PROVE  DriftTypeOK'
  <2>1. NextCites(touched, citing) \in Cites
    BY DEF NextCites, Cites, Citations
  <2>2. lock' \in Editing
    BY <1>8, <2>1 DEF EditBegin, Editing
  <2> QED BY <1>8, <2>2 DEF EditBegin
<1>9. CASE EditCommit
  <2>1. lock.next \in Cites
    BY <1>9 DEF EditCommit, Editing, Free, Publishing
  <2>2. \A p \in Citations : flags'[p] \in Seq(Flag)
    BY <1>9, ClosedType DEF EditCommit, Open
  <2>3. flags' \in [Citations -> Seq(Flag)]
    BY <1>9, <2>2 DEF EditCommit
  <2> QED BY <1>9, <2>1, <2>3 DEF EditCommit
<1>10. ASSUME NEW steps \in SUBSET Steps, Reverify(steps) PROVE DriftTypeOK'
  <2>1. \A p \in Citations : flags'[p] \in Seq(Flag)
    BY <1>10, ClosedType DEF Reverify, Open
  <2>2. flags' \in [Citations -> Seq(Flag)]
    BY <1>10, <2>1 DEF Reverify
  <2> QED BY <1>10, <2>2 DEF Reverify
<1>11. CASE PublishBegin \/ Unlock \/ RetireSet
  BY <1>11 DEF PublishBegin, Unlock, RetireSet
<1>12. CASE UNCHANGED vars
  BY <1>12 DEF vars
<1> QED
  BY <1>1, <1>2, <1>3, <1>4, <1>5, <1>6, <1>7, <1>8, <1>9, <1>10, <1>11, <1>12
  DEF DriftNext, ScanStep

\* Every variable keeps its type; a scan never records the absence of a
\* citation as a hash it found.
THEOREM DriftTypeCorrect == DriftSpec => []DriftTypeOK
BY DriftTypeInit, DriftTypeStep, PTL DEF DriftSpec

-----------------------------------------------------------------------------
(* The gate's verdict on flags outlives the delivery: an insert waits.     *)

LEMMA NoFlagStep == NoFlagDuringPublish /\ [DriftNext]_vars => NoFlagDuringPublish'
<1> SUFFICES ASSUME NoFlagDuringPublish, [DriftNext]_vars PROVE NoFlagDuringPublish'
  OBVIOUS
<1> USE DEF NoFlagDuringPublish
<1>1. CASE UNCHANGED <<flags, lock>>
  BY <1>1 DEF Stale, Open
<1>2. ASSUME NEW k \in Scanners, NEW x \in Sources, NEW h \in Hashes, Rehash(k, x, h)
      PROVE  NoFlagDuringPublish'
  BY <1>1, <1>2 DEF Rehash
<1>3. ASSUME NEW k \in Scanners, CheckDrift(k) \/ ScanStep(k) \/ ScanDies(k)
      PROVE  NoFlagDuringPublish'
  <2>1. CASE ScanInsert(k)
    BY <2>1 DEF ScanInsert, LockFree, Free, Publishing
  <2>2. CASE ~ScanInsert(k)
    BY <1>1, <1>3, <2>2 DEF CheckDrift, ScanStep, ScanDocument, ScanSources, ScanFlags, ScanDies
  <2> QED BY <2>1, <2>2
<1>4. ASSUME NEW touched \in SUBSET Steps, NEW citing \in SUBSET (touched \X Sources),
             EditBegin(touched, citing)
      PROVE  NoFlagDuringPublish'
  BY <1>4 DEF EditBegin, Publishing
<1>5. CASE EditCommit \/ Unlock
  BY <1>5 DEF EditCommit, Unlock, Free, Publishing
<1>6. ASSUME NEW steps \in SUBSET Steps, Reverify(steps) PROVE NoFlagDuringPublish'
  BY <1>6 DEF Reverify, LockFree, Free, Publishing
<1>7. CASE PublishBegin
  BY <1>7 DEF PublishBegin, Stale, Open
<1>8. CASE RetireSet \/ UNCHANGED vars
  BY <1>1, <1>8 DEF RetireSet, vars
<1> QED BY <1>2, <1>3, <1>4, <1>5, <1>6, <1>7, <1>8 DEF DriftNext

\* However scans overlap with it, no flag opens between the publish gate and
\* the end of the delivery.
THEOREM GateOutlivesDelivery == DriftSpec => []NoFlagDuringPublish
<1>1. DriftInit => NoFlagDuringPublish
  BY DEF DriftInit, NoFlagDuringPublish, Free, Publishing
<1> QED BY <1>1, NoFlagStep, PTL DEF DriftSpec

-----------------------------------------------------------------------------
(* With requests spaced: what a scan or an edit under way has read is what *)
(* the database holds, an open flag is the latest of its citation, and so  *)
(* every citation behind the registry is accounted for.                    *)

OneAtATime ==
  \A k \in Scanners : scans[k] # Idle =>
    lock = Free /\ \A j \in Scanners \ {k} : scans[j] = Idle

ScanIsCurrent(s) ==
  /\ s.at \in {"start", "document"} => \A x \in Sources : s.own[x] \in {NoCite, hash[x]}
  /\ s.at = "document" => s.cites = cites
  /\ s.at \in {"sources", "flags"} =>
       \A p \in DOMAIN s.found : Drifted(p) /\ s.found[p] = hash[p[2]]
  /\ s.at = "sources" =>
       \A p \in Citations : p[2] \in s.over /\ Drifted(p) => p \in DOMAIN s.found
  /\ s.at = "flags" =>
       /\ \A p \in DOMAIN s.found : ~AlreadyKnown(p, hash[p[2]])
       /\ \A p \in Citations : p[2] \in s.over /\ Drifted(p) =>
            p \in DOMAIN s.found \/ AlreadyKnown(p, hash[p[2]])

ScansAreCurrent == \A k \in Scanners : ScanIsCurrent(scans[k])

EditIsCurrent ==
  lock.by = "edit" => \A p \in Citations : lock.next[p] \in {cites[p], hash[p[2]], NoCite}

OpenIsLast == \A p \in Citations : \A i \in Open(p) : i = Len(flags[p])

SpacedInv ==
  /\ DriftTypeOK
  /\ OneAtATime
  /\ ScansAreCurrent
  /\ EditIsCurrent
  /\ OpenIsLast
  /\ OpenFlagsBite
  /\ DriftIsAccountedFor

\* Closing flags changes their status and nothing else.
LEMMA ClosedRows ==
  ASSUME NEW rows \in Seq(Flag), NEW which \in SUBSET DOMAIN rows, NEW resolution
  PROVE  LET closed == Closed(rows, which, resolution) IN
         /\ DOMAIN closed = DOMAIN rows
         /\ Len(rows) \in Nat
         /\ Len(closed) = Len(rows)
         /\ \A i \in DOMAIN rows :
              /\ closed[i].current = rows[i].current
              /\ closed[i].status = IF i \in which THEN resolution ELSE rows[i].status
<1> DEFINE closed == Closed(rows, which, resolution)
<1>1. DOMAIN closed = 1 .. Len(rows) /\ Len(rows) \in Nat
  BY DEF Closed
<1>2. closed = [i \in 1 .. Len(rows) |-> closed[i]]
  BY DEF Closed
<1>3. Len(closed) = Len(rows)
  BY <1>1, <1>2
<1>4. \A i \in DOMAIN rows : rows[i] \in Flag
  OBVIOUS
<1>5. \A i \in DOMAIN rows :
        /\ closed[i].current = rows[i].current
        /\ closed[i].status = IF i \in which THEN resolution ELSE rows[i].status
  BY <1>4 DEF Closed, Flag
<1> QED BY <1>1, <1>3, <1>5

\* A known citation is accounted for.
LEMMA KnownIsAccounted ==
  ASSUME DriftTypeOK, NEW p \in Citations, AlreadyKnown(p, hash[p[2]])
  PROVE  Accounted(p)
<1>1. flags[p] \in Seq(Flag) /\ flags[p] # <<>>
  BY DEF AlreadyKnown, DriftTypeOK
<1>2. Len(flags[p]) \in DOMAIN flags[p]
  BY <1>1
<1> QED BY <1>1, <1>2 DEF AlreadyKnown, Accounted, Open, Latest

\* Steps of a scan that write nothing but what the scan has read.
LEMMA ReadOnly ==
  ASSUME SpacedInv, UNCHANGED <<hash, cites, flags, lock>>
  PROVE  (EditIsCurrent /\ OpenIsLast /\ OpenFlagsBite)'
BY DEF SpacedInv, EditIsCurrent, OpenIsLast, OpenFlagsBite, Open

\* One scan moves while the others are idle.
LEMMA ScanMoves ==
  ASSUME SpacedInv, NEW k \in Scanners, NEW s,
         lock = Free, \A j \in Scanners \ {k} : scans[j] = Idle,
         scans' = [scans EXCEPT ![k] = s], lock' = lock,
         ScanIsCurrent(s)'
  PROVE  (OneAtATime /\ ScansAreCurrent)'
<1>1. scans'[k] = s /\ \A j \in Scanners \ {k} : scans'[j] = Idle
  BY DEF SpacedInv, DriftTypeOK
<1>2. OneAtATime'
  BY <1>1 DEF OneAtATime
<1>3. ScanIsCurrent(Idle)'
  BY DEF ScanIsCurrent, Idle
<1> QED BY <1>1, <1>2, <1>3 DEF ScansAreCurrent

\* What is owed when one scan only is under way.
LEMMA OwedByOne ==
  ASSUME SpacedInv, NEW k \in Scanners, \A j \in Scanners \ {k} : scans[j] = Idle, NEW x
  PROVE  Owed(x) <=> x \in unscanned \/ (scans[k] # Idle /\ x \in scans[k].over)
BY DEF Owed

LEMMA SpacedInit == DriftInit => SpacedInv
<1> SUFFICES ASSUME DriftInit PROVE SpacedInv
  OBVIOUS
<1>1. DriftTypeOK
  BY DriftTypeInit
<1>2. OneAtATime /\ ScansAreCurrent /\ EditIsCurrent
  BY DEF DriftInit, OneAtATime, ScansAreCurrent, ScanIsCurrent, EditIsCurrent, Idle, Free
<1>3. \A p \in Citations : Open(p) = {}
  BY DEF DriftInit, Open
<1>4. DriftIsAccountedFor
  BY DEF DriftInit, DriftIsAccountedFor, Owed
<1> QED BY <1>1, <1>2, <1>3, <1>4 DEF SpacedInv, OpenIsLast, OpenFlagsBite

\* The first read of a scan.
LEMMA ReadStep ==
  ASSUME SpacedInv, NEW k \in Scanners, NEW over \in SUBSET Sources, NEW own,
         lock = Free, \A j \in Scanners \ {k} : scans[j] = Idle,
         \A x \in Sources : own[x] \in {NoCite, hash[x]},
         scans' = [scans EXCEPT ![k] = ReadDocument(over, own)],
         scans[k] # Idle => scans[k].over = over,
         UNCHANGED <<hash, cites, flags, lock, retired, unscanned>>,
         DriftTypeOK'
  PROVE  SpacedInv'
<1>1. PICK s : s = ReadDocument(over, own)
  OBVIOUS
<1>2. ScanIsCurrent(s)'
  BY <1>1 DEF ReadDocument, ScanIsCurrent, Idle
<1>3. (OneAtATime /\ ScansAreCurrent)'
  BY <1>1, <1>2, ScanMoves
<1>4. (EditIsCurrent /\ OpenIsLast /\ OpenFlagsBite)'
  BY ReadOnly
<1>5. DriftIsAccountedFor'
  <2> SUFFICES ASSUME NEW p \in Citations, Drifted(p)', ~Owed(p[2])', ~retired'
               PROVE  Accounted(p)'
    BY DEF DriftIsAccountedFor
  <2>1. scans'[k] # Idle /\ scans'[k].over = over
    BY <1>1 DEF ReadDocument, Idle, SpacedInv, DriftTypeOK
  <2>2. p[2] \notin unscanned /\ p[2] \notin over
    BY <2>1 DEF Owed
  <2>3. ~Owed(p[2])
    BY <2>2, OwedByOne
  <2> QED BY <2>3 DEF SpacedInv, DriftIsAccountedFor, Drifted, Accounted, Open, Latest
<1> QED BY <1>3, <1>4, <1>5 DEF SpacedInv

\* Nobody else is under way when a scan is, nor anybody when a request starts.
LEMMA Alone ==
  ASSUME SpacedInv, NEW k \in Scanners, scans[k] # Idle
  PROVE  lock = Free /\ \A j \in Scanners \ {k} : scans[j] = Idle
BY DEF SpacedInv, OneAtATime

LEMMA NobodyUnderWay ==
  ASSUME SpacedInv, SpacedRequests, Spaced \/ lock # Free
  PROVE  /\ \A j \in Scanners : scans[j] = Idle
         /\ Spaced => lock = Free
         /\ \A x : Owed(x) <=> x \in unscanned
BY DEF SpacedInv, OneAtATime, Spaced, Owed, DriftTypeOK

\* Nobody is under way before or after, except whoever takes the lock.
LEMMA AllIdle ==
  ASSUME \A j \in Scanners : scans[j] = Idle, scans' = scans
  PROVE  (OneAtATime /\ ScansAreCurrent)'
BY DEF OneAtATime, ScansAreCurrent, ScanIsCurrent, Idle

LEMMA SpacedRehash ==
  ASSUME SpacedInv, SpacedRequests, DriftTypeOK',
         NEW k \in Scanners, NEW x \in Sources, NEW h \in Hashes, Rehash(k, x, h)
  PROVE  SpacedInv'
<1>1. /\ \A j \in Scanners : scans[j] = Idle
      /\ lock = Free
      /\ \A y : Owed(y) <=> y \in unscanned
  BY NobodyUnderWay DEF Rehash
<1>2. hash' = [hash EXCEPT ![x] = h] /\ hash \in [Sources -> Hashes]
  BY DEF Rehash, SpacedInv, DriftTypeOK
<1>3. UNCHANGED <<cites, flags, lock, retired>> /\ unscanned' = unscanned \cup {x}
  BY DEF Rehash
<1>4. PICK s : s = [at |-> "start", over |-> {x}, own |-> [NoneOwn EXCEPT ![x] = h]]
  OBVIOUS
<1>5. ScanIsCurrent(s)'
  BY <1>2, <1>4 DEF ScanIsCurrent, NoneOwn
<1>6. (OneAtATime /\ ScansAreCurrent)'
  BY <1>1, <1>4, <1>5, ScanMoves DEF Rehash
<1>7. EditIsCurrent'
  BY <1>1, <1>3 DEF EditIsCurrent, Free
<1>8. (OpenIsLast /\ OpenFlagsBite)'
  BY <1>3 DEF SpacedInv, OpenIsLast, OpenFlagsBite, Open
<1>9. DriftIsAccountedFor'
  <2> SUFFICES ASSUME NEW p \in Citations, Drifted(p)', ~Owed(p[2])', ~retired'
               PROVE  Accounted(p)'
    BY DEF DriftIsAccountedFor
  <2>1. p[2] # x /\ ~Owed(p[2])
    BY <1>1, <1>3 DEF Owed
  <2>2. hash'[p[2]] = hash[p[2]]
    BY <1>2, <2>1 DEF Citations
  <2> QED BY <1>3, <2>1, <2>2 DEF SpacedInv, DriftIsAccountedFor, Drifted, Accounted, Open, Latest
<1> QED BY <1>6, <1>7, <1>8, <1>9 DEF SpacedInv

LEMMA SpacedSources ==
  ASSUME SpacedInv, DriftTypeOK', NEW k \in Scanners, ScanSources(k)
  PROVE  SpacedInv'
<1>1. scans[k] # Idle /\ scans[k].at = "document"
  BY DEF ScanSources, Idle
<1>2. lock = Free /\ \A j \in Scanners \ {k} : scans[j] = Idle
  BY <1>1, Alone
<1>3. UNCHANGED <<hash, cites, flags, lock, retired>>
  BY DEF ScanSources
<1>4. scans[k].cites = cites /\ \A x \in Sources : scans[k].own[x] \in {NoCite, hash[x]}
  BY <1>1 DEF SpacedInv, ScansAreCurrent, ScanIsCurrent
<1>5. \A x \in Sources : Seen(scans[k], x) = hash[x]
  BY <1>4 DEF Seen
<1>6. Behind(scans[k]) = {p \in Citations : p[2] \in scans[k].over /\ Drifted(p)}
  BY <1>4, <1>5 DEF Behind, Drifted, Citations
<1>7. PICK s : s = [at |-> "sources", over |-> scans[k].over,
                    found |-> [p \in Behind(scans[k]) |-> Seen(scans[k], p[2])]]
  OBVIOUS
<1>8. /\ DOMAIN s.found = Behind(scans[k])
      /\ \A p \in DOMAIN s.found : s.found[p] = hash[p[2]]
      /\ s.over = scans[k].over
      /\ s.at = "sources"
      /\ s # Idle
  BY <1>5, <1>6, <1>7 DEF Citations, Idle
<1>9. ScanIsCurrent(s)'
  BY <1>3, <1>6, <1>8 DEF ScanIsCurrent, Drifted
<1>10. scans' = [scans EXCEPT ![k] = s]
  BY <1>7 DEF ScanSources
<1>11. (OneAtATime /\ ScansAreCurrent)'
  BY <1>2, <1>3, <1>9, <1>10, ScanMoves
<1>12. (EditIsCurrent /\ OpenIsLast /\ OpenFlagsBite)'
  BY <1>3, ReadOnly
<1>13. DriftIsAccountedFor'
  <2> SUFFICES ASSUME NEW p \in Citations, Drifted(p)', ~Owed(p[2])', ~retired'
               PROVE  Accounted(p)'
    BY DEF DriftIsAccountedFor
  <2>1. scans'[k] = s
    BY <1>10 DEF SpacedInv, DriftTypeOK
  <2>2. p[2] \notin scans[k].over /\ p[2] \notin unscanned'
    BY <1>8, <2>1 DEF Owed
  <2>3. p[2] \notin unscanned
    BY <2>2 DEF ScanSources
  <2>4. ~Owed(p[2])
    BY <1>2, <2>2, <2>3, OwedByOne
  <2> QED BY <1>3, <2>4 DEF SpacedInv, DriftIsAccountedFor, Drifted, Accounted, Open, Latest
<1> QED BY <1>11, <1>12, <1>13 DEF SpacedInv

LEMMA SpacedFlags ==
  ASSUME SpacedInv, DriftTypeOK', NEW k \in Scanners, ScanFlags(k)
  PROVE  SpacedInv'
<1> DEFINE found == scans[k].found
           new == {p \in DOMAIN found : ~AlreadyKnown(p, found[p])}
<1>1. scans[k] # Idle /\ scans[k].at = "sources"
  BY DEF ScanFlags, Idle
<1>2. lock = Free /\ \A j \in Scanners \ {k} : scans[j] = Idle
  BY <1>1, Alone
<1>3. UNCHANGED <<hash, cites, flags, lock, retired, unscanned>>
  BY DEF ScanFlags
<1>4. /\ \A p \in DOMAIN found : Drifted(p) /\ found[p] = hash[p[2]]
      /\ \A p \in Citations : p[2] \in scans[k].over /\ Drifted(p) => p \in DOMAIN found
  BY <1>1 DEF SpacedInv, ScansAreCurrent, ScanIsCurrent
<1>5. PICK s : s = IF new = {} THEN Idle
                   ELSE [at |-> "flags", over |-> scans[k].over, found |-> [p \in new |-> found[p]]]
  OBVIOUS
<1>6. scans' = [scans EXCEPT ![k] = s]
  BY <1>5 DEF ScanFlags
<1>7. scans'[k] = s
  BY <1>6 DEF SpacedInv, DriftTypeOK
<1>8. ASSUME NEW p \in Citations
      PROVE  /\ Drifted(p)' = Drifted(p)
             /\ AlreadyKnown(p, hash[p[2]])' = AlreadyKnown(p, hash[p[2]])
             /\ Accounted(p)' = Accounted(p)
  BY <1>3 DEF Drifted, AlreadyKnown, Latest, Accounted, Open
<1>9. CASE new # {}
  <2>1. /\ s.at = "flags" /\ s.over = scans[k].over /\ s # Idle
        /\ DOMAIN s.found = new
        /\ \A p \in new : s.found[p] = found[p]
    BY <1>5, <1>9 DEF Idle
  <2>2. \A p \in new : Drifted(p) /\ found[p] = hash[p[2]] /\ ~AlreadyKnown(p, hash[p[2]])
    BY <1>4
  <2>3. new \subseteq Citations
    BY <1>1, ScanPhases DEF SpacedInv, DriftTypeOK, Found
  <2>4. \A p \in Citations : p[2] \in scans[k].over /\ Drifted(p) =>
          p \in new \/ AlreadyKnown(p, hash[p[2]])
    BY <1>4
  <2>5. ScanIsCurrent(s)'
    BY <1>3, <1>8, <2>1, <2>2, <2>3, <2>4 DEF ScanIsCurrent
  <2>6. (OneAtATime /\ ScansAreCurrent)'
    BY <1>2, <1>3, <1>6, <2>5, ScanMoves
  <2>7. DriftIsAccountedFor'
    <3> SUFFICES ASSUME NEW p \in Citations, Drifted(p)', ~Owed(p[2])', ~retired'
                 PROVE  Accounted(p)'
      BY DEF DriftIsAccountedFor
    <3>1. p[2] \notin scans[k].over /\ p[2] \notin unscanned
      BY <1>3, <1>7, <2>1 DEF Owed
    <3>2. ~Owed(p[2])
      BY <1>2, <3>1, OwedByOne
    <3> QED BY <1>3, <1>8, <3>2 DEF SpacedInv, DriftIsAccountedFor
  <2> QED BY <1>3, <2>6, <2>7, ReadOnly DEF SpacedInv
<1>10. CASE new = {}
  <2>1. s = Idle
    BY <1>5, <1>10
  <2>2. ScanIsCurrent(s)'
    BY <2>1 DEF ScanIsCurrent, Idle
  <2>3. (OneAtATime /\ ScansAreCurrent)'
    BY <1>2, <1>3, <1>6, <2>2, ScanMoves
  <2>4. DriftIsAccountedFor'
    <3> SUFFICES ASSUME NEW p \in Citations, Drifted(p)', ~Owed(p[2])', ~retired'
                 PROVE  Accounted(p)'
      BY DEF DriftIsAccountedFor
    <3>1. CASE p[2] \in scans[k].over
      <4>1. p \in DOMAIN found /\ found[p] = hash[p[2]]
        BY <1>4, <1>8, <3>1
      <4>2. AlreadyKnown(p, hash[p[2]])
        BY <1>10, <4>1
      <4>3. Accounted(p)
        BY <4>2, KnownIsAccounted DEF SpacedInv
      <4> QED BY <1>8, <4>3
    <3>2. CASE p[2] \notin scans[k].over
      <4>1. ~Owed(p[2])
        BY <1>2, <1>3, <3>2, OwedByOne DEF Owed
      <4> QED BY <1>3, <1>8, <4>1 DEF SpacedInv, DriftIsAccountedFor
    <3> QED BY <3>1, <3>2
  <2> QED BY <1>3, <2>3, <2>4, ReadOnly DEF SpacedInv
<1> QED BY <1>9, <1>10

LEMMA SpacedDies ==
  ASSUME SpacedInv, DriftTypeOK', NEW k \in Scanners, ScanDies(k)
  PROVE  SpacedInv'
<1>1. lock = Free /\ \A j \in Scanners \ {k} : scans[j] = Idle
  BY Alone DEF ScanDies
<1>2. UNCHANGED <<hash, cites, flags, lock, retired>>
  BY DEF ScanDies
<1>3. ScanIsCurrent(Idle)'
  BY DEF ScanIsCurrent, Idle
<1>4. PICK s : s = Idle
  OBVIOUS
<1>5. (OneAtATime /\ ScansAreCurrent)'
  BY <1>1, <1>2, <1>3, <1>4, ScanMoves DEF ScanDies, Idle
<1>6. DriftIsAccountedFor'
  <2> SUFFICES ASSUME NEW p \in Citations, Drifted(p)', ~Owed(p[2])', ~retired'
               PROVE  Accounted(p)'
    BY DEF DriftIsAccountedFor
  <2>1. p[2] \notin unscanned /\ p[2] \notin scans[k].over
    BY DEF ScanDies, Owed
  <2>2. ~Owed(p[2])
    BY <1>1, <2>1, OwedByOne
  <2> QED BY <1>2, <2>2 DEF SpacedInv, DriftIsAccountedFor, Drifted, Accounted, Open, Latest
<1> QED BY <1>2, <1>5, <1>6, ReadOnly DEF SpacedInv

\* The rows of a citation that is flagged, and those of one that is not.
LEMMA RowsAfterInsert ==
  ASSUME SpacedInv, NEW k \in Scanners, ScanInsert(k), NEW p \in Citations
  PROVE  LET found == scans[k].found IN
         /\ p \notin DOMAIN found => flags'[p] = flags[p]
         /\ p \in DOMAIN found =>
              /\ Len(flags'[p]) = Len(flags[p]) + 1
              /\ flags'[p] # <<>>
              /\ \A i \in DOMAIN flags'[p] :
                   flags'[p][i] = IF i = Len(flags[p]) + 1
                                  THEN [current |-> found[p], status |-> "open"]
                                  ELSE flags[p][i]
              /\ Len(flags[p]) \in Nat
              /\ DOMAIN flags'[p] = 1 .. (Len(flags[p]) + 1)
              /\ DOMAIN flags[p] = 1 .. Len(flags[p])
<1>1. flags[p] \in Seq(Flag)
  BY DEF SpacedInv, DriftTypeOK
<1>2. scans[k].found \in Found
  BY ScanPhases DEF SpacedInv, DriftTypeOK, ScanInsert
<1>3. p \in DOMAIN scans[k].found => [current |-> scans[k].found[p], status |-> "open"] \in Flag
  BY <1>2 DEF Found, Flag
<1> QED BY <1>1, <1>3 DEF ScanInsert

LEMMA SpacedInsert ==
  ASSUME SpacedInv, DriftTypeOK', NEW k \in Scanners, ScanInsert(k)
  PROVE  SpacedInv'
<1> DEFINE found == scans[k].found
<1>1. scans[k] # Idle /\ scans[k].at = "flags"
  BY DEF ScanInsert, Idle
<1>2. lock = Free /\ \A j \in Scanners \ {k} : scans[j] = Idle
  BY <1>1, Alone
<1>3. UNCHANGED <<hash, cites, lock, retired, unscanned>>
  BY DEF ScanInsert
<1>4. /\ \A p \in DOMAIN found :
           Drifted(p) /\ found[p] = hash[p[2]] /\ ~AlreadyKnown(p, hash[p[2]])
      /\ \A p \in Citations : p[2] \in scans[k].over /\ Drifted(p) =>
           p \in DOMAIN found \/ AlreadyKnown(p, hash[p[2]])
  BY <1>1 DEF SpacedInv, ScansAreCurrent, ScanIsCurrent
<1>5. PICK s : s = Idle
  OBVIOUS
<1>6. ScanIsCurrent(s)'
  BY <1>5 DEF ScanIsCurrent, Idle
<1>7. (OneAtATime /\ ScansAreCurrent)'
  BY <1>2, <1>3, <1>5, <1>6, ScanMoves DEF ScanInsert, Idle
<1>8. EditIsCurrent'
  BY <1>2, <1>3 DEF EditIsCurrent, Free
<1>9. ASSUME NEW p \in Citations, p \in DOMAIN found
      PROVE  Open(p) = {} /\ Open(p)' = {Len(flags[p]) + 1}
  <2>1. flags[p] \in Seq(Flag) /\ Len(flags[p]) \in Nat
    BY DEF SpacedInv, DriftTypeOK
  <2>2. \A i \in Open(p) : i = Len(flags[p])
    BY DEF SpacedInv, OpenIsLast
  <2>3. Open(p) = {}
    <3> SUFFICES ASSUME NEW i \in Open(p) PROVE FALSE
      OBVIOUS
    <3>1. flags[p] # <<>> /\ Latest(p).status = "open"
      BY <2>1, <2>2 DEF Open, Latest
    <3> QED BY <1>4, <1>9, <3>1 DEF AlreadyKnown
  <2>4. \A i \in DOMAIN flags[p] : flags[p][i].status # "open"
    BY <2>3 DEF Open
  <2>5. /\ DOMAIN flags'[p] = 1 .. (Len(flags[p]) + 1)
        /\ DOMAIN flags[p] = 1 .. Len(flags[p])
        /\ \A i \in DOMAIN flags'[p] :
             flags'[p][i] = IF i = Len(flags[p]) + 1
                            THEN [current |-> found[p], status |-> "open"]
                            ELSE flags[p][i]
    BY <1>9, RowsAfterInsert
  <2>6. \A i \in DOMAIN flags'[p] : flags'[p][i].status = "open" <=> i = Len(flags[p]) + 1
    BY <2>1, <2>4, <2>5
  <2>7. Len(flags[p]) + 1 \in DOMAIN flags'[p]
    BY <2>1, <2>5
  <2>8. Open(p)' = {Len(flags[p]) + 1}
    BY <2>6, <2>7 DEF Open
  <2> QED BY <2>3, <2>8
<1>10. OpenIsLast'
  <2> SUFFICES ASSUME NEW p \in Citations, NEW i \in Open(p)' PROVE i = Len(flags'[p])
    BY DEF OpenIsLast
  <2>1. CASE p \in DOMAIN found
    <3>1. Open(p)' = {Len(flags[p]) + 1}
      BY <1>9, <2>1
    <3>2. Len(flags'[p]) = Len(flags[p]) + 1
      BY <2>1, RowsAfterInsert
    <3> QED BY <3>1, <3>2 DEF Open
  <2>2. CASE p \notin DOMAIN found
    <3>1. flags'[p] = flags[p]
      BY <2>2, RowsAfterInsert
    <3>2. i \in Open(p)
      BY <3>1 DEF Open
    <3> QED BY <3>1, <3>2 DEF SpacedInv, OpenIsLast
  <2> QED BY <2>1, <2>2
<1>11. OpenFlagsBite'
  <2> SUFFICES ASSUME NEW p \in Citations, NEW i \in Open(p)'
               PROVE  cites'[p] \notin {NoCite, flags'[p][i].current}
    BY DEF OpenFlagsBite
  <2>1. CASE p \in DOMAIN found
    <3>1. Open(p)' = {Len(flags[p]) + 1}
      BY <1>9, <2>1
    <3>2. i = Len(flags[p]) + 1 /\ i \in DOMAIN flags'[p]
      BY <3>1 DEF Open
    <3>3. flags'[p][i] = [current |-> found[p], status |-> "open"]
      BY <2>1, <3>2, RowsAfterInsert
    <3> QED BY <1>3, <1>4, <2>1, <3>3 DEF Drifted
  <2>2. CASE p \notin DOMAIN found
    <3>1. flags'[p] = flags[p]
      BY <2>2, RowsAfterInsert
    <3>2. i \in Open(p)
      BY <3>1 DEF Open
    <3>3. cites[p] \notin {NoCite, flags[p][i].current}
      BY <3>2 DEF SpacedInv, OpenFlagsBite
    <3> QED BY <1>3, <3>1, <3>3
  <2> QED BY <2>1, <2>2
<1>12. DriftIsAccountedFor'
  <2> SUFFICES ASSUME NEW p \in Citations, Drifted(p)', ~Owed(p[2])', ~retired'
               PROVE  Accounted(p)'
    BY DEF DriftIsAccountedFor
  <2>1. Drifted(p)
    BY <1>3 DEF Drifted
  <2>2. CASE p \in DOMAIN found
    BY <1>9, <2>2, RowsAfterInsert DEF Accounted
  <2>3. CASE p \notin DOMAIN found
    <3>1. Accounted(p)
      <4>1. CASE p[2] \in scans[k].over
        BY <1>4, <2>1, <2>3, <4>1, KnownIsAccounted DEF SpacedInv
      <4>2. CASE p[2] \notin scans[k].over
        <5>1. ~Owed(p[2])
          BY <1>2, <1>3, <4>2, OwedByOne DEF Owed
        <5> QED BY <1>3, <2>1, <5>1 DEF SpacedInv, DriftIsAccountedFor
      <4> QED BY <4>1, <4>2
    <3>2. flags'[p] = flags[p]
      BY <2>3, RowsAfterInsert
    <3> QED BY <1>3, <3>1, <3>2 DEF Accounted, Open, Latest
  <2> QED BY <2>2, <2>3
<1> QED BY <1>7, <1>8, <1>10, <1>11, <1>12 DEF SpacedInv

\* A scan that reads the document.
LEMMA SpacedRead ==
  ASSUME SpacedInv, SpacedRequests, DriftTypeOK',
         NEW k \in Scanners, CheckDrift(k) \/ ScanDocument(k)
  PROVE  SpacedInv'
<1>1. CASE CheckDrift(k)
  <2>1. lock = Free /\ \A j \in Scanners : scans[j] = Idle
    BY <1>1, NobodyUnderWay DEF CheckDrift
  <2>2. \A x \in Sources : NoneOwn[x] \in {NoCite, hash[x]}
    BY DEF NoneOwn
  <2>3. /\ scans' = [scans EXCEPT ![k] = ReadDocument(Sources, NoneOwn)]
        /\ UNCHANGED <<hash, cites, flags, lock, retired, unscanned>>
    BY <1>1 DEF CheckDrift
  <2> HIDE DEF NoneOwn
  <2> QED BY <2>1, <2>2, <2>3, ReadStep
<1>2. CASE ScanDocument(k)
  <2>1. scans[k] # Idle /\ scans[k].at = "start"
    BY <1>2 DEF ScanDocument, Idle
  <2>2. lock = Free /\ \A j \in Scanners \ {k} : scans[j] = Idle
    BY <2>1, Alone
  <2>3. scans[k].over \subseteq Sources
    BY <2>1, ScanPhases DEF SpacedInv, DriftTypeOK
  <2>4. \A x \in Sources : scans[k].own[x] \in {NoCite, hash[x]}
    BY <2>1 DEF SpacedInv, ScansAreCurrent, ScanIsCurrent
  <2>5. /\ scans' = [scans EXCEPT ![k] = ReadDocument(scans[k].over, scans[k].own)]
        /\ UNCHANGED <<hash, cites, flags, lock, retired, unscanned>>
    BY <1>2 DEF ScanDocument
  <2> QED BY <2>2, <2>3, <2>4, <2>5, ReadStep
<1> QED BY <1>1, <1>2

\* A step that writes neither hashes nor citations nor flags.
LEMMA SameRows ==
  ASSUME SpacedInv, UNCHANGED <<hash, cites, flags, scans, unscanned>>,
         retired' = retired \/ retired'
  PROVE  (OpenIsLast /\ OpenFlagsBite /\ DriftIsAccountedFor)'
<1>1. (OpenIsLast /\ OpenFlagsBite)'
  BY DEF SpacedInv, OpenIsLast, OpenFlagsBite, Open
<1>2. DriftIsAccountedFor'
  BY DEF SpacedInv, DriftIsAccountedFor, Drifted, Owed, Accounted, Open, Latest
<1> QED BY <1>1, <1>2

LEMMA SpacedBegin ==
  ASSUME SpacedInv, SpacedRequests, DriftTypeOK',
         NEW touched \in SUBSET Steps, NEW citing \in SUBSET (touched \X Sources),
         EditBegin(touched, citing)
  PROVE  SpacedInv'
<1>1. \A j \in Scanners : scans[j] = Idle
  BY NobodyUnderWay DEF EditBegin
<1>2. UNCHANGED <<hash, cites, flags, scans, retired, unscanned>>
  BY DEF EditBegin
<1>3. (OneAtATime /\ ScansAreCurrent)'
  BY <1>1, <1>2, AllIdle
<1>4. \A p \in Citations : NextCites(touched, citing)[p] \in {cites[p], hash[p[2]], NoCite}
  BY DEF NextCites
<1>5. EditIsCurrent'
  BY <1>2, <1>4 DEF EditIsCurrent, EditBegin
<1>6. (OpenIsLast /\ OpenFlagsBite /\ DriftIsAccountedFor)'
  BY <1>2, SameRows
<1> QED BY <1>3, <1>5, <1>6 DEF SpacedInv

LEMMA SpacedLock ==
  ASSUME SpacedInv, SpacedRequests, DriftTypeOK', PublishBegin \/ Unlock \/ RetireSet
  PROVE  SpacedInv'
<1>1. \A j \in Scanners : scans[j] = Idle
  BY NobodyUnderWay DEF PublishBegin, Unlock, RetireSet
<1>2. UNCHANGED <<hash, cites, flags, scans, unscanned>> /\ (retired' = retired \/ retired')
  BY DEF PublishBegin, Unlock, RetireSet
<1>3. (OneAtATime /\ ScansAreCurrent)'
  BY <1>1, <1>2, AllIdle
<1>4. lock' \in {Free, Publishing}
  BY DEF PublishBegin, Unlock, RetireSet, LockFree
<1>5. EditIsCurrent'
  BY <1>4 DEF EditIsCurrent, Free, Publishing
<1>6. (OpenIsLast /\ OpenFlagsBite /\ DriftIsAccountedFor)'
  BY <1>2, SameRows
<1> QED BY <1>3, <1>5, <1>6 DEF SpacedInv

\* Flags that are closed are no longer open; the others are what they were.
LEMMA ClosedOpen ==
  ASSUME NEW rows \in Seq(Flag), NEW which \in SUBSET DOMAIN rows,
         NEW resolution \in {"reverified", "edited"}
  PROVE  LET closed == Closed(rows, which, resolution) IN
         /\ \A i \in DOMAIN closed :
              closed[i].status = "open" <=> rows[i].status = "open" /\ i \notin which
         /\ which = {} => closed = rows
<1>1. \A i \in DOMAIN rows : rows[i] \in Flag
  OBVIOUS
<1>2. which = {} => Closed(rows, which, resolution) = rows
  BY DEF Closed
<1> QED BY <1>2, ClosedRows DEF Closed

LEMMA SpacedCommit ==
  ASSUME SpacedInv, SpacedRequests, DriftTypeOK', EditCommit
  PROVE  SpacedInv'
<1> DEFINE settled(p) == {i \in Open(p) : Settles(lock.next[p], flags[p][i])}
<1>1. \A j \in Scanners : scans[j] = Idle
  BY NobodyUnderWay DEF EditCommit, Free
<1>2. /\ UNCHANGED <<hash, scans, retired, unscanned>>
      /\ cites' = lock.next
      /\ lock' = Free
  BY DEF EditCommit
<1>3. (OneAtATime /\ ScansAreCurrent)'
  BY <1>1, <1>2, AllIdle
<1>4. EditIsCurrent'
  BY <1>2 DEF EditIsCurrent, Free
<1>5. ASSUME NEW p \in Citations
      PROVE  /\ flags[p] \in Seq(Flag)
             /\ settled(p) \in SUBSET DOMAIN flags[p]
             /\ flags'[p] = Closed(flags[p], settled(p), "edited")
  BY DEF SpacedInv, DriftTypeOK, EditCommit, Open
<1>6. ASSUME NEW p \in Citations
      PROVE  /\ Len(flags'[p]) = Len(flags[p])
             /\ DOMAIN flags'[p] = DOMAIN flags[p]
             /\ \A i \in DOMAIN flags[p] :
                  /\ flags'[p][i].current = flags[p][i].current
                  /\ flags'[p][i].status = "open" <=>
                       flags[p][i].status = "open" /\ i \notin settled(p)
             /\ settled(p) = {} => flags'[p] = flags[p]
  <2> HIDE DEF settled
  <2> QED BY <1>5, ClosedRows, ClosedOpen
<1>7. OpenIsLast'
  <2> SUFFICES ASSUME NEW p \in Citations, NEW i \in Open(p)' PROVE i = Len(flags'[p])
    BY DEF OpenIsLast
  <2>1. i \in Open(p)
    BY <1>6 DEF Open
  <2> QED BY <1>6, <2>1 DEF SpacedInv, OpenIsLast
<1>8. OpenFlagsBite'
  <2> SUFFICES ASSUME NEW p \in Citations, NEW i \in Open(p)'
               PROVE  cites'[p] \notin {NoCite, flags'[p][i].current}
    BY DEF OpenFlagsBite
  <2>1. i \in Open(p) /\ i \notin settled(p)
    BY <1>6 DEF Open
  <2>2. flags'[p][i].current = flags[p][i].current
    BY <1>6, <2>1 DEF Open
  <2> QED BY <1>2, <2>1, <2>2 DEF Settles
<1>9. DriftIsAccountedFor'
  <2> SUFFICES ASSUME NEW p \in Citations, Drifted(p)', ~Owed(p[2])', ~retired'
               PROVE  Accounted(p)'
    BY DEF DriftIsAccountedFor
  <2>1. lock.next[p] \in {cites[p], hash[p[2]], NoCite}
    BY DEF EditCommit, SpacedInv, EditIsCurrent
  <2>2. lock.next[p] = cites[p]
    BY <1>2, <2>1 DEF Drifted
  <2>3. settled(p) = {}
    BY <2>2 DEF SpacedInv, OpenFlagsBite, Settles
  <2>4. flags'[p] = flags[p]
    BY <1>6, <2>3
  <2>5. Drifted(p) /\ ~Owed(p[2]) /\ ~retired
    BY <1>2, <2>2 DEF Drifted, Owed
  <2> QED BY <1>2, <2>4, <2>5 DEF SpacedInv, DriftIsAccountedFor, Accounted, Open, Latest
<1> QED BY <1>3, <1>4, <1>7, <1>8, <1>9 DEF SpacedInv

LEMMA SpacedReverify ==
  ASSUME SpacedInv, SpacedRequests, DriftTypeOK', NEW steps \in SUBSET Steps, Reverify(steps)
  PROVE  SpacedInv'
<1> DEFINE which(p) == {i \in Open(p) : p[1] \in steps}
<1>1. /\ \A j \in Scanners : scans[j] = Idle
      /\ lock = Free
  BY NobodyUnderWay DEF Reverify
<1>2. UNCHANGED <<hash, cites, lock, scans, retired, unscanned>>
  BY DEF Reverify
<1>3. (OneAtATime /\ ScansAreCurrent)'
  BY <1>1, <1>2, AllIdle
<1>4. EditIsCurrent'
  BY <1>1, <1>2 DEF EditIsCurrent, Free
<1>5. ASSUME NEW p \in Citations
      PROVE  /\ flags[p] \in Seq(Flag)
             /\ which(p) \in SUBSET DOMAIN flags[p]
             /\ flags'[p] = Closed(flags[p], which(p), "reverified")
  BY DEF SpacedInv, DriftTypeOK, Reverify, Open
<1>6. ASSUME NEW p \in Citations
      PROVE  /\ Len(flags'[p]) = Len(flags[p])
             /\ DOMAIN flags'[p] = DOMAIN flags[p]
             /\ \A i \in DOMAIN flags[p] :
                  /\ flags'[p][i].current = flags[p][i].current
                  /\ flags'[p][i].status =
                       IF i \in which(p) THEN "reverified" ELSE flags[p][i].status
                  /\ flags'[p][i].status = "open" <=>
                       flags[p][i].status = "open" /\ i \notin which(p)
             /\ which(p) = {} => flags'[p] = flags[p]
  <2> HIDE DEF which
  <2> QED BY <1>5, ClosedRows, ClosedOpen
<1>7. OpenIsLast'
  <2> SUFFICES ASSUME NEW p \in Citations, NEW i \in Open(p)' PROVE i = Len(flags'[p])
    BY DEF OpenIsLast
  <2>1. i \in Open(p)
    BY <1>6 DEF Open
  <2> QED BY <1>6, <2>1 DEF SpacedInv, OpenIsLast
<1>8. OpenFlagsBite'
  <2> SUFFICES ASSUME NEW p \in Citations, NEW i \in Open(p)'
               PROVE  cites'[p] \notin {NoCite, flags'[p][i].current}
    BY DEF OpenFlagsBite
  <2>1. i \in Open(p)
    BY <1>6 DEF Open
  <2>2. flags'[p][i].current = flags[p][i].current
    BY <1>6, <2>1 DEF Open
  <2> QED BY <1>2, <2>1, <2>2 DEF SpacedInv, OpenFlagsBite
<1>9. DriftIsAccountedFor'
  <2> SUFFICES ASSUME NEW p \in Citations, Drifted(p)', ~Owed(p[2])', ~retired'
               PROVE  Accounted(p)'
    BY DEF DriftIsAccountedFor
  <2>1. Accounted(p)
    BY <1>2 DEF SpacedInv, DriftIsAccountedFor, Drifted, Owed
  <2>2. CASE which(p) = {}
    <3>1. flags'[p] = flags[p]
      BY <1>6, <2>2
    <3> QED BY <1>2, <2>1, <3>1 DEF Accounted, Open, Latest
  <2>3. CASE which(p) # {}
    <3>1. Len(flags[p]) \in which(p)
      BY <2>3 DEF SpacedInv, OpenIsLast
    <3>2. flags'[p][Len(flags'[p])].status = "reverified" /\ DOMAIN flags'[p] # {}
      BY <1>5, <1>6, <3>1
    <3>3. flags'[p] # <<>>
      BY <3>2
    <3> QED BY <3>2, <3>3 DEF Accounted, Latest
  <2> QED BY <2>2, <2>3
<1> QED BY <1>3, <1>4, <1>7, <1>8, <1>9 DEF SpacedInv

LEMMA SpacedStep ==
  ASSUME SpacedRequests
  PROVE  SpacedInv /\ [DriftNext]_vars => SpacedInv'
<1> SUFFICES ASSUME SpacedInv, [DriftNext]_vars PROVE SpacedInv'
  OBVIOUS
<1>1. DriftTypeOK'
  BY DriftTypeStep DEF SpacedInv
<1>2. CASE UNCHANGED vars
  <2>1. UNCHANGED <<hash, cites, flags, lock, scans, retired, unscanned>>
    BY <1>2 DEF vars
  <2>2. (OpenIsLast /\ OpenFlagsBite /\ DriftIsAccountedFor)'
    BY <2>1, SameRows
  <2>3. (OneAtATime /\ EditIsCurrent)'
    BY <2>1 DEF SpacedInv, OneAtATime, EditIsCurrent
  <2>4. ScansAreCurrent'
    BY <2>1 DEF SpacedInv, ScansAreCurrent, ScanIsCurrent, Drifted, AlreadyKnown, Latest
  <2> QED BY <1>1, <2>2, <2>3, <2>4 DEF SpacedInv
<1>3. CASE DriftNext
  BY <1>1, <1>3, SpacedRehash, SpacedRead, SpacedSources, SpacedFlags, SpacedInsert, SpacedDies,
     SpacedBegin, SpacedCommit, SpacedReverify, SpacedLock
  DEF DriftNext, ScanStep
<1> QED BY <1>2, <1>3

\* With requests spaced, a step and source have one open flag at most, as a scan
\* flags no citation whose latest flag is open; and an open flag is about a
\* citation the step still has, under another hash than the one it was flagged
\* for (scan_instruction_set, resolve_after_edit).
THEOREM OpenFlagsAreSound == SpacedRequests => (DriftSpec => []FlagsAreSound)
<1> SUFFICES ASSUME SpacedRequests PROVE DriftSpec => []FlagsAreSound
  OBVIOUS
<1>1. SpacedInv => OneOpenFlag
  BY DEF SpacedInv, OpenIsLast, OneOpenFlag
<1>2. SpacedInv => OpenFlagsBite
  BY DEF SpacedInv
<1>3. SpacedInv => FlagsAreSound
  BY <1>1, <1>2 DEF FlagsAreSound
<1> QED BY <1>3, SpacedInit, SpacedStep, PTL DEF DriftSpec

\* With requests spaced, every citation behind the registry that no scan owes a
\* look has a flag that accounts for it, through any sequence of rehashes,
\* scans, edits and re-verifications.
THEOREM DriftIsAccounted == SpacedRequests => (DriftSpec => []DriftIsAccountedFor)
<1> SUFFICES ASSUME SpacedRequests PROVE DriftSpec => []DriftIsAccountedFor
  OBVIOUS
<1>1. SpacedInv => DriftIsAccountedFor
  BY DEF SpacedInv
<1> QED BY <1>1, SpacedInit, SpacedStep, PTL DEF DriftSpec

=============================================================================
