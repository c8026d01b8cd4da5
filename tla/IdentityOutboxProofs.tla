----------------------- MODULE IdentityOutboxProofs -----------------------
(***************************************************************************)
(* Safety of the transactional outbox, for every set of events, any number *)
(* of kicks and any bound on crashes and doubtful sends: a pending row is  *)
(* always on some way to its queue, and no row is sent twice except after  *)
(* a crash or a send of unknown outcome.                                   *)
(***************************************************************************)
EXTENDS IdentityOutbox, TLAPS

KickPoints == {"idle", "sawAlarm", "sawNone", "armed"}
FlushPoints == {"none", "sending", "sent", "clearing", "sawAlarm", "sawNone", "ending"}

\* The flush holds one pending row while it sends and marks it, and none at any
\* other point.
FlushOK ==
  IF flush.pc \in {"sending", "sent"}
  THEN \E e \in Events : outbox[e] = "pending" /\ flush.row = {e}
  ELSE flush.row = {}

TypeOK ==
  /\ outbox \in [Events -> {"absent", "pending", "published"}]
  /\ alarm \in BOOLEAN
  /\ ringing \in BOOLEAN
  /\ kick \in [Kicks -> KickPoints]
  /\ flush \in [pc : FlushPoints, row : SUBSET Events]
  /\ sent \in [Events -> Nat]
  /\ doubts \in [Events -> Nat]
  /\ crashes \in Nat
  /\ orphans \subseteq Events

\* Who is on the way to the pending rows.  While a flush ends a kick would only
\* join it, so there a kick counts only if it has yet to set the alarm.
Covered ==
  \/ Pending \subseteq orphans
  \/ alarm
  \/ Flushing
  \/ \E k \in Kicks : kick[k] = "sawNone"
  \/ flush.pc = "none" /\ \E k \in Kicks : kick[k] # "idle"

\* The sends that the object or the log of doubts accounts for.
Accounted ==
  \A e \in Events :
    /\ outbox[e] = "published" \/ (flush.pc = "sent" /\ e \in flush.row) => sent[e] >= 1
    /\ sent[e] <= doubts[e] + (IF outbox[e] = "published" \/ (flush.pc = "sent" /\ e \in flush.row)
                                 THEN 1 ELSE 0)

IInv == TypeOK /\ FlushOK /\ Covered /\ Accounted

-----------------------------------------------------------------------------
(* Types, and the row a flush holds *)

LEMMA InitInv == OutboxInit => IInv
<1> SUFFICES ASSUME OutboxInit PROVE IInv
  OBVIOUS
<1>1. TypeOK
  BY DEF OutboxInit, TypeOK, KickPoints, FlushPoints, NoFlush
<1>2. FlushOK
  BY DEF OutboxInit, FlushOK, FlushPoints, NoFlush, At
<1>3. Covered
  BY DEF OutboxInit, Covered, Pending, PendingIn
<1>4. Accounted
  BY DEF OutboxInit, Accounted, NoFlush
<1> QED  BY <1>1, <1>2, <1>3, <1>4 DEF IInv

\* A send of unknown outcome keeps the counters of sends and doubts numbers.
LEMMA InDoubtTypes ==
  ASSUME TypeOK, InDoubt
  PROVE  sent' \in [Events -> Nat] /\ doubts' \in [Events -> Nat]
BY DEF TypeOK, InDoubt

LEMMA TypeStep ==
  ASSUME TypeOK, [OutboxNext]_outboxVars
  PROVE  TypeOK'
<1> USE DEF TypeOK, KickPoints, FlushPoints, At, On, NoFlush
<1>1. ASSUME NEW e \in Events, NEW k \in Kicks, Commit(e, k)
      PROVE  TypeOK'
  BY <1>1 DEF Commit, StartKick
<1>2. ASSUME NEW k \in Kicks, Request(k) \/ EnsureAlarm(k)
      PROVE  TypeOK'
  BY <1>2 DEF Request, StartKick, EnsureAlarm
<1>3. ASSUME NEW k \in Kicks, RequestFlush(k)
      PROVE  TypeOK'
  <2>1. kick' \in [Kicks -> KickPoints]
    BY <1>3 DEF RequestFlush
  <2>2. flush' \in [pc : FlushPoints, row : SUBSET Events]
    BY <1>3 DEF RequestFlush, Turn, OldestIn, PendingIn
  <2>3. alarm' \in BOOLEAN
    BY <1>3 DEF RequestFlush, Turn
  <2> QED  BY <1>3, <2>1, <2>2, <2>3 DEF RequestFlush
<1>4. CASE SendSucceeds
  BY <1>4 DEF SendSucceeds
<1>5. CASE SendFails
  BY <1>5, InDoubtTypes DEF SendFails
<1>6. CASE MarkPublished
  <2>1. outbox' \in [Events -> {"absent", "pending", "published"}]
    BY <1>6 DEF MarkPublished
  <2>2. Turn(outbox')
    BY <1>6 DEF MarkPublished
  <2>3. flush' \in [pc : FlushPoints, row : SUBSET Events]
    BY <2>2 DEF Turn, OldestIn, PendingIn
  <2>4. alarm' \in BOOLEAN
    BY <2>2 DEF Turn
  <2> QED  BY <1>6, <2>1, <2>3, <2>4 DEF MarkPublished
<1>7. CASE Recount
  <2>1. flush' \in [pc : FlushPoints, row : SUBSET Events]
    BY <1>7 DEF Recount
  <2> QED  BY <1>7, <2>1 DEF Recount
<1>8. CASE Rearm
  <2>1. flush' \in [pc : FlushPoints, row : SUBSET Events]
    BY <1>8 DEF Rearm, OldestIn, PendingIn
  <2> QED  BY <1>8, <2>1 DEF Rearm
<1>9. CASE EndFlush
  BY <1>9 DEF EndFlush
<1>10. CASE AlarmFires
  <2>1. flush' \in [pc : FlushPoints, row : SUBSET Events]
    BY <1>10 DEF AlarmFires, OldestIn, PendingIn
  <2> QED  BY <1>10, <2>1 DEF AlarmFires
<1>11. CASE Crash
  <2>1. sent' \in [Events -> Nat] /\ doubts' \in [Events -> Nat]
    BY <1>11, InDoubtTypes DEF Crash
  <2>2. flush' \in [pc : FlushPoints, row : SUBSET Events] /\ kick' \in [Kicks -> KickPoints]
    BY <1>11 DEF Crash
  <2>3. orphans' \subseteq Events
    BY <1>11 DEF Crash, Pending, PendingIn
  <2>4. alarm' \in BOOLEAN /\ ringing' \in BOOLEAN
    BY <1>11 DEF Crash
  <2>5. outbox' = outbox /\ crashes' \in Nat
    BY <1>11 DEF Crash
  <2> QED  BY <2>1, <2>2, <2>3, <2>4, <2>5
<1>12. CASE UNCHANGED outboxVars
  BY <1>12 DEF outboxVars
<1> QED
  BY <1>1, <1>2, <1>3, <1>4, <1>5, <1>6, <1>7, <1>8, <1>9, <1>10, <1>11, <1>12
  DEF OutboxNext, FlushStep

LEMMA FlushStays ==
  ASSUME TypeOK, FlushOK, [OutboxNext]_outboxVars
  PROVE  FlushOK'
<1> USE DEF At, On, NoFlush
<1>1. ASSUME NEW e \in Events, NEW k \in Kicks, Commit(e, k)
      PROVE  FlushOK'
  BY <1>1 DEF TypeOK, FlushOK, Commit
<1>2. ASSUME NEW k \in Kicks, Request(k) \/ EnsureAlarm(k)
      PROVE  FlushOK'
  BY <1>2 DEF FlushOK, Request, EnsureAlarm
<1>3. ASSUME NEW k \in Kicks, RequestFlush(k)
      PROVE  FlushOK'
  <2>1. CASE flush.pc = "none"
    BY <1>3, <2>1 DEF FlushOK, RequestFlush, Turn, OldestIn, PendingIn
  <2>2. CASE flush.pc # "none"
    BY <1>3, <2>2 DEF FlushOK, RequestFlush
  <2> QED  BY <2>1, <2>2
<1>4. CASE SendSucceeds
  BY <1>4 DEF TypeOK, FlushOK, SendSucceeds
<1>5. CASE SendFails
  BY <1>5 DEF FlushOK, SendFails
<1>6. CASE MarkPublished
  <2>1. Turn(outbox')
    BY <1>6 DEF MarkPublished
  <2> QED  BY <2>1 DEF FlushOK, Turn, OldestIn, PendingIn
<1>7. CASE Recount
  BY <1>7 DEF FlushOK, Recount
<1>8. CASE Rearm
  BY <1>8 DEF FlushOK, Rearm, OldestIn, PendingIn
<1>9. CASE EndFlush
  BY <1>9 DEF FlushOK, EndFlush
<1>10. CASE AlarmFires
  BY <1>10 DEF FlushOK, AlarmFires, OldestIn, PendingIn, Pending
<1>11. CASE Crash
  BY <1>11 DEF FlushOK, Crash
<1>12. CASE UNCHANGED outboxVars
  BY <1>12 DEF FlushOK, outboxVars
<1> QED
  BY <1>1, <1>2, <1>3, <1>4, <1>5, <1>6, <1>7, <1>8, <1>9, <1>10, <1>11, <1>12
  DEF OutboxNext, FlushStep

-----------------------------------------------------------------------------
(* A pending row is covered *)

LEMMA CoveredStep ==
  ASSUME TypeOK, FlushOK, Covered, [OutboxNext]_outboxVars
  PROVE  Covered'
<1> USE DEF At, On, NoFlush, Flushing
<1>1. ASSUME NEW e \in Events, NEW k \in Kicks, Commit(e, k)
      PROVE  Covered'
  <2>1. kick' = [kick EXCEPT ![k] = IF alarm THEN "sawAlarm" ELSE "sawNone"]
    BY <1>1 DEF Commit, StartKick
  <2>2. kick'[k] \in {"sawAlarm", "sawNone"} /\ (~alarm => kick'[k] = "sawNone")
    BY <2>1 DEF TypeOK
  <2> QED  BY <1>1, <2>2 DEF Covered, Commit
<1>2. ASSUME NEW k \in Kicks, Request(k) \/ EnsureAlarm(k)
      PROVE  Covered'
  <2>1. CASE alarm'
    BY <2>1 DEF Covered
  <2>2. CASE ~alarm'
    <3>1. alarm' = alarm /\ UNCHANGED <<outbox, orphans, flush>>
      BY <1>2, <2>2 DEF Request, EnsureAlarm, TypeOK
    <3>2. \A j \in Kicks : kick[j] # "idle" => kick'[j] # "idle"
      BY <1>2 DEF Request, StartKick, EnsureAlarm, TypeOK
    <3>3. \A j \in Kicks : kick[j] = "sawNone" => kick'[j] = "sawNone"
      BY <1>2, <2>2 DEF Request, StartKick, EnsureAlarm, TypeOK
    <3> QED  BY <2>2, <3>1, <3>2, <3>3 DEF Covered, Pending, PendingIn
  <2> QED  BY <2>1, <2>2
<1>3. ASSUME NEW k \in Kicks, RequestFlush(k)
      PROVE  Covered'
  <2>1. CASE flush.pc = "none"
    <3>1. Flushing'
      BY <1>3, <2>1 DEF RequestFlush, Turn, TypeOK
    <3> QED  BY <3>1 DEF Covered
  <2>2. CASE flush.pc # "none"
    <3>1. UNCHANGED <<outbox, orphans, flush, alarm>>
      BY <1>3, <2>2 DEF RequestFlush
    <3>2. \A j \in Kicks : kick[j] = "sawNone" => kick'[j] = "sawNone"
      BY <1>3 DEF RequestFlush, TypeOK
    <3> QED  BY <2>2, <3>1, <3>2 DEF Covered, Pending, PendingIn
  <2> QED  BY <2>1, <2>2
<1>4. CASE SendSucceeds
  BY <1>4 DEF Covered, SendSucceeds, TypeOK
<1>5. CASE SendFails
  BY <1>5 DEF Covered, SendFails
<1>6. CASE MarkPublished
  <2>1. outbox' \in [Events -> {"absent", "pending", "published"}]
    BY <1>6 DEF TypeOK, MarkPublished
  <2>2. Turn(outbox')
    BY <1>6 DEF MarkPublished
  <2>3. Flushing'
    BY <2>2 DEF Turn
  <2> QED  BY <2>3 DEF Covered
<1>7. CASE Recount
  BY <1>7 DEF Covered, Recount, Pending, PendingIn
<1>8. CASE Rearm
  BY <1>8 DEF Covered, Rearm
<1>9. CASE EndFlush
  BY <1>9 DEF Covered, EndFlush, Pending, PendingIn
<1>10. CASE AlarmFires
  BY <1>10 DEF Covered, AlarmFires, TypeOK, FlushPoints
<1>11. CASE Crash
  BY <1>11 DEF Covered, Crash, Pending, PendingIn
<1>12. CASE UNCHANGED outboxVars
  BY <1>12 DEF Covered, outboxVars, Pending, PendingIn
<1> QED
  BY <1>1, <1>2, <1>3, <1>4, <1>5, <1>6, <1>7, <1>8, <1>9, <1>10, <1>11, <1>12
  DEF OutboxNext, FlushStep

-----------------------------------------------------------------------------
(* A row is sent once *)

\* A doubtful send adds one to both counters of the row it was sending.
LEMMA InDoubtAccounted ==
  ASSUME TypeOK, Accounted, InDoubt, flush.pc = "sending", NEW e \in Events
  PROVE  /\ sent'[e] >= sent[e]
         /\ outbox[e] = "published" => sent'[e] >= 1
         /\ sent'[e] <= doubts'[e] + (IF outbox[e] = "published" THEN 1 ELSE 0)
<1>1. /\ sent[e] \in Nat /\ doubts[e] \in Nat
      /\ sent'[e] = IF e \in flush.row THEN sent[e] + 1 ELSE sent[e]
      /\ doubts'[e] = IF e \in flush.row THEN doubts[e] + 1 ELSE doubts[e]
  BY DEF TypeOK, InDoubt
<1>2. /\ outbox[e] = "published" => sent[e] >= 1
      /\ sent[e] <= doubts[e] + (IF outbox[e] = "published" THEN 1 ELSE 0)
  BY DEF Accounted
<1> QED  BY <1>1, <1>2

LEMMA AccountedStep ==
  ASSUME TypeOK, FlushOK, Accounted, [OutboxNext]_outboxVars
  PROVE  Accounted'
<1> USE DEF At, On, NoFlush
<1>1. ASSUME NEW e \in Events, NEW k \in Kicks, Commit(e, k)
      PROVE  Accounted'
  BY <1>1 DEF Accounted, Commit, TypeOK
<1>2. ASSUME NEW k \in Kicks, Request(k) \/ EnsureAlarm(k)
      PROVE  Accounted'
  BY <1>2 DEF Accounted, Request, EnsureAlarm
<1>3. ASSUME NEW k \in Kicks, RequestFlush(k)
      PROVE  Accounted'
  <2>1. UNCHANGED <<outbox, sent, doubts>> /\ (flush' = flush \/ flush.pc = "none")
    BY <1>3 DEF RequestFlush
  <2>2. flush.pc = "none" => flush'.pc # "sent"
    BY <1>3 DEF RequestFlush, Turn, TypeOK
  <2> QED  BY <2>1, <2>2 DEF Accounted, TypeOK
<1>4. CASE SendSucceeds
  <2> SUFFICES ASSUME NEW e \in Events
               PROVE  /\ outbox'[e] = "published" \/ (flush'.pc = "sent" /\ e \in flush'.row)
                         => sent'[e] >= 1
                      /\ sent'[e] <= doubts'[e] +
                           (IF outbox'[e] = "published" \/ (flush'.pc = "sent" /\ e \in flush'.row)
                              THEN 1 ELSE 0)
    BY DEF Accounted
  <2>1. /\ flush.pc = "sending" /\ flush'.pc = "sent" /\ flush'.row = flush.row
        /\ UNCHANGED <<outbox, doubts>>
        /\ sent'[e] = IF e \in flush.row THEN sent[e] + 1 ELSE sent[e]
    BY <1>4 DEF SendSucceeds, TypeOK
  <2>2. e \in flush.row => outbox[e] = "pending"
    BY <2>1 DEF FlushOK
  <2>3. sent[e] \in Nat /\ doubts[e] \in Nat
    BY DEF TypeOK
  <2>4. /\ outbox[e] = "published" => sent[e] >= 1
        /\ sent[e] <= doubts[e] + (IF outbox[e] = "published" THEN 1 ELSE 0)
    BY <2>1 DEF Accounted
  <2> QED  BY <2>1, <2>2, <2>3, <2>4
<1>5. CASE SendFails
  <2>1. flush.pc = "sending" /\ flush'.pc = "ending" /\ UNCHANGED outbox
    BY <1>5 DEF SendFails
  <2>2. CASE InDoubt
    BY <2>1, <2>2, InDoubtAccounted DEF Accounted
  <2>3. CASE UNCHANGED <<sent, doubts>>
    BY <2>1, <2>3 DEF Accounted
  <2> QED  BY <1>5, <2>2, <2>3 DEF SendFails
<1>6. CASE MarkPublished
  <2>1. outbox' \in [Events -> {"absent", "pending", "published"}]
    BY <1>6 DEF TypeOK, MarkPublished
  <2>2. Turn(outbox')
    BY <1>6 DEF MarkPublished
  <2>3. flush'.pc # "sent"
    BY <2>2 DEF Turn
  <2>4. /\ flush.pc = "sent" /\ UNCHANGED <<sent, doubts>>
        /\ \A e \in Events : outbox'[e] = IF e \in flush.row THEN "published" ELSE outbox[e]
    BY <1>6 DEF MarkPublished
  <2> QED  BY <2>3, <2>4 DEF Accounted
<1>7. CASE Recount
  BY <1>7 DEF Accounted, Recount
<1>8. CASE Rearm
  BY <1>8 DEF Accounted, Rearm
<1>9. CASE EndFlush
  BY <1>9 DEF Accounted, EndFlush
<1>10. CASE AlarmFires
  <2>1. UNCHANGED <<outbox, sent, doubts>> /\ (flush' = flush \/ flush.pc = "none")
    BY <1>10 DEF AlarmFires
  <2>2. flush.pc = "none" => flush'.pc # "sent"
    BY <1>10 DEF AlarmFires
  <2> QED  BY <2>1, <2>2 DEF Accounted
<1>11. CASE Crash
  <2>1. flush'.pc = "none" /\ UNCHANGED outbox
    BY <1>11 DEF Crash
  <2>2. CASE flush.pc = "sending" /\ InDoubt
    BY <2>1, <2>2, InDoubtAccounted DEF Accounted
  <2>3. CASE flush.pc = "sent"
    <3> SUFFICES ASSUME NEW e \in Events
                 PROVE  /\ outbox[e] = "published" => sent'[e] >= 1
                        /\ sent'[e] <= doubts'[e] + (IF outbox[e] = "published" THEN 1 ELSE 0)
      BY <2>1 DEF Accounted
    <3>1. /\ sent' = sent
          /\ doubts'[e] = IF e \in flush.row THEN doubts[e] + 1 ELSE doubts[e]
      BY <1>11, <2>3 DEF Crash
    <3>2. e \in flush.row => outbox[e] # "published"
      BY <2>3 DEF FlushOK
    <3>3. sent[e] \in Nat /\ doubts[e] \in Nat
      BY DEF TypeOK
    <3> QED  BY <2>3, <3>1, <3>2, <3>3 DEF Accounted
  <2>4. CASE flush.pc # "sent" /\ UNCHANGED <<sent, doubts>>
    BY <2>1, <2>4 DEF Accounted
  <2> QED  BY <1>11, <2>2, <2>3, <2>4 DEF Crash
<1>12. CASE UNCHANGED outboxVars
  BY <1>12 DEF Accounted, outboxVars
<1> QED
  BY <1>1, <1>2, <1>3, <1>4, <1>5, <1>6, <1>7, <1>8, <1>9, <1>10, <1>11, <1>12
  DEF OutboxNext, FlushStep

-----------------------------------------------------------------------------
(* The theorems *)

LEMMA InvStep == IInv /\ [OutboxNext]_outboxVars => IInv'
BY TypeStep, FlushStays, CoveredStep, AccountedStep DEF IInv

\* The inductive invariant of the outbox: where kicks, flush and alarm are, and
\* which sends the object accounts for.
THEOREM InvHolds == OutboxSpec => []IInv
BY InitInv, InvStep, PTL DEF OutboxSpec

\* A committed row is never stranded without a crash: at every step of the race
\* between commits, deleteAlarm, the second count and the end of a flush, an
\* alarm, the loop or a kick is on its way to it.
THEOREM RowsAreCovered == OutboxSpec => []PendingIsCovered
<1>1. IInv => PendingIsCovered
  BY DEF IInv, Covered, PendingIsCovered
<1> QED  BY <1>1, InvHolds, PTL

\* A row marked as published has been put on its queue, and every further copy
\* on the queue is explained by a send of unknown outcome or a crash.
THEOREM RowsAreSentOnce == OutboxSpec => []SentOnceUnlessInDoubt
<1>1. IInv => SentOnceUnlessInDoubt
  BY DEF IInv, Accounted, SentOnceUnlessInDoubt
<1> QED  BY <1>1, InvHolds, PTL
=============================================================================
