------------------------- MODULE SceneMemory_proofs -------------------------
(***************************************************************************)
(* Theorems about the scene memory's pipeline, for any captures, speech    *)
(* and revisions and any of its limits.                                    *)
(*                                                                         *)
(* The inductive invariant adds to the properties: the committed versions  *)
(* of the packets are the projections (Told), the packet of a capture that *)
(* is being interpreted is its newest and not committed yet (Open), and    *)
(* the current state is of a capture that was accepted (StateOfStored).    *)
(* For the speech that is kept, SpeechHolds adds that a speech note is of  *)
(* one utterance and of a capture that came after it (SpeechRests).        *)
(***************************************************************************)
EXTENDS SceneMemory, TLAPS

Reducing == [batch : SUBSET Capture, stage : {"idle", "context", "model"}, fresh : BOOLEAN]
With(cap, status) == { c \in Capture : cap[c].status = status }

Fresh(p) == p # << >> /\ ~ p[Len(p)].committed

\* Packets grow: what is there stays, what is added is not committed.
Grows(p, q) ==
    /\ Len(p) <= Len(q)
    /\ \A i \in 1 .. Len(p) : q[i] = p[i]
    /\ \A i \in Len(p) + 1 .. Len(q) : ~ q[i].committed

Told ==
    /\ \A p \in projections : p[2] \in Committed(packets, p[1])
    /\ \A c \in Capture : \A v \in Committed(packets, c) : << c, v >> \in projections
Open == \A c \in reducing.batch : Fresh(packets[c])
StateOfStored == current.packet # 0 => captures[current.packet].status # "absent"

\* What pump() and the calls it starts work on.
Machine ==
    /\ captures \in [Capture -> CaptureRow] /\ packets \in [Capture -> Seq(Packet)]
    /\ observing \subseteq Capture /\ readySince \subseteq Capture /\ reducing \in Reducing
    /\ indexing \subseteq Note /\ calls \in 0 .. MaxCalls
    /\ WorkHasWorker /\ Open

Inv ==
    /\ TypeOK /\ Machine /\ Told /\ StateOfStored
    /\ IndexMatchesNotes /\ LiveNotesAreCurrent /\ ProjectionsAreCurrent

\* Captures stay accepted, packets only grow.
Kept == \A c \in Capture : captures[c].status # "absent" => captures'[c].status # "absent"
Grown == \A c \in Capture : Grows(packets[c], packets'[c])

-----------------------------------------------------------------------------
(* Helpers *)

\* The speech of a window is speech that was posted.
LEMMA SignatureType ==
    ASSUME NEW h \in SUBSET Speech, NEW c \in Capture
    PROVE  Signature(h, c) \subseteq Finals(h) /\ Finals(h) \subseteq Ref
BY DEF Signature, Finals, Ref

\* A packet is used again or a new one is added; it is the newest and not committed.
LEMMA WithPacketGrows ==
    ASSUME NEW h \in SUBSET Speech, NEW pk \in [Capture -> Seq(Packet)], NEW c \in Capture
    PROVE  /\ WithPacket(pk, h, c) \in Seq(Packet)
           /\ Grows(pk[c], WithPacket(pk, h, c))
           /\ Fresh(WithPacket(pk, h, c))
<1> DEFINE new == [audio |-> Signature(h, c), committed |-> FALSE]
<1>1. new \in Packet
  BY SignatureType DEF Packet
<1>2. pk[c] \in Seq(Packet)
  OBVIOUS
<1>3. CASE pk[c] # << >> /\ ~ Last(pk, c).committed /\ Last(pk, c).audio = Signature(h, c)
  <2>1. WithPacket(pk, h, c) = pk[c]
    BY <1>3 DEF WithPacket
  <2> QED
    BY <1>2, <1>3, <2>1 DEF Grows, Fresh, Last
<1>4. CASE ~ (pk[c] # << >> /\ ~ Last(pk, c).committed /\ Last(pk, c).audio = Signature(h, c))
  <2>1. WithPacket(pk, h, c) = Append(pk[c], new)
    BY <1>4 DEF WithPacket
  <2>2. /\ Append(pk[c], new) \in Seq(Packet) /\ Len(Append(pk[c], new)) = Len(pk[c]) + 1
        /\ \A i \in 1 .. Len(pk[c]) : Append(pk[c], new)[i] = pk[c][i]
        /\ Append(pk[c], new)[Len(pk[c]) + 1] = new
        /\ Len(pk[c]) \in Nat
    BY <1>1, <1>2
  <2> QED
    BY <2>1, <2>2 DEF Grows, Fresh
<1> QED
  BY <1>3, <1>4

\* Growing leaves what is committed.
LEMMA GrowsCommitted ==
    ASSUME NEW pk \in [Capture -> Seq(Packet)], NEW qk \in [Capture -> Seq(Packet)],
           NEW c \in Capture, Grows(pk[c], qk[c])
    PROVE  /\ Committed(qk, c) = Committed(pk, c)
           /\ \A v \in Committed(pk, c) : qk[c][v] = pk[c][v]
<1>1. pk[c] \in Seq(Packet) /\ qk[c] \in Seq(Packet) /\ Len(pk[c]) \in Nat /\ Len(qk[c]) \in Nat
  OBVIOUS
<1> QED
  BY <1>1 DEF Grows, Committed

\* What pump() does: it moves captures on and adds packets for the ones it interprets.
LEMMA PumpFacts ==
    ASSUME NEW cap \in [Capture -> CaptureRow], NEW pk \in [Capture -> Seq(Packet)],
           NEW h \in SUBSET Speech, NEW obs \in SUBSET Capture, NEW red \in Reducing,
           NEW rs \in SUBSET Capture, NEW ob \in SUBSET Note, NEW free,
           calls \in 0 .. MaxCalls, indexing \subseteq Note,
           Pump(cap, pk, h, obs, red, rs, ob, free)
    PROVE  /\ captures' \in [Capture -> CaptureRow] /\ packets' \in [Capture -> Seq(Packet)]
           /\ observing' \subseteq Capture /\ reducing' \in Reducing /\ readySince' \subseteq Capture
           /\ indexing' \subseteq Note /\ calls' \in 0 .. MaxCalls
           /\ \A c \in Capture : Grows(pk[c], packets'[c])
           /\ \A c \in Capture : cap[c].status # "absent" => captures'[c].status # "absent"
           /\ obs = With(cap, "observing") /\ red.batch = With(cap, "reducing")
                 => observing' = With(captures', "observing") /\ reducing'.batch = With(captures', "reducing")
           /\ (\A c \in red.batch : Fresh(pk[c])) => \A c \in reducing'.batch : Fresh(packets'[c])
<1>1. PICK see \in SUBSET Capture, batch \in SUBSET Capture :
        /\ \A c \in see : cap[c].status = "queued"
        /\ \A c \in batch : cap[c].status = "ready"
        /\ batch # {} => red.batch = {}
        /\ observing' = obs \cup see
        /\ captures' = [c \in Capture |-> [cap[c] EXCEPT !.status =
               IF c \in see THEN "observing" ELSE IF c \in batch THEN "reducing" ELSE @]]
        /\ packets' = [c \in Capture |-> IF c \in batch THEN WithPacket(pk, h, c) ELSE pk[c]]
        /\ reducing' = IF batch = {} THEN red
                       ELSE [batch |-> batch, stage |-> "context", fresh |-> TRUE]
        /\ readySince' = rs \ batch
  <2> DEFINE see == ToObserve(cap, obs)
             batch(wait) == IF red = Idle /\ ~ wait THEN ToReduce(cap, pk) ELSE {}
  <2>1. PICK wait \in BOOLEAN :
        /\ observing' = obs \cup see
        /\ captures' = [c \in Capture |-> [cap[c] EXCEPT !.status =
               IF c \in see THEN "observing" ELSE IF c \in batch(wait) THEN "reducing" ELSE @]]
        /\ packets' = [c \in Capture |-> IF c \in batch(wait) THEN WithPacket(pk, h, c) ELSE pk[c]]
        /\ reducing' = IF batch(wait) = {} THEN red
                       ELSE [batch |-> batch(wait), stage |-> "context", fresh |-> TRUE]
        /\ readySince' = rs \ batch(wait)
    BY ZenonT(60) DEF Pump
  <2>2. see \in SUBSET Capture /\ \A c \in see : cap[c].status = "queued"
    BY DEF ToObserve, Queued
  <2>3. /\ batch(wait) \in SUBSET Capture /\ \A c \in batch(wait) : cap[c].status = "ready"
        /\ batch(wait) # {} => red.batch = {}
    <3>1. \A c \in ToReduce(cap, pk) : c \in Pending(cap) /\ cap[c].status = "ready"
      <4>1. \A c \in Capture : c <= c
        BY SceneAssumption
      <4> QED
        BY <4>1 DEF ToReduce, Pending
    <3>2. batch(wait) \subseteq ToReduce(cap, pk) /\ (batch(wait) # {} => red = Idle)
      OBVIOUS
    <3> HIDE DEF batch
    <3> QED
      BY <3>1, <3>2 DEF Pending, Idle
  <2> HIDE DEF see, batch
  <2> QED
    BY <2>1, <2>2, <2>3
<1>4. /\ captures' = [c \in Capture |-> [cap[c] EXCEPT !.status =
             IF c \in see THEN "observing" ELSE IF c \in batch THEN "reducing" ELSE @]]
      /\ packets' = [c \in Capture |-> IF c \in batch THEN WithPacket(pk, h, c) ELSE pk[c]]
      /\ reducing' = IF batch = {} THEN red
                     ELSE [batch |-> batch, stage |-> "context", fresh |-> TRUE]
      /\ observing' = obs \cup see /\ readySince' = rs \ batch
  BY <1>1
<1>5. captures' \in [Capture -> CaptureRow]
  BY <1>4 DEF CaptureRow, Working
<1>6. packets' \in [Capture -> Seq(Packet)] /\ \A c \in Capture : Grows(pk[c], packets'[c])
  <2>1. \A c \in Capture : Grows(pk[c], pk[c])
    BY DEF Grows
  <2> QED
    BY <1>4, <2>1, WithPacketGrows
<1>7. reducing' \in Reducing /\ observing' \subseteq Capture /\ readySince' \subseteq Capture
  BY <1>1 DEF Reducing
<1>8. indexing' \subseteq Note /\ calls' \in 0 .. MaxCalls
  <2>1. \/ indexing' = ob /\ calls < MaxCalls /\ calls' = calls + 1
        \/ indexing' \in {{}, indexing} /\ calls' = calls
    BY DEF Pump
  <2> QED
    BY <2>1, SceneAssumption
<1>9. \A c \in Capture : cap[c].status # "absent" => captures'[c].status # "absent"
  BY <1>4 DEF CaptureRow
<1>10. ASSUME obs = With(cap, "observing"), red.batch = With(cap, "reducing")
       PROVE  observing' = With(captures', "observing") /\ reducing'.batch = With(captures', "reducing")
  <2>1. \A c \in Capture : captures'[c].status = IF c \in see THEN "observing"
                                                 ELSE IF c \in batch THEN "reducing" ELSE cap[c].status
    BY <1>4 DEF CaptureRow
  <2>2. reducing'.batch = IF batch = {} THEN red.batch ELSE batch
    BY <1>4
  <2> QED
    BY <1>1, <1>10, <2>1, <2>2 DEF With
<1>11. ASSUME \A c \in red.batch : Fresh(pk[c]), NEW c \in reducing'.batch PROVE Fresh(packets'[c])
  <2>1. CASE batch = {}
    BY <1>4, <1>11, <2>1 DEF Reducing
  <2>2. CASE batch # {}
    BY <1>1, <1>11, <2>2, WithPacketGrows
  <2> QED
    BY <2>1, <2>2
<1> QED
  BY <1>5, <1>6, <1>7, <1>8, <1>9, <1>10, <1>11

-----------------------------------------------------------------------------
(* What every step does to the machine *)

\* A handler that ends with pump() and hands it a queue in which nothing is lost.
LEMMA Pumped ==
    ASSUME Machine, NEW cap \in [Capture -> CaptureRow], NEW h \in SUBSET Speech,
           NEW obs \in SUBSET Capture, NEW red \in Reducing, NEW rs \in SUBSET Capture,
           NEW ob \in SUBSET Note, NEW free,
           Pump(cap, packets, h, obs, red, rs, ob, free),
           obs = With(cap, "observing"), red.batch = With(cap, "reducing"),
           red.batch \subseteq reducing.batch,
           \A c \in Capture : captures[c].status # "absent" => cap[c].status # "absent"
    PROVE  Machine' /\ Kept /\ Grown
<1>1. packets \in [Capture -> Seq(Packet)] /\ calls \in 0 .. MaxCalls /\ indexing \subseteq Note
      /\ \A c \in red.batch : Fresh(packets[c])
  BY DEF Machine, Open
<1>2. /\ captures' \in [Capture -> CaptureRow] /\ packets' \in [Capture -> Seq(Packet)]
      /\ observing' \subseteq Capture /\ reducing' \in Reducing /\ readySince' \subseteq Capture
      /\ indexing' \subseteq Note /\ calls' \in 0 .. MaxCalls
      /\ \A c \in Capture : Grows(packets[c], packets'[c])
      /\ \A c \in Capture : cap[c].status # "absent" => captures'[c].status # "absent"
      /\ observing' = With(captures', "observing") /\ reducing'.batch = With(captures', "reducing")
      /\ \A c \in reducing'.batch : Fresh(packets'[c])
  BY <1>1, PumpFacts
<1> QED
  BY <1>2 DEF Machine, WorkHasWorker, Open, Kept, Grown, With

\* The same for the steps that do not call it.
LEMMA Unmoved ==
    ASSUME Machine, UNCHANGED << captures, packets, observing, reducing, readySince, calls >>,
           indexing' \subseteq Note
    PROVE  Machine' /\ Kept /\ Grown
BY DEF Machine, WorkHasWorker, Open, Kept, Grown, Grows

\* A batch that is given up.
LEMMA Released ==
    ASSUME Machine, NEW status \in {"ready", "failed"}, NEW single \in BOOLEAN,
           Release(status, single), readySince' \subseteq Capture
    PROVE  Machine' /\ Kept /\ Grown
<1>1. ASSUME NEW c \in Capture
      PROVE  captures'[c] \in CaptureRow
             /\ captures'[c].status = IF c \in reducing.batch THEN status ELSE captures[c].status
  <2> DEFINE again == captures[c].single \/ single
  <2>1. captures[c] \in CaptureRow /\ again \in BOOLEAN
    BY DEF Machine, CaptureRow
  <2>2. captures'[c] = IF c \in reducing.batch
                       THEN [captures[c] EXCEPT !.status = status, !.single = again] ELSE captures[c]
    BY DEF Release
  <2> HIDE DEF again
  <2> QED
    BY <2>1, <2>2 DEF CaptureRow, Working
<1>2. captures' \in [Capture -> CaptureRow]
  BY <1>1 DEF Release
<1>3. \A c \in Capture : captures'[c].status = IF c \in reducing.batch THEN status ELSE captures[c].status
  BY <1>1
<1>4. WorkHasWorker'
  <2>1. observing' = observing /\ reducing'.batch = {}
    BY DEF Release, Idle
  <2>2. \A c \in Capture : /\ c \in observing <=> captures[c].status = "observing"
                           /\ c \in reducing.batch <=> captures[c].status = "reducing"
    BY DEF Machine, WorkHasWorker
  <2>3. \A c \in Capture : captures'[c].status # "reducing"
    BY <1>3, <2>2
  <2>4. \A c \in Capture : c \in observing <=> captures'[c].status = "observing"
    BY <1>3, <2>2
  <2>5. observing' \subseteq Capture
    BY <2>1 DEF Machine
  <2>6. {} = { c \in Capture : captures'[c].status = "reducing" }
    BY <2>3
  <2>7. observing' = { c \in Capture : captures'[c].status = "observing" }
    BY <2>1, <2>4, <2>5
  <2> QED
    BY <2>1, <2>6, <2>7 DEF WorkHasWorker
<1>5. /\ reducing' = Idle /\ Idle \in Reducing /\ Idle.batch = {}
      /\ packets' = packets /\ observing' = observing /\ indexing' = indexing /\ calls' = calls
  BY DEF Release, Idle, Reducing, ledger
<1>6. Machine'
  BY <1>2, <1>4, <1>5 DEF Machine, Open
<1>7. Kept
  BY <1>3 DEF Kept
<1>8. Grown
  BY <1>5 DEF Machine, Grown, Grows
<1> QED
  BY <1>6, <1>7, <1>8

\* Commit changes the packets in one bit: the newest version of each is committed.
Committing ==
    /\ \A c \in reducing.batch : packets'[c] = [packets[c] EXCEPT ![Len(packets[c])].committed = TRUE]
    /\ \A c \in Capture \ reducing.batch : packets'[c] = packets[c]

LEMMA CommitMachine ==
    ASSUME Machine, Commit
    PROVE  Machine' /\ Kept /\ Committing
<1>1. /\ packets' = [c \in Capture |->
             IF c \in reducing.batch THEN [packets[c] EXCEPT ![Len(packets[c])].committed = TRUE]
             ELSE packets[c]]
      /\ captures' = [c \in Capture |->
             IF c \in reducing.batch THEN [captures[c] EXCEPT !.status = "committed"]
             ELSE captures[c]]
      /\ reducing' = Idle
      /\ observing' = observing /\ readySince' = readySince /\ indexing' = indexing /\ calls' = calls
  BY DEF Commit, budget
<1>2. ASSUME NEW c \in Capture
      PROVE  captures'[c] \in CaptureRow
             /\ captures'[c].status = IF c \in reducing.batch THEN "committed" ELSE captures[c].status
  <2>1. captures[c] \in CaptureRow
    BY DEF Machine
  <2> QED
    BY <1>1, <2>1 DEF CaptureRow, Working
<1>3. captures' \in [Capture -> CaptureRow]
  BY <1>1, <1>2
<1>4. ASSUME NEW c \in Capture PROVE packets'[c] \in Seq(Packet)
  <2>1. packets[c] \in Seq(Packet) /\ Len(packets[c]) \in Nat
    BY DEF Machine
  <2>2. CASE c \in reducing.batch
    <3>1. packets[c] # << >>
      BY <2>2 DEF Machine, Open, Fresh
    <3>2. /\ Len(packets[c]) \in 1 .. Len(packets[c]) /\ packets[c][Len(packets[c])] \in Packet
          /\ \A i \in 1 .. Len(packets[c]) : packets[c][i] \in Packet
      BY <2>1, <3>1
    <3> DEFINE told == [packets[c][Len(packets[c])] EXCEPT !.committed = TRUE]
    <3>3. told \in Packet
      BY <3>2 DEF Packet
    <3>4. packets'[c] = [packets[c] EXCEPT ![Len(packets[c])] = told]
      BY <1>1, <2>2
    <3> HIDE DEF told
    <3> QED
      BY <2>1, <3>2, <3>3, <3>4
  <2>3. CASE c \notin reducing.batch
    BY <1>1, <2>1, <2>3
  <2> QED
    BY <2>2, <2>3
<1>5. WorkHasWorker'
  <2>1. \A c \in Capture : /\ c \in observing <=> captures[c].status = "observing"
                           /\ c \in reducing.batch <=> captures[c].status = "reducing"
    BY DEF Machine, WorkHasWorker
  <2>2. \A c \in Capture : captures'[c].status # "reducing"
    BY <1>2, <2>1
  <2>3. \A c \in Capture : c \in observing <=> captures'[c].status = "observing"
    BY <1>2, <2>1
  <2>4. observing' \subseteq Capture /\ observing' = observing
    BY <1>1 DEF Machine
  <2>5. {} = { c \in Capture : captures'[c].status = "reducing" }
    BY <2>2
  <2>6. observing' = { c \in Capture : captures'[c].status = "observing" }
    BY <2>3, <2>4
  <2> QED
    BY <1>1, <2>5, <2>6 DEF WorkHasWorker, Idle
<1>6. Idle \in Reducing /\ Idle.batch = {}
  BY DEF Idle, Reducing
<1>7. packets' \in [Capture -> Seq(Packet)]
  BY <1>1, <1>4
<1>8. Machine'
  BY <1>1, <1>3, <1>5, <1>6, <1>7 DEF Machine, Open
<1>9. Kept
  BY <1>2 DEF Kept
<1>10. Committing
  BY <1>1 DEF Committing, Machine, Reducing
<1> QED
  BY <1>8, <1>9, <1>10

\* Taking captures that are not being processed up again keeps the others where they are.
LEMMA Requeued ==
    ASSUME Machine, NEW cap \in [Capture -> CaptureRow],
           \A c \in Capture : cap[c] = captures[c]
               \/ (captures[c].status \notin {"observing", "reducing"}
                   /\ cap[c].status \in {"queued", "ready"})
    PROVE  /\ observing = With(cap, "observing") /\ reducing.batch = With(cap, "reducing")
           /\ \A c \in Capture : captures[c].status # "absent" => cap[c].status # "absent"
<1>1. \A c \in Capture : /\ c \in observing <=> captures[c].status = "observing"
                         /\ c \in reducing.batch <=> captures[c].status = "reducing"
  BY DEF Machine, WorkHasWorker
<1>2. observing \subseteq Capture /\ reducing.batch \subseteq Capture
  BY DEF Machine, Reducing
<1>3. \A c \in Capture : /\ c \in observing <=> cap[c].status = "observing"
                         /\ c \in reducing.batch <=> cap[c].status = "reducing"
  BY <1>1
<1> QED
  BY <1>2, <1>3 DEF With

LEMMA ReopenedRow ==
    ASSUME NEW row \in CaptureRow
    PROVE  Reopened(row) \in CaptureRow /\ Reopened(row).status \in {"ready", "queued"}
BY DEF Reopened, CaptureRow, Working

LEMMA EndUploadMachine ==
    ASSUME TypeOK, Machine, NEW c \in Capture, EndUpload(c)
    PROVE  Machine' /\ Kept /\ Grown
<1> DEFINE cap == IF captures[c].status = "absent" THEN [captures EXCEPT ![c].status = "queued"] ELSE captures
<1>1. captures \in [Capture -> CaptureRow] /\ observing \in SUBSET Capture /\ reducing \in Reducing
      /\ readySince \in SUBSET Capture /\ outbox \in SUBSET Note /\ transcripts \in SUBSET Speech
  BY DEF Machine, TypeOK
<1>2. Pump(cap, packets, transcripts, observing, reducing, readySince, outbox, IndexFree)
  BY DEF EndUpload
<1>3. cap \in [Capture -> CaptureRow]
  BY <1>1 DEF CaptureRow, Working
<1>4. \A d \in Capture : cap[d] = captures[d]
          \/ (captures[d].status \notin {"observing", "reducing"} /\ cap[d].status \in {"queued", "ready"})
  BY <1>1 DEF CaptureRow
<1> HIDE DEF cap
<1>5. /\ observing = With(cap, "observing") /\ reducing.batch = With(cap, "reducing")
      /\ \A d \in Capture : captures[d].status # "absent" => cap[d].status # "absent"
  BY <1>3, <1>4, Requeued
<1> QED
  BY <1>1, <1>2, <1>3, <1>5, Pumped

LEMMA RetryMachine ==
    ASSUME TypeOK, Machine, NEW c \in Capture, Retry(c)
    PROVE  Machine' /\ Kept /\ Grown
<1> DEFINE cap == [captures EXCEPT ![c] = Reopened(captures[c])]
<1>1. captures \in [Capture -> CaptureRow] /\ observing \in SUBSET Capture /\ reducing \in Reducing
      /\ readySince \in SUBSET Capture /\ outbox \in SUBSET Note /\ transcripts \in SUBSET Speech
  BY DEF Machine, TypeOK
<1>2. Pump(cap, packets, transcripts, observing, reducing, readySince, outbox, IndexFree)
  BY DEF Retry
<1>3. captures[c].status \notin {"observing", "reducing"}
  BY DEF Retry, Machine, WorkHasWorker
<1>4. cap \in [Capture -> CaptureRow] /\ cap[c].status \in {"ready", "queued"}
  BY <1>1, ReopenedRow
<1>5. \A d \in Capture : cap[d] = captures[d]
          \/ (captures[d].status \notin {"observing", "reducing"} /\ cap[d].status \in {"queued", "ready"})
  <2>1. \A d \in Capture \ {c} : cap[d] = captures[d]
    BY <1>1
  <2> QED
    BY <1>3, <1>4, <2>1
<1> HIDE DEF cap
<1>6. /\ observing = With(cap, "observing") /\ reducing.batch = With(cap, "reducing")
      /\ \A d \in Capture : captures[d].status # "absent" => cap[d].status # "absent"
  BY <1>4, <1>5, Requeued
<1> QED
  BY <1>1, <1>2, <1>4, <1>6, Pumped

LEMMA RestartMachine ==
    ASSUME TypeOK, Machine, Restart
    PROVE  Machine' /\ Kept /\ Grown
<1> DEFINE cap == [c \in Capture |-> IF captures[c].status \in {"observing", "reducing"}
                                    THEN Reopened(captures[c]) ELSE captures[c]]
<1>1. captures \in [Capture -> CaptureRow] /\ outbox \in SUBSET Note /\ transcripts \in SUBSET Speech
      /\ Idle \in Reducing /\ Idle.batch = {}
  BY DEF Machine, TypeOK, Idle, Reducing
<1>2. Pump(cap, packets, transcripts, {}, Idle, {}, outbox, TRUE)
  BY DEF Restart
<1>3. ASSUME NEW c \in Capture
      PROVE  /\ cap[c] \in CaptureRow /\ cap[c].status \notin {"observing", "reducing"}
             /\ captures[c].status # "absent" => cap[c].status # "absent"
  <2>1. captures[c] \in CaptureRow
    BY <1>1
  <2>2. Reopened(captures[c]) \in CaptureRow /\ Reopened(captures[c]).status \in {"ready", "queued"}
    BY <2>1, ReopenedRow
  <2> QED
    BY <2>1, <2>2
<1>4. cap \in [Capture -> CaptureRow]
  BY <1>3
<1> HIDE DEF cap
<1>5. {} = With(cap, "observing") /\ Idle.batch = With(cap, "reducing")
  BY <1>1, <1>3 DEF With
<1> QED
  BY <1>1, <1>2, <1>3, <1>4, <1>5, Pumped

LEMMA TickMachine ==
    ASSUME TypeOK, Machine, Tick
    PROVE  Machine' /\ Kept /\ Grown
<1>1. captures \in [Capture -> CaptureRow] /\ observing \in SUBSET Capture /\ reducing \in Reducing
      /\ readySince \in SUBSET Capture /\ outbox \in SUBSET Note /\ transcripts \in SUBSET Speech
  BY DEF Machine, TypeOK
<1>2. Pump(captures, packets, transcripts, observing, reducing, readySince, outbox, IndexFree)
  BY DEF Tick
<1>3. observing = With(captures, "observing") /\ reducing.batch = With(captures, "reducing")
  BY <1>1, Requeued
<1> QED
  BY <1>1, <1>2, <1>3, Pumped

\* What posted speech hands to pump(): the captures concerned, with the anchor of finished speech.
LEMMA HearPumps ==
    ASSUME NEW m \in Speech, Hear(m)
    PROVE  \E dirty, red :
             /\ m.final /\ (\A o \in Revisions(transcripts, m.seg) : o.rev < m.rev)
                   => Anchor(captures, m.seg) \subseteq dirty
             /\ red \in {reducing, [reducing EXCEPT !.fresh = FALSE]}
             /\ IF m.final
                THEN Pump([c \in Capture |-> IF c \in dirty /\ captures[c].status \in {"committed", "failed"}
                                            THEN Reopened(captures[c]) ELSE captures[c]],
                          packets, transcripts', observing, red, readySince, outbox', IndexFree)
                ELSE UNCHANGED << captures, packets, observing, reducing, readySince, indexing, calls >>
<1> DEFINE rules == m.final /\ \A o \in Revisions(transcripts, m.seg) : o.rev < m.rev
           old == IF rules THEN Older(transcripts, m) ELSE {}
           gone == { n \in notes : n.keys \cap old # {} }
           consumers == Consumers(old)
           dirty == { n.packet : n \in gone } \cup { p[1] : p \in consumers }
                       \cup (IF rules THEN Anchor(captures, m.seg) ELSE {})
           corrects == rules /\ Revisions(transcripts, m.seg) # {} /\ Newest(transcripts, m.seg).final
           red == IF corrects /\ reducing # Idle THEN [reducing EXCEPT !.fresh = FALSE] ELSE reducing
<1>1. IF m.final
      THEN Pump([c \in Capture |-> IF c \in dirty /\ captures[c].status \in {"committed", "failed"}
                                  THEN Reopened(captures[c]) ELSE captures[c]],
                packets, transcripts', observing, red, readySince, outbox', IndexFree)
      ELSE UNCHANGED << captures, packets, observing, reducing, readySince, indexing, calls >>
  BY Zenon DEF Hear
<1>2. red \in {reducing, [reducing EXCEPT !.fresh = FALSE]} /\ (rules => Anchor(captures, m.seg) \subseteq dirty)
  OBVIOUS
<1> HIDE DEF dirty, red
<1> QED
  BY <1>1, <1>2

LEMMA HearMachine ==
    ASSUME TypeOK, Machine, NEW m \in Speech, Hear(m)
    PROVE  Machine' /\ Kept /\ Grown
<1>1. captures \in [Capture -> CaptureRow] /\ observing \in SUBSET Capture /\ reducing \in Reducing
      /\ readySince \in SUBSET Capture /\ outbox \in SUBSET Note /\ transcripts' \in SUBSET Speech
  BY DEF Machine, TypeOK, Hear
<1>2. outbox' \in SUBSET Note
  BY <1>1 DEF Hear, Supersede
<1>3. PICK dirty, red :
        /\ red \in {reducing, [reducing EXCEPT !.fresh = FALSE]}
        /\ IF m.final
           THEN Pump([c \in Capture |-> IF c \in dirty /\ captures[c].status \in {"committed", "failed"}
                                       THEN Reopened(captures[c]) ELSE captures[c]],
                     packets, transcripts', observing, red, readySince, outbox', IndexFree)
           ELSE UNCHANGED << captures, packets, observing, reducing, readySince, indexing, calls >>
  BY HearPumps, ZenonT(60)
<1>4. CASE m.final
  <2> DEFINE cap == [c \in Capture |-> IF c \in dirty /\ captures[c].status \in {"committed", "failed"}
                                      THEN Reopened(captures[c]) ELSE captures[c]]
  <2>1. Pump(cap, packets, transcripts', observing, red, readySince, outbox', IndexFree)
    BY <1>3, <1>4
  <2>2. red \in Reducing /\ red.batch = reducing.batch
    BY <1>1, <1>3 DEF Reducing
  <2>3. ASSUME NEW c \in Capture
        PROVE  cap[c] \in CaptureRow
               /\ \/ cap[c] = captures[c]
                  \/ captures[c].status \notin {"observing", "reducing"} /\ cap[c].status \in {"queued", "ready"}
    <3>1. Reopened(captures[c]) \in CaptureRow /\ Reopened(captures[c]).status \in {"ready", "queued"}
      BY <1>1, ReopenedRow
    <3> QED
      BY <1>1, <3>1
  <2>4. cap \in [Capture -> CaptureRow]
    BY <2>3
  <2> HIDE DEF cap
  <2>5. /\ observing = With(cap, "observing") /\ reducing.batch = With(cap, "reducing")
        /\ \A d \in Capture : captures[d].status # "absent" => cap[d].status # "absent"
    BY <2>3, <2>4, Requeued
  <2> QED
    BY <1>1, <1>2, <2>1, <2>2, <2>4, <2>5, Pumped
<1>5. CASE ~ m.final
  BY <1>3, <1>5, Unmoved DEF Machine
<1> QED
  BY <1>4, <1>5

LEMMA SeenMachine ==
    ASSUME TypeOK, Machine, NEW c \in Capture, Seen(c)
    PROVE  Machine' /\ Kept /\ Grown
<1>1. /\ captures' = [captures EXCEPT ![c].status = "ready", ![c].vision = TRUE]
      /\ packets' = [packets EXCEPT ![c] = WithPacket(packets, transcripts, c)]
      /\ readySince' = readySince \cup {c} /\ observing' = observing \ {c}
      /\ reducing' = reducing /\ indexing' = indexing /\ calls' = calls
  BY DEF Seen, budget
<1>2. captures \in [Capture -> CaptureRow] /\ packets \in [Capture -> Seq(Packet)]
      /\ reducing \in Reducing /\ transcripts \in SUBSET Speech /\ observing \subseteq Capture
  BY DEF Machine, TypeOK
<1>3. \A d \in Capture : captures'[d] \in CaptureRow
         /\ captures'[d].status = IF d = c THEN "ready" ELSE captures[d].status
  BY <1>1, <1>2 DEF CaptureRow, Working
<1>4. captures' \in [Capture -> CaptureRow]
  BY <1>1, <1>2, <1>3
<1>5. WithPacket(packets, transcripts, c) \in Seq(Packet)
      /\ Grows(packets[c], WithPacket(packets, transcripts, c)) /\ Fresh(WithPacket(packets, transcripts, c))
  BY <1>2, WithPacketGrows
<1>6. packets' \in [Capture -> Seq(Packet)] /\ Grown
  <2>1. \A d \in Capture : Grows(packets[d], packets[d])
    BY <1>2 DEF Grows
  <2> QED
    BY <1>1, <1>2, <1>5, <2>1 DEF Grown
<1>7. Open'
  BY <1>1, <1>2, <1>5 DEF Open, Machine, Reducing
<1>8. WorkHasWorker'
  <2>1. \A d \in Capture : /\ d \in observing <=> captures[d].status = "observing"
                           /\ d \in reducing.batch <=> captures[d].status = "reducing"
    BY DEF Machine, WorkHasWorker
  <2>2. captures[c].status = "observing"
    BY <2>1 DEF Seen
  <2>3. observing' = { d \in Capture : captures'[d].status = "observing" }
    BY <1>1, <1>2, <1>3, <2>1
  <2>4. reducing.batch = { d \in Capture : captures'[d].status = "reducing" }
    BY <1>2, <1>3, <2>1, <2>2 DEF Reducing
  <2> QED
    BY <1>1, <2>3, <2>4 DEF WorkHasWorker
<1>9. Kept
  BY <1>3 DEF Kept
<1> QED
  BY <1>1, <1>4, <1>6, <1>7, <1>8, <1>9 DEF Machine

LEMMA VisionFailsMachine ==
    ASSUME TypeOK, Machine, NEW c \in Capture, VisionFails(c)
    PROVE  Machine' /\ Kept /\ Grown
<1>1. /\ captures' = [captures EXCEPT ![c].status = "failed"]
      /\ packets' = packets /\ readySince' = readySince \ {c} /\ observing' = observing \ {c}
      /\ reducing' = reducing /\ indexing' = indexing /\ calls' = calls
  BY DEF VisionFails, ledger
<1>2. captures \in [Capture -> CaptureRow] /\ packets \in [Capture -> Seq(Packet)]
      /\ reducing \in Reducing /\ observing \subseteq Capture
  BY DEF Machine
<1>3. \A d \in Capture : captures'[d] \in CaptureRow
         /\ captures'[d].status = IF d = c THEN "failed" ELSE captures[d].status
  BY <1>1, <1>2 DEF CaptureRow, Working
<1>4. captures' \in [Capture -> CaptureRow]
  BY <1>1, <1>2, <1>3
<1>5. Grown
  BY <1>1, <1>2 DEF Grown, Grows
<1>6. WorkHasWorker'
  <2>1. \A d \in Capture : /\ d \in observing <=> captures[d].status = "observing"
                           /\ d \in reducing.batch <=> captures[d].status = "reducing"
    BY DEF Machine, WorkHasWorker
  <2>2. captures[c].status = "observing"
    BY <2>1 DEF VisionFails
  <2>3. observing' = { d \in Capture : captures'[d].status = "observing" }
    BY <1>1, <1>2, <1>3, <2>1
  <2>4. reducing.batch = { d \in Capture : captures'[d].status = "reducing" }
    BY <1>2, <1>3, <2>1, <2>2 DEF Reducing
  <2> QED
    BY <1>1, <2>3, <2>4 DEF WorkHasWorker
<1>7. Kept
  BY <1>3 DEF Kept
<1> QED
  BY <1>1, <1>2, <1>4, <1>5, <1>6, <1>7 DEF Machine, Open

\* The flags of the interpretation change, its captures do not.
LEMMA Flagged ==
    ASSUME Machine, UNCHANGED << captures, packets, observing, readySince, indexing, calls >>,
           reducing' \in Reducing, reducing'.batch = reducing.batch
    PROVE  Machine' /\ Kept /\ Grown
<1>1. WorkHasWorker'
  BY DEF Machine, WorkHasWorker
<1> QED
  BY <1>1 DEF Machine, Open, Kept, Grown, Grows

LEMMA ReduceMachine ==
    ASSUME TypeOK, Machine, ContextReady \/ Requeue \/ ModelFails
    PROVE  Machine' /\ Kept /\ Grown
<1>1. reducing \in Reducing /\ readySince \subseteq Capture
  BY DEF Machine
<1>2. CASE ContextReady
  <2>1. UNCHANGED << captures, packets, observing, readySince, indexing, calls >>
        /\ reducing' \in Reducing /\ reducing'.batch = reducing.batch
    BY <1>1, <1>2 DEF ContextReady, Reducing, ledger, budget
  <2> QED
    BY <2>1, Flagged
<1>3. CASE Requeue
  BY <1>1, <1>3, Released DEF Requeue
<1>4. CASE ModelFails
  <2>1. CASE Release("ready", TRUE) /\ UNCHANGED readySince
    BY <1>1, <2>1, Released
  <2>2. CASE Release("failed", FALSE) /\ readySince' = readySince \ reducing.batch
    BY <1>1, <2>2, Released
  <2> QED
    BY <1>4, <2>1, <2>2 DEF ModelFails
<1> QED
  BY <1>2, <1>3, <1>4

\* What every step does to the machine.
LEMMA MachineStep ==
    ASSUME TypeOK, Machine, [Next]_vars
    PROVE  Machine' /\ Kept /\ (Grown \/ (Commit /\ Committing))
<1>0. indexing \subseteq Note /\ reducing \in Reducing
  BY DEF Machine
<1>1. ASSUME NEW c \in Capture, BeginUpload(c) \/ FailUpload(c) PROVE Machine' /\ Kept /\ Grown
  BY <1>0, <1>1, Unmoved DEF BeginUpload, FailUpload, ledger, budget
<1>2. ASSUME Indexed \/ IndexFails \/ ResumeIndex PROVE Machine' /\ Kept /\ Grown
  BY <1>0, <1>2, Unmoved DEF Indexed, IndexFails, ResumeIndex, ledger, budget
<1>3. ASSUME RemovePeople PROVE Machine' /\ Kept /\ Grown
  <2>1. UNCHANGED << captures, packets, observing, readySince, indexing, calls >>
        /\ reducing' \in Reducing /\ reducing'.batch = reducing.batch
    BY <1>0, <1>3 DEF RemovePeople, Reducing, Idle
  <2> QED
    BY <2>1, Flagged
<1>4. ASSUME UNCHANGED vars PROVE Machine' /\ Kept /\ Grown
  BY <1>0, <1>4, Unmoved DEF vars, ledger, budget
<1> QED
  BY <1>1, <1>2, <1>3, <1>4, EndUploadMachine, RetryMachine, SeenMachine, VisionFailsMachine,
     HearMachine, ReduceMachine, CommitMachine, TickMachine, RestartMachine DEF Next

-----------------------------------------------------------------------------
(* What the memory holds *)

State == [packet : Capture \cup {0}, version : Nat, pending : BOOLEAN]

\* What a correction replaces.
Replaced(m) ==
    IF m.final /\ (\A o \in Revisions(transcripts, m.seg) : o.rev < m.rev)
    THEN Older(transcripts, m) ELSE {}
Resting(old) == { n \in notes : n.keys \cap old # {} }

\* What was final and is not replaced stays final.
LEMMA FinalsAfter ==
    ASSUME TypeOK, NEW m \in Speech, Accepted(transcripts, m)
    PROVE  Finals(transcripts) \ Replaced(m) \subseteq Finals(transcripts \cup {m})
<1> SUFFICES ASSUME NEW r \in Finals(transcripts) \ Replaced(m)
             PROVE  r \in Finals(transcripts \cup {m})
  OBVIOUS
<1>1. PICK n \in transcripts : /\ n.final /\ r = << n.seg, n.rev >>
                               /\ \A o \in transcripts : o.seg = n.seg => o.rev <= n.rev
  BY DEF Finals
<1>2. \A o \in transcripts \cup {m} : o.rev \in Nat
  BY SceneAssumption DEF TypeOK, Revision
<1>3. m.seg = n.seg => m.rev <= n.rev
  <2> SUFFICES ASSUME m.seg = n.seg, ~ m.rev <= n.rev PROVE FALSE
    OBVIOUS
  <2>1. n \in Revisions(transcripts, m.seg)
    BY DEF Revisions
  <2>2. m.final
    BY <1>1, <2>1 DEF Accepted
  <2>3. n.rev < m.rev /\ \A o \in Revisions(transcripts, m.seg) : o.rev < m.rev
    BY <1>1, <1>2 DEF Revisions
  <2>4. r \in Older(transcripts, m)
    BY <1>1, <2>1, <2>3 DEF Older
  <2> QED
    BY <2>2, <2>3, <2>4 DEF Replaced
<1> QED
  BY <1>1, <1>3 DEF Finals

\* What posted speech does to the memory.
LEMMA HearFacts ==
    ASSUME NEW m \in Speech, Hear(m)
    PROVE  LET old == Replaced(m) IN
           /\ Accepted(transcripts, m) /\ transcripts' = transcripts \cup {m}
           /\ notes' = notes \ Resting(old) /\ superseded' = superseded \cup Resting(old)
           /\ outbox' = outbox \ Resting(old) /\ vectors' = vectors \ Resting(old)
           /\ stale' = stale \cup Consumers(old) /\ current' = Invalidated(Consumers(old))
           /\ UNCHANGED << uploading, projections, cutoff, indexPaused, mishaps >>
<1>1. /\ Accepted(transcripts, m) /\ transcripts' = transcripts \cup {m}
      /\ UNCHANGED << uploading, projections, cutoff, indexPaused, mishaps >>
  BY DEF Hear
<1>2. /\ Supersede(Resting(Replaced(m)), {})
      /\ stale' = stale \cup Consumers(Replaced(m)) /\ current' = Invalidated(Consumers(Replaced(m)))
  BY Zenon DEF Hear, Replaced, Resting
<1> QED
  BY <1>1, <1>2 DEF Supersede

\* The state that is shown after its projection was taken back, or not.
LEMMA InvalidatedState ==
    ASSUME current \in State, NEW gone, current' = Invalidated(gone), UNCHANGED cutoff
    PROVE  /\ current' \in State /\ current'.packet = current.packet /\ current'.version = current.version
           /\ Shown' # NoState /\ ~ Shown'.pending =>
                 /\ Shown # NoState /\ ~ Shown.pending /\ Shown' = Shown
                 /\ << Shown.packet, Shown.version >> \notin gone
<1>1. /\ current' \in State /\ current'.packet = current.packet /\ current'.version = current.version
      /\ << Shown.packet, Shown.version >> \in gone => current'.pending
      /\ << Shown.packet, Shown.version >> \notin gone => current' = current
  BY DEF Invalidated, State
<1>2. Shown' = IF current'.packet <= cutoff THEN NoState ELSE current'
  BY DEF Shown
<1> QED
  BY <1>1, <1>2 DEF Shown

\* Packets that grow keep what projections rest on.
LEMMA GrownProjections ==
    ASSUME Machine, packets' \in [Capture -> Seq(Packet)], Told, Grown, NEW p \in projections,
           projections \subseteq Capture \X Nat
    PROVE  /\ Committed(packets', p[1]) = Committed(packets, p[1])
           /\ packets'[p[1]][p[2]].audio = packets[p[1]][p[2]].audio
<1>1. p[1] \in Capture /\ p[2] \in Committed(packets, p[1]) /\ packets \in [Capture -> Seq(Packet)]
  BY DEF Told, Machine
<1>2. Grows(packets[p[1]], packets'[p[1]])
  BY <1>1 DEF Grown
<1> QED
  BY <1>1, <1>2, GrowsCommitted

LEMMA GrownTold ==
    ASSUME Machine, packets' \in [Capture -> Seq(Packet)], Told, Grown, UNCHANGED projections,
           projections \subseteq Capture \X Nat
    PROVE  Told'
<1>1. \A c \in Capture : Committed(packets', c) = Committed(packets, c)
  BY GrowsCommitted DEF Machine, Grown
<1>2. \A p \in projections : p[1] \in Capture /\ p[2] \in Committed(packets, p[1])
  BY DEF Told
<1>3. (\A p \in projections : p[2] \in Committed(packets', p[1]))
      /\ \A c \in Capture : \A v \in Committed(packets', c) : << c, v >> \in projections
  BY <1>1, <1>2 DEF Told
<1> QED
  BY <1>3 DEF Told, Committed

\* The rest of the types, and what the memory holds.
Rest ==
    /\ uploading \in [Capture -> 0 .. MaxUploads] /\ transcripts \subseteq Speech
    /\ cutoff \in Capture \cup {0} /\ indexPaused \in BOOLEAN /\ mishaps \in 0 .. MaxMishaps
Memory ==
    /\ notes \subseteq Note /\ superseded \subseteq Note /\ outbox \subseteq Note /\ vectors \subseteq Note
    /\ projections \subseteq Capture \X Nat /\ stale \subseteq projections /\ current \in State
Holds ==
    Memory /\ Told /\ StateOfStored /\ IndexMatchesNotes /\ LiveNotesAreCurrent /\ ProjectionsAreCurrent

LEMMA Types == Machine /\ Rest /\ Memory => TypeOK
BY DEF Machine, Rest, Memory, TypeOK, Reducing, State

LEMMA RestStep ==
    ASSUME TypeOK, [Next]_vars
    PROVE  Rest'
<1>1. Rest /\ MaxUploads \in Nat /\ MaxMishaps \in Nat /\ Earlier \subseteq Speech
  BY SceneAssumption DEF TypeOK, Rest
<1>2. Mishap => mishaps' \in 0 .. MaxMishaps
  BY <1>1 DEF Mishap, Rest
<1>3. ASSUME NEW c \in Capture, BeginUpload(c) PROVE Rest'
  BY <1>1, <1>3 DEF BeginUpload, Rest, budget
<1>4. ASSUME NEW c \in Capture, EndUpload(c) PROVE Rest'
  BY <1>1, <1>4 DEF EndUpload, Rest
<1>5. ASSUME NEW c \in Capture, FailUpload(c) PROVE Rest'
  BY <1>1, <1>2, <1>5 DEF FailUpload, Rest
<1>6. ASSUME NEW c \in Capture, Retry(c) \/ Seen(c) \/ VisionFails(c) PROVE Rest'
  BY <1>1, <1>2, <1>6 DEF Retry, Seen, VisionFails, Rest, budget
<1>7. ASSUME NEW m \in Speech, Hear(m) PROVE Rest'
  BY <1>1, <1>7, HearFacts DEF Rest
<1>8. ASSUME ContextReady \/ Requeue \/ ModelFails PROVE Rest'
  BY <1>1, <1>2, <1>8 DEF ContextReady, Requeue, ModelFails, Release, Rest, budget
<1>9. ASSUME Commit PROVE Rest'
  BY <1>1, <1>9 DEF Commit, Rest, budget
<1>10. ASSUME Indexed \/ IndexFails \/ ResumeIndex PROVE Rest'
  BY <1>1, <1>2, <1>10 DEF Indexed, IndexFails, ResumeIndex, Rest, budget
<1>11. ASSUME Tick PROVE Rest'
  BY <1>1, <1>11 DEF Tick, Rest
<1>12. ASSUME RemovePeople PROVE Rest'
  <2>1. cutoff' \in Capture
    BY <1>12 DEF RemovePeople, Stored
  <2> QED
    BY <1>1, <1>2, <1>12, <2>1 DEF RemovePeople, Rest
<1>13. ASSUME Restart PROVE Rest'
  <2>1. uploading' \in [Capture -> 0 .. MaxUploads]
    BY <1>1, <1>13 DEF Restart
  <2> QED
    BY <1>1, <1>2, <1>13, <2>1 DEF Restart, Rest
<1>14. ASSUME UNCHANGED vars PROVE Rest'
  BY <1>1, <1>14 DEF vars, budget, Rest
<1> QED
  BY <1>3, <1>4, <1>5, <1>6, <1>7, <1>8, <1>9, <1>10, <1>11, <1>12, <1>13, <1>14 DEF Next

\* A step that leaves the memory alone, and lets packets grow.
LEMMA QuietStep ==
    ASSUME Inv, Holds, Machine', Kept, Grown,
           UNCHANGED << transcripts, notes, superseded, projections, stale, current, outbox,
                        vectors, cutoff >>
    PROVE  Holds'
<1>1. Memory' /\ IndexMatchesNotes' /\ LiveNotesAreCurrent'
  BY DEF Holds, Memory, IndexMatchesNotes, LiveNotesAreCurrent, Finals
<1>2. Told'
  BY GrownTold DEF Inv, Holds, Memory, Machine
<1>3. StateOfStored'
  BY DEF Holds, Memory, State, StateOfStored, Kept
<1>4. ProjectionsAreCurrent'
  <2>1. ASSUME NEW p \in projections \ stale
        PROVE  /\ packets'[p[1]][p[2]].audio \subseteq Finals(transcripts)
               /\ \A v \in Committed(packets', p[1]) : v <= p[2]
    BY GrownProjections DEF Inv, Holds, Memory, Machine, ProjectionsAreCurrent
  <2>2. Shown' = Shown /\ Finals(transcripts)' = Finals(transcripts)
    BY DEF Shown, Finals
  <2>3. Shown # NoState /\ ~ Shown.pending => << Shown.packet, Shown.version >> \in projections \ stale
    BY DEF Holds, ProjectionsAreCurrent
  <2> QED
    BY <2>1, <2>2, <2>3 DEF ProjectionsAreCurrent, Committed
<1> QED
  BY <1>1, <1>2, <1>3, <1>4 DEF Holds

LEMMA HearStep ==
    ASSUME Inv, Holds, Machine', Kept, Grown, NEW m \in Speech, Hear(m)
    PROVE  Holds'
<1> DEFINE old == Replaced(m)
<1>1. /\ Accepted(transcripts, m) /\ transcripts' = transcripts \cup {m}
      /\ notes' = notes \ Resting(old) /\ superseded' = superseded \cup Resting(old)
      /\ outbox' = outbox \ Resting(old) /\ vectors' = vectors \ Resting(old)
      /\ stale' = stale \cup Consumers(old) /\ current' = Invalidated(Consumers(old))
      /\ projections' = projections /\ cutoff' = cutoff
  BY HearFacts
<1> HIDE DEF old
<1>2. Finals(transcripts) \ old \subseteq Finals(transcripts')
  BY <1>1, FinalsAfter DEF Inv, old
<1>3. /\ current' \in State /\ current'.packet = current.packet
      /\ Shown' # NoState /\ ~ Shown'.pending =>
            /\ Shown # NoState /\ ~ Shown.pending /\ Shown' = Shown
            /\ << Shown.packet, Shown.version >> \notin Consumers(old)
  BY <1>1, InvalidatedState DEF Holds, Memory
<1>4. Memory'
  BY <1>1, <1>3 DEF Holds, Memory, Resting, Consumers
<1>5. Told'
  BY <1>1, GrownTold DEF Inv, Holds, Memory, Machine
<1>6. StateOfStored'
  BY <1>3 DEF Holds, Memory, State, StateOfStored, Kept
<1>7. IndexMatchesNotes'
  BY <1>1 DEF Holds, IndexMatchesNotes
<1>8. LiveNotesAreCurrent'
  BY <1>1, <1>2 DEF Holds, LiveNotesAreCurrent, Resting, Finals
<1>9. ProjectionsAreCurrent'
  <2>1. ASSUME NEW p \in projections \ stale'
        PROVE  /\ packets'[p[1]][p[2]].audio \subseteq Finals(transcripts')
               /\ \A v \in Committed(packets', p[1]) : v <= p[2]
    <3>1. p \in projections \ stale /\ p \notin Consumers(old)
      BY <1>1
    <3>2. packets[p[1]][p[2]].audio \subseteq Finals(transcripts) /\ \A v \in Committed(packets, p[1]) : v <= p[2]
      BY <3>1 DEF Holds, ProjectionsAreCurrent
    <3>3. packets[p[1]][p[2]].audio \cap old = {}
      BY <3>1, <3>2 DEF Consumers
    <3>4. /\ Committed(packets', p[1]) = Committed(packets, p[1])
          /\ packets'[p[1]][p[2]].audio = packets[p[1]][p[2]].audio
      BY GrownProjections DEF Inv, Holds, Memory, Machine
    <3> QED
      BY <1>2, <3>2, <3>3, <3>4
  <2>2. Shown' # NoState /\ ~ Shown'.pending => << Shown'.packet, Shown'.version >> \in projections' \ stale'
    BY <1>1, <1>3 DEF Holds, ProjectionsAreCurrent
  <2> QED
    BY <1>1, <2>1, <2>2 DEF ProjectionsAreCurrent, Committed, Finals
<1> QED
  BY <1>4, <1>5, <1>6, <1>7, <1>8, <1>9 DEF Holds

\* What a commit does: what it adds rests on finished speech.
LEMMA CommitFacts ==
    ASSUME Inv, Commit
    PROVE  \E newest \in reducing.batch, gone \in SUBSET notes, new \in SUBSET Note :
             /\ \A n \in new : n.keys \subseteq Finals(transcripts)
             /\ \A c \in reducing.batch : c <= newest
             /\ notes' = (notes \ gone) \cup new /\ superseded' = superseded \cup gone
             /\ outbox' = (outbox \ gone) \cup new /\ vectors' = vectors \ gone
             /\ projections' = projections \cup { << c, Len(packets[c]) >> : c \in reducing.batch }
             /\ stale' = stale \cup Prior(reducing.batch)
             /\ current' = SavedState(newest, Prior(reducing.batch))
             /\ UNCHANGED << transcripts, cutoff >>
<1>1. PICK delta \in [reducing.batch -> Delta], newest \in reducing.batch :
        /\ \A c \in reducing.batch : c <= newest
        /\ \A c \in reducing.batch : delta[c].fact \subseteq Last(packets, c).audio
        /\ Supersede(Outdated(reducing.batch), NewNotes(notes \ Outdated(reducing.batch), delta))
        /\ projections' = projections \cup { << c, Version(packets, c) >> : c \in reducing.batch }
        /\ stale' = stale \cup Prior(reducing.batch)
        /\ current' = SavedState(newest, Prior(reducing.batch))
  BY ZenonT(60) DEF Commit
<1>2. /\ \A c \in reducing.batch : Last(packets, c).audio \subseteq Finals(transcripts)
      /\ UNCHANGED << transcripts, cutoff >>
  BY DEF Commit
<1>3. Finals(transcripts) \subseteq Ref /\ reducing.batch \subseteq Capture
      /\ \A c \in reducing.batch : Len(packets[c]) \in Nat
  <2>1. transcripts \in SUBSET Speech
    BY DEF Inv, TypeOK
  <2> QED
    BY <2>1 DEF Finals, Ref, Inv, Machine, Reducing
<1> DEFINE live == notes \ Outdated(reducing.batch)
<1>4. ASSUME NEW c \in reducing.batch, NEW keys \in SUBSET Finals(transcripts),
             NEW kind \in {"visual", "speech", "fact", "event"}
      PROVE  NoteOf(c, kind, keys) \in Note /\ NoteOf(c, kind, keys).keys = keys
  BY <1>3 DEF NoteOf, Version, Note
<1> HIDE DEF live
<1>5. ASSUME NEW c \in reducing.batch,
             NEW n \in VisualNotes(c) \cup SpeechNotes(live, c) \cup FactNotes(live, delta, c)
                       \cup EventNotes(live, delta, c)
      PROVE  n \in Note /\ n.keys \subseteq Finals(transcripts)
  <2>1. CASE n \in VisualNotes(c)
    <3>1. n = NoteOf(c, "visual", {})
      BY <2>1 DEF VisualNotes
    <3> QED
      BY <1>4, <3>1
  <2>2. CASE n \in SpeechNotes(live, c)
    <3>1. PICK q \in Finals(transcripts) : n = NoteOf(c, "speech", {q})
      BY <2>2 DEF SpeechNotes
    <3> QED
      BY <1>4, <3>1
  <2>3. CASE n \in FactNotes(live, delta, c)
    <3>1. PICK q \in delta[c].fact : n = NoteOf(c, "fact", {q})
      BY <2>3 DEF FactNotes
    <3>2. q \in Finals(transcripts)
      BY <1>1, <1>2
    <3> QED
      BY <1>4, <3>1, <3>2
  <2>4. CASE n \in EventNotes(live, delta, c)
    <3>1. n = NoteOf(c, "event", Last(packets, c).audio)
      BY <2>4 DEF EventNotes
    <3> QED
      BY <1>2, <1>4, <3>1
  <2> QED
    BY <2>1, <2>2, <2>3, <2>4
<1>6. NewNotes(live, delta) \in SUBSET Note /\ \A n \in NewNotes(live, delta) : n.keys \subseteq Finals(transcripts)
  BY <1>5 DEF NewNotes
<1>7. Outdated(reducing.batch) \in SUBSET notes
  BY DEF Outdated
<1>8. /\ notes' = (notes \ Outdated(reducing.batch)) \cup NewNotes(live, delta)
      /\ superseded' = superseded \cup Outdated(reducing.batch)
      /\ outbox' = (outbox \ Outdated(reducing.batch)) \cup NewNotes(live, delta) /\ vectors' = vectors \ Outdated(reducing.batch)
  BY <1>1 DEF Supersede, live
<1>9. projections' = projections \cup { << c, Len(packets[c]) >> : c \in reducing.batch }
  BY <1>1 DEF Version
<1> QED
  BY <1>1, <1>2, <1>6, <1>7, <1>8, <1>9

\* What is committed after a commit.
LEMMA CommittedAfter ==
    ASSUME Inv, Committing, packets' \in [Capture -> Seq(Packet)], NEW c \in Capture
    PROVE  /\ Committed(packets', c) = Committed(packets, c)
                  \cup (IF c \in reducing.batch THEN {Len(packets[c])} ELSE {})
           /\ \A v \in 1 .. Len(packets[c]) : packets'[c][v].audio = packets[c][v].audio
           /\ c \in reducing.batch => Len(packets[c]) \in Nat \ Committed(packets, c)
           /\ \A v \in Committed(packets, c) : v \in Nat /\ v <= Len(packets[c])
<1>1. packets[c] \in Seq(Packet) /\ Len(packets[c]) \in Nat
  BY DEF Inv, Machine
<1>2. CASE c \notin reducing.batch
  <2>1. packets'[c] = packets[c]
    BY <1>2 DEF Committing
  <2> QED
    BY <1>1, <1>2, <2>1 DEF Committed
<1>3. CASE c \in reducing.batch
  <2>1. packets[c] # << >> /\ ~ packets[c][Len(packets[c])].committed
    BY <1>3 DEF Inv, Machine, Open, Fresh
  <2>2. /\ Len(packets[c]) \in 1 .. Len(packets[c])
        /\ \A i \in 1 .. Len(packets[c]) : packets[c][i] \in Packet
    BY <1>1, <2>1
  <2> DEFINE told == [packets[c][Len(packets[c])] EXCEPT !.committed = TRUE]
  <2>3. told.committed /\ told.audio = packets[c][Len(packets[c])].audio
    BY <2>2 DEF Packet
  <2>4. packets'[c] = [packets[c] EXCEPT ![Len(packets[c])] = told]
    BY <1>3 DEF Committing
  <2> HIDE DEF told
  <2>5. Len(packets'[c]) = Len(packets[c])
        /\ \A i \in 1 .. Len(packets[c]) : packets'[c][i] = IF i = Len(packets[c]) THEN told ELSE packets[c][i]
    BY <1>1, <2>4
  <2>6. Committed(packets', c) = Committed(packets, c) \cup {Len(packets[c])}
    BY <2>2, <2>3, <2>5 DEF Committed
  <2>7. Len(packets[c]) \notin Committed(packets, c)
    BY <2>1 DEF Committed
  <2> QED
    BY <1>1, <1>3, <2>3, <2>5, <2>6, <2>7 DEF Committed
<1> QED
  BY <1>2, <1>3

LEMMA CommitStep ==
    ASSUME Inv, Holds, Machine', Kept, Commit, Committing
    PROVE  Holds'
<1>1. PICK newest \in reducing.batch, gone \in SUBSET notes, new \in SUBSET Note :
        /\ \A n \in new : n.keys \subseteq Finals(transcripts)
        /\ \A c \in reducing.batch : c <= newest
        /\ notes' = (notes \ gone) \cup new /\ superseded' = superseded \cup gone
        /\ outbox' = (outbox \ gone) \cup new /\ vectors' = vectors \ gone
        /\ projections' = projections \cup { << c, Len(packets[c]) >> : c \in reducing.batch }
        /\ stale' = stale \cup Prior(reducing.batch)
        /\ current' = SavedState(newest, Prior(reducing.batch))
        /\ UNCHANGED << transcripts, cutoff >>
  BY CommitFacts
<1>2. reducing.batch \subseteq Capture /\ newest \in Capture /\ packets' \in [Capture -> Seq(Packet)]
      /\ \A c \in reducing.batch : Len(packets[c]) \in Nat
  BY DEF Inv, Machine, Reducing
<1>3. \A c \in Capture :
        /\ Committed(packets', c) = Committed(packets, c)
                \cup (IF c \in reducing.batch THEN {Len(packets[c])} ELSE {})
        /\ \A v \in 1 .. Len(packets[c]) : packets'[c][v].audio = packets[c][v].audio
        /\ c \in reducing.batch => Len(packets[c]) \in Nat \ Committed(packets, c)
        /\ \A v \in Committed(packets, c) : v \in Nat /\ v <= Len(packets[c])
  BY <1>2, CommittedAfter
<1>4. \A p \in Capture \X Nat : p \in projections <=> p[2] \in Committed(packets, p[1])
  BY DEF Holds, Told
<1>5. Prior(reducing.batch) \subseteq projections
      /\ \A c \in reducing.batch : \A v \in Committed(packets, c) : << c, v >> \in Prior(reducing.batch)
  <2>1. \A c \in reducing.batch : \A v \in Committed(packets, c) : << c, v >> \in Prior(reducing.batch)
    BY DEF Prior
  <2>2. \A p \in Prior(reducing.batch) : p[1] \in Capture /\ p[2] \in Committed(packets, p[1]) /\ p = << p[1], p[2] >>
    BY <1>2 DEF Prior
  <2> QED
    BY <2>1, <2>2 DEF Holds, Told
<1>6. \A c \in reducing.batch : << c, Len(packets[c]) >> \notin stale'
  <2>1. ASSUME NEW c \in reducing.batch PROVE << c, Len(packets[c]) >> \notin projections
    BY <1>2, <1>3, <1>4
  <2> QED
    BY <1>1, <1>5, <2>1 DEF Holds, Memory
<1>7. /\ current' = [packet |-> newest, version |-> Len(packets[newest]), pending |-> FALSE]
      \/ current' = Invalidated(Prior(reducing.batch))
  BY <1>1 DEF SavedState, Version
<1>8. ASSUME current' = [packet |-> newest, version |-> Len(packets[newest]), pending |-> FALSE]
      PROVE  /\ current' \in State /\ StateOfStored'
             /\ Shown' # NoState /\ ~ Shown'.pending => << Shown'.packet, Shown'.version >> \in projections' \ stale'
  <2>1. current' \in State
    BY <1>2, <1>8 DEF State
  <2>2. StateOfStored'
    <3>1. captures[newest].status = "reducing"
      BY DEF Inv, Machine, WorkHasWorker
    <3>2. captures'[newest].status # "absent" /\ current'.packet = newest
      BY <1>2, <1>8, <3>1 DEF Kept
    <3> QED
      BY <3>2 DEF StateOfStored
  <2>3. Shown' # NoState => << Shown'.packet, Shown'.version >> \in projections' \ stale'
    <3>1. << newest, Len(packets[newest]) >> \in projections' \ stale'
      BY <1>1, <1>6
    <3>2. Shown' \in {NoState, current'}
      BY DEF Shown
    <3> QED
      BY <1>8, <3>1, <3>2
  <2> QED
    BY <2>1, <2>2, <2>3
<1>9. ASSUME current' = Invalidated(Prior(reducing.batch))
      PROVE  /\ current' \in State /\ StateOfStored'
             /\ Shown' # NoState /\ ~ Shown'.pending => << Shown'.packet, Shown'.version >> \in projections' \ stale'
  <2>1. /\ current' \in State /\ current'.packet = current.packet
        /\ Shown' # NoState /\ ~ Shown'.pending =>
              /\ Shown # NoState /\ ~ Shown.pending /\ Shown' = Shown
              /\ << Shown.packet, Shown.version >> \notin Prior(reducing.batch)
    BY <1>1, <1>9, InvalidatedState DEF Holds, Memory
  <2>2. StateOfStored'
    BY <2>1 DEF Holds, Memory, State, StateOfStored, Kept
  <2>3. Shown' # NoState /\ ~ Shown'.pending => << Shown'.packet, Shown'.version >> \in projections' \ stale'
    BY <1>1, <2>1 DEF Holds, ProjectionsAreCurrent
  <2> QED
    BY <2>1, <2>2, <2>3
<1>10. /\ current' \in State /\ StateOfStored'
       /\ Shown' # NoState /\ ~ Shown'.pending => << Shown'.packet, Shown'.version >> \in projections' \ stale'
  BY <1>7, <1>8, <1>9
<1>11. projections' \subseteq Capture \X Nat
  BY <1>1, <1>2 DEF Holds, Memory
<1>12. Memory'
  BY <1>1, <1>5, <1>10, <1>11 DEF Holds, Memory
<1>13. Told'
  <2>1. ASSUME NEW p \in projections' PROVE p[2] \in Committed(packets', p[1])
    <3>1. CASE p \in projections
      <4>1. p[1] \in Capture /\ p[2] \in Committed(packets, p[1])
        BY <3>1 DEF Holds, Memory, Told
      <4> QED
        BY <1>3, <4>1
    <3>2. CASE p \in { << c, Len(packets[c]) >> : c \in reducing.batch }
      BY <1>2, <1>3, <3>2
    <3> QED
      BY <1>1, <3>1, <3>2
  <2>2. ASSUME NEW c \in Capture, NEW v \in Committed(packets', c) PROVE << c, v >> \in projections'
    BY <1>1, <1>3 DEF Holds, Told
  <2> QED
    BY <2>1, <2>2 DEF Told, Committed
<1>14. IndexMatchesNotes'
  BY <1>1 DEF Holds, IndexMatchesNotes
<1>15. LiveNotesAreCurrent'
  BY <1>1 DEF Holds, LiveNotesAreCurrent, Finals
<1>16. ProjectionsAreCurrent'
  <2>1. ASSUME NEW p \in projections' \ stale'
        PROVE  /\ packets'[p[1]][p[2]].audio \subseteq Finals(transcripts)
               /\ \A v \in Committed(packets', p[1]) : v <= p[2]
    <3>1. CASE p \in projections
      <4>1. p \in projections \ stale /\ p[1] \in Capture /\ p[2] \in Committed(packets, p[1])
            /\ p = << p[1], p[2] >>
        BY <1>1, <3>1 DEF Holds, Memory, Told
      <4>2. p[1] \notin reducing.batch
        BY <1>1, <1>5, <4>1
      <4>3. packets[p[1]][p[2]].audio \subseteq Finals(transcripts) /\ \A v \in Committed(packets, p[1]) : v <= p[2]
        BY <4>1 DEF Holds, ProjectionsAreCurrent
      <4>4. p[2] \in 1 .. Len(packets[p[1]])
        BY <4>1 DEF Committed
      <4> QED
        BY <1>3, <4>1, <4>2, <4>3, <4>4
    <3>2. CASE p \in { << c, Len(packets[c]) >> : c \in reducing.batch }
      <4>1. PICK c \in reducing.batch : p = << c, Len(packets[c]) >>
        BY <3>2
      <4>2. Last(packets, c).audio \subseteq Finals(transcripts)
        BY DEF Commit
      <4>3. Len(packets[c]) \in 1 .. Len(packets[c])
        <5>1. packets[c] # << >> /\ packets[c] \in Seq(Packet)
          BY <1>2 DEF Inv, Machine, Open, Fresh
        <5> QED
          BY <5>1
      <4>4. packets'[c][Len(packets[c])].audio \subseteq Finals(transcripts)
        BY <1>2, <1>3, <4>2, <4>3 DEF Last
      <4>5. \A v \in Committed(packets', c) : v <= Len(packets[c])
        BY <1>2, <1>3
      <4> QED
        BY <4>1, <4>4, <4>5
    <3> QED
      BY <1>1, <3>1, <3>2
  <2> QED
    BY <1>1, <1>10, <2>1 DEF ProjectionsAreCurrent, Committed, Finals
<1> QED
  BY <1>10, <1>12, <1>13, <1>14, <1>15, <1>16 DEF Holds

\* The people are reset: the state is gone.
LEMMA RemoveStep ==
    ASSUME Inv, Holds, Machine', Kept, Grown, RemovePeople, Rest'
    PROVE  Holds'
<1>1. current' = NoState /\ cutoff' \in Nat
      /\ UNCHANGED << transcripts, packets, notes, superseded, projections, stale, outbox, vectors >>
  BY SceneAssumption DEF RemovePeople, Rest
<1>2. NoState \in State /\ Shown' = NoState
  BY <1>1 DEF State, NoState, Shown
<1>3. Memory' /\ IndexMatchesNotes' /\ LiveNotesAreCurrent' /\ Told' /\ StateOfStored'
  BY <1>1, <1>2 DEF Holds, Memory, IndexMatchesNotes, LiveNotesAreCurrent, Finals, Told, Committed,
     StateOfStored, NoState
<1>4. ProjectionsAreCurrent'
  BY <1>1, <1>2 DEF Holds, ProjectionsAreCurrent, Committed, Finals
<1> QED
  BY <1>3, <1>4 DEF Holds

\* Embeddings arrive: only what is still held gets one.
LEMMA IndexedStep ==
    ASSUME Inv, Holds, Indexed
    PROVE  Holds'
<1>1. /\ vectors' = vectors \cup (indexing \cap notes) /\ outbox' = outbox \ indexing
      /\ UNCHANGED << transcripts, packets, captures, notes, superseded, projections, stale, current, cutoff >>
  BY DEF Indexed
<1>2. Memory' /\ IndexMatchesNotes'
  BY <1>1 DEF Holds, Memory, IndexMatchesNotes
<1>3. LiveNotesAreCurrent' /\ Told' /\ StateOfStored' /\ ProjectionsAreCurrent'
  BY <1>1 DEF Holds, LiveNotesAreCurrent, Finals, Told, Committed, StateOfStored, ProjectionsAreCurrent, Shown
<1> QED
  BY <1>2, <1>3 DEF Holds

-----------------------------------------------------------------------------
(* Speech is kept *)

\* A speech note is of one utterance, and of a capture that came after it.
SpeechRests == \A n \in notes : n.kind = "speech" =>
    n.packet \in Stored(captures) /\ \E r : n.keys = {r} /\ EndsBy[r[1]] <= n.packet

SpeechHolds == SpeechRests /\ SpeechIsKept

NothingCommitted == \A c \in Capture : captures'[c].status = "committed" => captures[c].status = "committed"

LEMMA PumpCommits ==
    ASSUME NEW cap \in [Capture -> CaptureRow], NEW pk, NEW h, NEW obs, NEW red, NEW rs, NEW ob, NEW free,
           Pump(cap, pk, h, obs, red, rs, ob, free), NEW c \in Capture,
           captures'[c].status = "committed"
    PROVE  cap[c].status = "committed"
<1> DEFINE see == ToObserve(cap, obs)
           batch(wait) == IF red = Idle /\ ~ wait THEN ToReduce(cap, pk) ELSE {}
<1>1. PICK wait \in BOOLEAN :
        captures' = [d \in Capture |-> [cap[d] EXCEPT !.status =
               IF d \in see THEN "observing" ELSE IF d \in batch(wait) THEN "reducing" ELSE @]]
  BY ZenonT(60) DEF Pump
<1> HIDE DEF see, batch
<1>2. cap[c] \in CaptureRow
  OBVIOUS
<1> QED
  BY <1>1, <1>2 DEF CaptureRow

\* Only a commit leaves a capture committed.
LEMMA OnlyCommits ==
    ASSUME TypeOK, [Next]_vars, ~ Commit
    PROVE  NothingCommitted
<1>0. captures \in [Capture -> CaptureRow]
  BY DEF TypeOK
<1>1. ASSUME NEW cap, NEW pk, NEW h, NEW obs, NEW red, NEW rs, NEW ob, NEW free,
             Pump(cap, pk, h, obs, red, rs, ob, free),
             \A c \in Capture : cap[c] \in CaptureRow /\ (cap[c].status = "committed" => captures[c].status = "committed"),
             cap = [c \in Capture |-> cap[c]]
      PROVE  NothingCommitted
  <2>1. cap \in [Capture -> CaptureRow]
    BY <1>1
  <2> QED
    BY <1>1, <2>1, PumpCommits DEF NothingCommitted
<1>2. CASE UNCHANGED captures
  BY <1>2 DEF NothingCommitted
<1>r. ASSUME NEW c \in Capture
      PROVE  Reopened(captures[c]) \in CaptureRow /\ Reopened(captures[c]).status # "committed"
  BY <1>0, ReopenedRow
<1>3. ASSUME NEW c \in Capture, EndUpload(c) PROVE NothingCommitted
  <2> DEFINE cap == IF captures[c].status = "absent" THEN [captures EXCEPT ![c].status = "queued"] ELSE captures
  <2>1. Pump(cap, packets, transcripts, observing, reducing, readySince, outbox, IndexFree)
    BY <1>3 DEF EndUpload
  <2>2. cap = [d \in Capture |-> cap[d]]
    BY <1>0
  <2>3. \A d \in Capture : cap[d] \in CaptureRow /\ (cap[d].status = "committed" => captures[d].status = "committed")
    BY <1>0 DEF CaptureRow, Working
  <2> HIDE DEF cap
  <2> QED
    BY <1>1, <2>1, <2>2, <2>3
<1>4. ASSUME NEW c \in Capture, Retry(c) PROVE NothingCommitted
  <2> DEFINE cap == [captures EXCEPT ![c] = Reopened(captures[c])]
  <2>1. Pump(cap, packets, transcripts, observing, reducing, readySince, outbox, IndexFree)
    BY <1>4 DEF Retry
  <2>2. cap = [d \in Capture |-> cap[d]]
    BY <1>0
  <2>3. \A d \in Capture : cap[d] \in CaptureRow /\ (cap[d].status = "committed" => captures[d].status = "committed")
    BY <1>0, <1>r
  <2> HIDE DEF cap
  <2> QED
    BY <1>1, <2>1, <2>2, <2>3
<1>5. CASE Restart
  <2> DEFINE cap == [c \in Capture |-> IF captures[c].status \in {"observing", "reducing"}
                                      THEN Reopened(captures[c]) ELSE captures[c]]
  <2>1. Pump(cap, packets, transcripts, {}, Idle, {}, outbox, TRUE)
    BY <1>5 DEF Restart
  <2>2. cap = [d \in Capture |-> cap[d]]
    OBVIOUS
  <2>3. \A d \in Capture : cap[d] \in CaptureRow /\ (cap[d].status = "committed" => captures[d].status = "committed")
    BY <1>0, <1>r
  <2> HIDE DEF cap
  <2> QED
    BY <1>1, <2>1, <2>2, <2>3
<1>6. CASE Tick
  <2>1. Pump(captures, packets, transcripts, observing, reducing, readySince, outbox, IndexFree)
    BY <1>6 DEF Tick
  <2>2. captures = [d \in Capture |-> captures[d]] /\ \A d \in Capture : captures[d] \in CaptureRow
    BY <1>0
  <2> QED
    BY <1>1, <2>1, <2>2
<1>7. ASSUME NEW m \in Speech, Hear(m) PROVE NothingCommitted
  <2>1. PICK dirty, red :
          IF m.final
          THEN Pump([c \in Capture |-> IF c \in dirty /\ captures[c].status \in {"committed", "failed"}
                                      THEN Reopened(captures[c]) ELSE captures[c]],
                    packets, transcripts', observing, red, readySince, outbox', IndexFree)
          ELSE UNCHANGED << captures, packets, observing, reducing, readySince, indexing, calls >>
    BY <1>7, HearPumps, ZenonT(60)
  <2>2. CASE m.final
    <3> DEFINE cap == [c \in Capture |-> IF c \in dirty /\ captures[c].status \in {"committed", "failed"}
                                        THEN Reopened(captures[c]) ELSE captures[c]]
    <3>1. Pump(cap, packets, transcripts', observing, red, readySince, outbox', IndexFree)
      BY <2>1, <2>2
    <3>2. cap = [d \in Capture |-> cap[d]]
      OBVIOUS
    <3>3. \A d \in Capture : cap[d] \in CaptureRow /\ (cap[d].status = "committed" => captures[d].status = "committed")
      BY <1>0, <1>r
    <3> HIDE DEF cap
    <3> QED
      BY <1>1, <3>1, <3>2, <3>3
  <2> QED
    BY <1>2, <2>1, <2>2
<1>8. ASSUME NEW c \in Capture, Seen(c) \/ VisionFails(c) PROVE NothingCommitted
  <2>1. \A d \in Capture : captures'[d] = captures[d] \/ captures'[d].status \in {"ready", "failed"}
    BY <1>0, <1>8 DEF Seen, VisionFails, CaptureRow
  <2> QED
    BY <2>1 DEF NothingCommitted
<1>9. ASSUME NEW status \in {"ready", "failed"}, NEW single \in BOOLEAN, Release(status, single) PROVE NothingCommitted
  <2>1. ASSUME NEW c \in Capture PROVE captures'[c] = captures[c] \/ captures'[c].status = status
    <3> DEFINE again == captures[c].single \/ single
    <3>1. captures[c] \in CaptureRow /\ again \in BOOLEAN
      BY <1>0 DEF CaptureRow
    <3>2. captures'[c] = IF c \in reducing.batch
                         THEN [captures[c] EXCEPT !.status = status, !.single = again] ELSE captures[c]
      BY <1>9 DEF Release
    <3> HIDE DEF again
    <3> QED
      BY <3>1, <3>2 DEF CaptureRow
  <2> QED
    BY <2>1 DEF NothingCommitted
<1>10. CASE Requeue \/ ModelFails
  BY <1>9, <1>10 DEF Requeue, ModelFails
<1>11. CASE \/ \E c \in Capture : BeginUpload(c) \/ FailUpload(c)
            \/ ContextReady \/ Indexed \/ IndexFails \/ ResumeIndex \/ RemovePeople \/ UNCHANGED vars
  <2>1. UNCHANGED captures
    BY <1>11 DEF BeginUpload, FailUpload, ContextReady, Indexed, IndexFails, ResumeIndex, RemovePeople, vars
  <2> QED
    BY <1>2, <2>1
<1> QED
  BY <1>3, <1>4, <1>5, <1>6, <1>7, <1>8, <1>10, <1>11 DEF Next

\* A finished utterance after m was posted was finished before, or it is m; m replaces neither.
LEMMA FinalsBefore ==
    ASSUME TypeOK, NEW m \in Speech, Accepted(transcripts, m), NEW r \in Finals(transcripts \cup {m})
    PROVE  /\ r \notin Replaced(m)
           /\ \/ r \in Finals(transcripts)
              \/ /\ r = << m.seg, m.rev >> /\ m.final
                 /\ \A o \in Revisions(transcripts, m.seg) : o.rev < m.rev
<1>1. PICK n \in transcripts \cup {m} :
        /\ n.final /\ r = << n.seg, n.rev >>
        /\ \A o \in transcripts \cup {m} : o.seg = n.seg => o.rev <= n.rev
  BY DEF Finals
<1>2. \A o \in transcripts \cup {m} : o.rev \in Nat
  BY SceneAssumption DEF TypeOK, Revision
<1>3. r \notin Older(transcripts, m)
  <2> SUFFICES ASSUME NEW o \in Revisions(transcripts, m.seg), o.rev < m.rev, r = << o.seg, o.rev >>
               PROVE  FALSE
    BY DEF Older
  <2>1. o.seg = m.seg /\ n.seg = o.seg /\ n.rev = o.rev
    BY <1>1 DEF Revisions
  <2>2. m.rev <= n.rev
    BY <1>1, <2>1
  <2> QED
    BY <1>1, <1>2, <2>1, <2>2
<1>4. r \notin Replaced(m)
  BY <1>3 DEF Replaced
<1>5. CASE n = m
  <2>1. ASSUME NEW o \in Revisions(transcripts, m.seg) PROVE o.rev < m.rev
    <3>1. o \in transcripts /\ o.seg = m.seg /\ o.rev # m.rev
      BY DEF Revisions, Accepted
    <3>2. o.rev <= m.rev
      BY <1>1, <1>5, <3>1
    <3> QED
      BY <1>2, <3>1, <3>2
  <2> QED
    BY <1>1, <1>4, <1>5, <2>1
<1>6. CASE n \in transcripts
  <2>1. r \in Finals(transcripts)
    BY <1>1, <1>6 DEF Finals
  <2> QED
    BY <1>4, <2>1
<1> QED
  BY <1>5, <1>6

\* The first capture after an utterance, when it was accepted before, was the first before.
LEMMA AnchorBefore ==
    ASSUME Kept, NEW s, NEW c \in Anchor(captures', s), captures[c].status # "absent"
    PROVE  c \in Anchor(captures, s)
<1>1. /\ c \in Stored(captures') /\ EndsBy[s] <= c
      /\ \A d \in Stored(captures') : EndsBy[s] <= d => c <= d
  BY DEF Anchor
<1>2. c \in Stored(captures) /\ Stored(captures) \subseteq Stored(captures')
  BY <1>1 DEF Stored, Kept
<1> QED
  BY <1>1, <1>2 DEF Anchor

\* A note of r is of r alone.
LEMMA NoteOfSpeech ==
    ASSUME SpeechRests, NEW n \in notes, n.kind = "speech", NEW r \in n.keys
    PROVE  n.keys = {r} /\ EndsBy[r[1]] <= n.packet /\ n.packet \in Stored(captures)
<1>1. PICK q : n.keys = {q} /\ EndsBy[q[1]] <= n.packet
  BY DEF SpeechRests
<1>2. q = r
  BY <1>1
<1> QED
  BY <1>1, <1>2 DEF SpeechRests

\* Steps that hear nothing and commit nothing: photos may be added, in any order.
LEMMA QuietSpeech ==
    ASSUME Inv, SpeechHolds, Kept, NothingCommitted, UNCHANGED << transcripts, notes, superseded >>
    PROVE  SpeechHolds'
<1>1. SpeechRests'
  BY DEF SpeechHolds, SpeechRests, Stored, Kept
<1>2. ASSUME NEW r \in Finals(transcripts), NEW c \in Anchor(captures', r[1]),
             captures'[c].status = "committed"
      PROVE  (\E n \in notes : n.kind = "speech" /\ r \in n.keys) \/ TakenOver(r, c)
  <2>1. c \in Capture
    BY DEF Anchor, Stored
  <2>2. captures[c].status = "committed"
    BY <1>2, <2>1 DEF NothingCommitted
  <2>3. c \in Anchor(captures, r[1])
    BY <2>2, AnchorBefore
  <2> QED
    BY <2>2, <2>3 DEF SpeechHolds, SpeechIsKept
<1>3. SpeechIsKept'
  BY <1>2 DEF SpeechIsKept, Finals, TakenOver, Anchor, Stored
<1> QED
  BY <1>1, <1>3 DEF SpeechHolds

\* Speech is posted: what it replaces goes, and the first capture of what it says is reopened.
LEMMA HearSpeech ==
    ASSUME Inv, SpeechHolds, Kept, NothingCommitted, NEW m \in Speech, Hear(m)
    PROVE  SpeechHolds'
<1>1. /\ Accepted(transcripts, m) /\ transcripts' = transcripts \cup {m}
      /\ notes' = notes \ Resting(Replaced(m)) /\ superseded' = superseded \cup Resting(Replaced(m))
  BY HearFacts
<1>2. SpeechRests'
  BY <1>1 DEF SpeechHolds, SpeechRests, Stored, Kept
<1>3. ASSUME NEW r \in Finals(transcripts'), NEW c \in Anchor(captures', r[1]),
             captures'[c].status = "committed"
      PROVE  \/ \E n \in notes' : n.kind = "speech" /\ r \in n.keys
             \/ \E n \in superseded' : n.kind = "speech" /\ r \in n.keys /\ n.packet > c
  <2>1. c \in Capture
    BY DEF Anchor, Stored
  <2>2. captures[c].status = "committed"
    BY <1>3, <2>1 DEF NothingCommitted
  <2>3. c \in Anchor(captures, r[1])
    BY <2>2, AnchorBefore
  <2>4. /\ r \notin Replaced(m)
        /\ \/ r \in Finals(transcripts)
           \/ /\ r = << m.seg, m.rev >> /\ m.final
              /\ \A o \in Revisions(transcripts, m.seg) : o.rev < m.rev
    <3>1. r \in Finals(transcripts \cup {m}) /\ TypeOK
      BY <1>1 DEF Inv
    <3> QED
      BY <1>1, <3>1, FinalsBefore
  <2>5. CASE r \in Finals(transcripts)
    <3>1. CASE \E n \in notes : n.kind = "speech" /\ r \in n.keys
      <4>1. PICK n \in notes : n.kind = "speech" /\ r \in n.keys
        BY <3>1
      <4>2. n.keys = {r}
        BY <4>1, NoteOfSpeech DEF SpeechHolds
      <4>3. n \in notes'
        BY <1>1, <2>4, <4>2 DEF Resting
      <4> QED
        BY <4>1, <4>3
    <3>2. CASE TakenOver(r, c)
      BY <1>1, <3>2 DEF TakenOver
    <3> QED
      BY <2>2, <2>3, <2>5, <3>1, <3>2 DEF SpeechHolds, SpeechIsKept
  <2>6. CASE r = << m.seg, m.rev >> /\ m.final /\ \A o \in Revisions(transcripts, m.seg) : o.rev < m.rev
    <3>1. PICK dirty, red :
            /\ Anchor(captures, m.seg) \subseteq dirty
            /\ Pump([d \in Capture |-> IF d \in dirty /\ captures[d].status \in {"committed", "failed"}
                                      THEN Reopened(captures[d]) ELSE captures[d]],
                    packets, transcripts', observing, red, readySince, outbox', IndexFree)
      <4>1. \E dirty, red :
             /\ m.final /\ (\A o \in Revisions(transcripts, m.seg) : o.rev < m.rev)
                   => Anchor(captures, m.seg) \subseteq dirty
             /\ red \in {reducing, [reducing EXCEPT !.fresh = FALSE]}
             /\ IF m.final
                THEN Pump([d \in Capture |-> IF d \in dirty /\ captures[d].status \in {"committed", "failed"}
                                            THEN Reopened(captures[d]) ELSE captures[d]],
                          packets, transcripts', observing, red, readySince, outbox', IndexFree)
                ELSE UNCHANGED << captures, packets, observing, reducing, readySince, indexing, calls >>
        BY HearPumps, ZenonT(60)
      <4> QED
        BY <2>6, <4>1
    <3> DEFINE cap == [d \in Capture |-> IF d \in dirty /\ captures[d].status \in {"committed", "failed"}
                                        THEN Reopened(captures[d]) ELSE captures[d]]
    <3>2. captures \in [Capture -> CaptureRow]
      BY DEF Inv, Machine
    <3>3. ASSUME NEW d \in Capture
          PROVE  Reopened(captures[d]) \in CaptureRow /\ Reopened(captures[d]).status # "committed"
      BY <3>2, ReopenedRow
    <3>4. cap \in [Capture -> CaptureRow]
      BY <3>2, <3>3
    <3>5. c \in dirty
      BY <2>3, <2>6, <3>1
    <3>6. cap[c].status # "committed"
      BY <2>1, <2>2, <3>3, <3>5
    <3>7. Pump(cap, packets, transcripts', observing, red, readySince, outbox', IndexFree)
      BY <3>1
    <3> HIDE DEF cap
    <3>8. cap[c].status = "committed"
      BY <1>3, <2>1, <3>4, <3>7, PumpCommits
    <3> QED
      BY <3>6, <3>8
  <2> QED
    BY <2>4, <2>5, <2>6
<1>4. SpeechIsKept'
  BY <1>3 DEF SpeechIsKept, Finals, TakenOver, Anchor, Stored
<1> QED
  BY <1>2, <1>4 DEF SpeechHolds

\* What a commit does to the speech that is kept.
LEMMA CommitSpeaks ==
    ASSUME Inv, Commit
    PROVE  \E new :
             /\ notes' = (notes \ Outdated(reducing.batch)) \cup new
             /\ superseded' = superseded \cup Outdated(reducing.batch)
             /\ transcripts' = transcripts
             /\ captures' = [c \in Capture |->
                    IF c \in reducing.batch THEN [captures[c] EXCEPT !.status = "committed"]
                    ELSE captures[c]]
             /\ \A c \in reducing.batch : SpeechNotes(notes \ Outdated(reducing.batch), c) \subseteq new
             /\ \A n \in new : n.kind = "speech" =>
                    \E c \in reducing.batch : n \in SpeechNotes(notes \ Outdated(reducing.batch), c)
<1>1. PICK delta \in [reducing.batch -> Delta], newest \in reducing.batch :
        /\ Supersede(Outdated(reducing.batch), NewNotes(notes \ Outdated(reducing.batch), delta))
        /\ captures' = [c \in Capture |->
               IF c \in reducing.batch THEN [captures[c] EXCEPT !.status = "committed"]
               ELSE captures[c]]
  BY ZenonT(60) DEF Commit
<1> DEFINE live == notes \ Outdated(reducing.batch)
           new == NewNotes(live, delta)
<1>2. /\ notes' = live \cup new /\ superseded' = superseded \cup Outdated(reducing.batch)
      /\ transcripts' = transcripts
  BY <1>1 DEF Supersede, Commit
<1> HIDE DEF live
<1>3. ASSUME NEW c \in reducing.batch, NEW n \in SpeechNotes(live, c) PROVE n \in new
  BY DEF NewNotes
<1>4. ASSUME NEW n \in new, n.kind = "speech"
      PROVE  \E c \in reducing.batch : n \in SpeechNotes(live, c)
  <2>1. PICK c \in reducing.batch : n \in VisualNotes(c) \cup SpeechNotes(live, c)
                                          \cup FactNotes(live, delta, c) \cup EventNotes(live, delta, c)
    BY DEF NewNotes
  <2>2. n \notin VisualNotes(c)
    BY <1>4 DEF VisualNotes, NoteOf
  <2>3. n \notin FactNotes(live, delta, c)
    BY <1>4 DEF FactNotes, NoteOf
  <2>4. n \notin EventNotes(live, delta, c)
    BY <1>4 DEF EventNotes, NoteOf
  <2> QED
    BY <2>1, <2>2, <2>3, <2>4
<1> HIDE DEF new
<1> QED
  BY <1>1, <1>2, <1>3, <1>4 DEF live

\* A commit: what it takes back of a photo that is not interpreted now is told by a later one.
LEMMA CommitHeard ==
    ASSUME Inv, SpeechHolds, Kept, Commit
    PROVE  SpeechHolds'
<1> DEFINE gone == Outdated(reducing.batch)
<1>1. PICK new :
        /\ notes' = (notes \ gone) \cup new /\ superseded' = superseded \cup gone
        /\ transcripts' = transcripts
        /\ captures' = [c \in Capture |->
               IF c \in reducing.batch THEN [captures[c] EXCEPT !.status = "committed"]
               ELSE captures[c]]
        /\ \A c \in reducing.batch : SpeechNotes(notes \ gone, c) \subseteq new
        /\ \A n \in new : n.kind = "speech" => \E c \in reducing.batch : n \in SpeechNotes(notes \ gone, c)
  BY CommitSpeaks
<1>2. \A n \in gone : n \in notes /\ n.packet \in reducing.batch
  BY DEF Outdated
<1> HIDE DEF gone
<1>3. /\ reducing.batch \subseteq Capture /\ captures \in [Capture -> CaptureRow] /\ Capture \subseteq Nat
      /\ \A c \in reducing.batch : captures[c].status # "absent"
  BY SceneAssumption DEF Inv, Machine, Reducing, WorkHasWorker
<1>4. SpeechRests'
  <2> SUFFICES ASSUME NEW n \in notes', n.kind = "speech"
               PROVE  n.packet \in Stored(captures') /\ \E r : n.keys = {r} /\ EndsBy[r[1]] <= n.packet
    BY DEF SpeechRests, Stored
  <2>1. CASE n \in notes
    BY <2>1 DEF SpeechHolds, SpeechRests, Stored, Kept
  <2>2. CASE n \in new
    <3>1. PICK c \in reducing.batch : n \in SpeechNotes(notes \ gone, c)
      BY <1>1, <2>2
    <3>2. PICK r : n = NoteOf(c, "speech", {r}) /\ c \in Anchor(captures, r[1])
      BY <3>1 DEF SpeechNotes
    <3>3. n.packet = c /\ n.keys = {r} /\ EndsBy[r[1]] <= c
      BY <3>2 DEF NoteOf, Anchor
    <3>4. c \in Stored(captures')
      BY <1>3 DEF Stored, Kept
    <3> QED
      BY <3>3, <3>4
  <2> QED
    BY <1>1, <2>1, <2>2
<1>5. ASSUME NEW r \in Finals(transcripts), NEW c \in Anchor(captures', r[1]),
             captures'[c].status = "committed"
      PROVE  \/ \E n \in notes' : n.kind = "speech" /\ r \in n.keys
             \/ \E n \in superseded' : n.kind = "speech" /\ r \in n.keys /\ n.packet > c
  <2>1. c \in Capture
    BY DEF Anchor, Stored
  <2>2. captures[c].status # "absent"
    BY <1>1, <1>3, <1>5, <2>1
  <2>3. c \in Anchor(captures, r[1])
    BY <2>2, AnchorBefore
  <2>4. CASE c \in reducing.batch
    <3>1. CASE Covered(notes \ gone, c, "speech", r)
      BY <1>1, <3>1 DEF Covered
    <3>2. CASE ~ Covered(notes \ gone, c, "speech", r)
      <4>1. NoteOf(c, "speech", {r}) \in SpeechNotes(notes \ gone, c)
        BY <2>3, <3>2 DEF SpeechNotes
      <4>2. NoteOf(c, "speech", {r}) \in notes'
        BY <1>1, <2>4, <4>1
      <4> QED
        BY <4>2 DEF NoteOf
    <3> QED
      BY <3>1, <3>2
  <2>5. CASE c \notin reducing.batch
    <3>1. captures[c].status = "committed"
      BY <1>1, <1>5, <2>1, <2>5
    <3>2. CASE TakenOver(r, c)
      BY <1>1, <3>2 DEF TakenOver
    <3>3. CASE \E n \in notes : n.kind = "speech" /\ r \in n.keys
      <4>1. PICK n \in notes : n.kind = "speech" /\ r \in n.keys
        BY <3>3
      <4>2. CASE n \notin gone
        BY <1>1, <4>1, <4>2
      <4>3. CASE n \in gone
        <5>1. EndsBy[r[1]] <= n.packet /\ n.packet \in Stored(captures)
          BY <4>1, NoteOfSpeech DEF SpeechHolds
        <5>2. c <= n.packet /\ n.packet # c
          BY <1>2, <2>3, <2>5, <4>3, <5>1 DEF Anchor
        <5>3. n.packet \in Nat /\ c \in Nat
          BY <1>2, <1>3, <2>1, <4>3
        <5>4. n.packet > c
          BY <5>2, <5>3
        <5> QED
          BY <1>1, <4>1, <4>3, <5>4
      <4> QED
        BY <4>2, <4>3
    <3> QED
      BY <2>3, <3>1, <3>2, <3>3 DEF SpeechHolds, SpeechIsKept
  <2> QED
    BY <2>4, <2>5
<1>6. SpeechIsKept'
  BY <1>1, <1>5 DEF SpeechIsKept, Finals, TakenOver, Anchor, Stored
<1> QED
  BY <1>4, <1>6 DEF SpeechHolds

-----------------------------------------------------------------------------
(* The theorems *)

LEMMA InvHolds == Inv => Holds
BY DEF Inv, Holds, Memory, TypeOK, State

LEMMA InvInit == Init => Inv
<1> SUFFICES ASSUME Init PROVE Inv
  OBVIOUS
<1>1. \A c \in Capture : captures[c] = NoCapture /\ packets[c] = << >>
  BY DEF Init
<1>2. NoCapture \in CaptureRow /\ NoCapture.status = "absent" /\ Idle \in Reducing /\ Idle.batch = {}
      /\ << >> \in Seq(Packet)
  BY DEF NoCapture, CaptureRow, Idle, Reducing
<1>3. Machine
  <2>1. {} = { c \in Capture : captures[c].status = "observing" }
        /\ {} = { c \in Capture : captures[c].status = "reducing" }
    BY <1>1, <1>2
  <2>2. captures \in [Capture -> CaptureRow] /\ packets \in [Capture -> Seq(Packet)]
    BY <1>2 DEF Init
  <2>3. /\ observing = {} /\ readySince = {} /\ indexing = {} /\ reducing = Idle /\ calls \in 0 .. MaxCalls
    BY SceneAssumption DEF Init
  <2>4. WorkHasWorker
    BY <1>2, <2>1, <2>3 DEF WorkHasWorker
  <2>5. Open
    BY <1>2, <2>3 DEF Open
  <2>6. reducing \in Reducing /\ observing \subseteq Capture /\ readySince \subseteq Capture /\ indexing \subseteq Note
    BY <1>2, <2>3
  <2> QED
    BY <2>2, <2>3, <2>4, <2>5, <2>6 DEF Machine
<1>4. Rest /\ Memory
  <2>1. 0 \in 0 .. MaxUploads /\ 0 \in 0 .. MaxMishaps /\ Earlier \subseteq Speech
    BY SceneAssumption
  <2>2. uploading \in [Capture -> 0 .. MaxUploads]
    BY <2>1 DEF Init
  <2>3. Rest
    BY <2>1, <2>2 DEF Init, Rest
  <2> QED
    BY <2>3 DEF Init, Memory, State, NoState
<1>5. Told
  BY <1>1 DEF Told, Init, Committed
<1>6. StateOfStored /\ IndexMatchesNotes /\ LiveNotesAreCurrent
  BY DEF Init, StateOfStored, NoState, IndexMatchesNotes, LiveNotesAreCurrent
<1>7. ProjectionsAreCurrent
  BY DEF Init, ProjectionsAreCurrent, Shown, NoState
<1> QED
  BY <1>3, <1>4, <1>5, <1>6, <1>7, Types DEF Inv

LEMMA InvNext == Inv /\ [Next]_vars => Inv'
<1> SUFFICES ASSUME Inv, [Next]_vars PROVE Inv'
  OBVIOUS
<1>1. TypeOK /\ Machine /\ Holds
  BY InvHolds DEF Inv
<1>2. Machine' /\ Kept /\ (Grown \/ (Commit /\ Committing)) /\ Rest'
  BY <1>1, MachineStep, RestStep
<1>3. ASSUME NEW m \in Speech, Hear(m) PROVE Grown
  BY <1>1, <1>3, HearMachine
<1>4. ASSUME RemovePeople PROVE Grown
  <2>1. packets' = packets
    BY <1>4 DEF RemovePeople
  <2> QED
    BY <1>1, <2>1 DEF Machine, Grown, Grows
<1>5. ASSUME Commit PROVE Committing
  BY <1>1, <1>5, CommitMachine
<1>6. ASSUME UNCHANGED << transcripts, notes, superseded, projections, stale, current, outbox,
                          vectors, cutoff >>, Grown
      PROVE  Holds'
  BY <1>1, <1>2, <1>6, QuietStep
<1>7. ASSUME NEW c \in Capture, BeginUpload(c) \/ EndUpload(c) \/ FailUpload(c) \/ Retry(c) \/ Seen(c) \/ VisionFails(c)
      PROVE  UNCHANGED << transcripts, notes, superseded, projections, stale, current, outbox, vectors, cutoff >>
  BY <1>7 DEF BeginUpload, EndUpload, FailUpload, Retry, Seen, VisionFails, ledger
<1>8. ASSUME ContextReady \/ Requeue \/ ModelFails \/ IndexFails \/ ResumeIndex \/ Tick \/ Restart \/ UNCHANGED vars
      PROVE  UNCHANGED << transcripts, notes, superseded, projections, stale, current, outbox, vectors, cutoff >>
  BY <1>8 DEF ContextReady, Requeue, ModelFails, Release, IndexFails, ResumeIndex, Tick, Restart, vars, ledger
<1>9. ASSUME ~ Commit PROVE Grown
  BY <1>2, <1>9
<1>10. Holds'
  <2>1. CASE Commit
    BY <1>1, <1>2, <1>5, <2>1, CommitStep
  <2>2. CASE \E m \in Speech : Hear(m)
    BY <1>1, <1>2, <1>3, <2>2, HearStep
  <2>3. CASE RemovePeople
    BY <1>1, <1>2, <1>4, <2>3, RemoveStep
  <2>4. CASE Indexed
    BY <1>1, <2>4, IndexedStep
  <2>5. ASSUME ~ Commit,
               UNCHANGED << transcripts, notes, superseded, projections, stale, current, outbox,
                            vectors, cutoff >>
        PROVE  Holds'
    BY <1>6, <1>9, <2>5
  <2>6. CASE ~ Commit /\ \E c \in Capture : \/ BeginUpload(c) \/ EndUpload(c) \/ FailUpload(c)
                                            \/ Retry(c) \/ Seen(c) \/ VisionFails(c)
    BY <1>7, <2>5, <2>6
  <2>7. CASE ~ Commit /\ (ContextReady \/ Requeue \/ ModelFails \/ IndexFails \/ ResumeIndex \/ Tick
                          \/ Restart \/ UNCHANGED vars)
    BY <1>8, <2>5, <2>7
  <2>8. \/ \E c \in Capture : \/ BeginUpload(c) \/ EndUpload(c) \/ FailUpload(c)
                              \/ Retry(c) \/ Seen(c) \/ VisionFails(c)
        \/ \E m \in Speech : Hear(m)
        \/ ContextReady \/ Requeue \/ ModelFails \/ IndexFails \/ ResumeIndex \/ Tick \/ Restart \/ UNCHANGED vars
        \/ Commit \/ Indexed \/ RemovePeople
    BY DEF Next
  <2> QED
    BY <2>1, <2>2, <2>3, <2>4, <2>6, <2>7, <2>8
<1>11. TypeOK'
  BY <1>2, <1>10 DEF Holds, Machine, Rest, Memory, TypeOK, Reducing, State
<1> QED
  BY <1>2, <1>10, <1>11 DEF Holds, Inv

\* The invariant holds in every state.
LEMMA InvAlways == Init /\ [][Next]_vars => []Inv
BY InvInit, InvNext, PTL

(* Types, whatever is posted, fails or is interrupted (TypeOK of SceneMemory). *)
THEOREM SceneTypes == Spec => []TypeOK
<1>1. Inv => TypeOK
  BY DEF Inv
<1> QED
  BY <1>1, InvAlways, PTL DEF Spec

(* A capture that is marked as observed or interpreted is: no handler, late upload, correction *)
(* or restart leaves one behind (Pipeline.pump, Pipeline.start).                                *)
THEOREM WorkIsDriven == Spec => []WorkHasWorker
<1>1. Inv => WorkHasWorker
  BY DEF Inv, Machine
<1> QED
  BY <1>1, InvAlways, PTL DEF Spec

(* No note that is held cites words that were corrected, whatever was awaited when the *)
(* correction came (Store.saveTranscript, Store.commitPacket).                          *)
THEOREM NotesAreCurrent == Spec => []LiveNotesAreCurrent
<1>1. Inv => LiveNotesAreCurrent
  BY DEF Inv
<1> QED
  BY <1>1, InvAlways, PTL DEF Spec

(* The same for state, events and descriptions: what is not marked as superseded is the   *)
(* newest interpretation of its photo and rests on current speech (invalidateProjections). *)
THEOREM ProjectionsHold == Spec => []ProjectionsAreCurrent
<1>1. Inv => ProjectionsAreCurrent
  BY DEF Inv
<1> QED
  BY <1>1, InvAlways, PTL DEF Spec

(* The index has the notes that are held and no other, though an embedding may arrive after *)
(* its note was superseded (Store.supersedeWhere, Store.putEmbedding).                        *)
THEOREM IndexFollowsNotes == Spec => []IndexMatchesNotes
<1>1. Inv => IndexMatchesNotes
  BY DEF Inv
<1> QED
  BY <1>1, InvAlways, PTL DEF Spec

(* A finished utterance is remembered word for word, unless its first photo is still to be    *)
(* interpreted or failed, or a later photo had told it first (Store.commitPacket and           *)
(* Store.saveTranscript, with photos and corrections that arrive in any order).                *)
THEOREM SpeechStaysKept == Spec => []SpeechIsKept
<1>1. Init => SpeechHolds
  <2> SUFFICES ASSUME Init PROVE SpeechHolds
    OBVIOUS
  <2>1. notes = {} /\ \A c \in Capture : captures[c].status = "absent"
    BY DEF Init, NoCapture
  <2>2. \A s : Anchor(captures, s) = {}
    BY <2>1 DEF Anchor, Stored
  <2> QED
    BY <2>1, <2>2 DEF SpeechHolds, SpeechRests, SpeechIsKept
<1>2. Inv /\ SpeechHolds /\ [Next]_vars => SpeechHolds'
  <2> SUFFICES ASSUME Inv, SpeechHolds, [Next]_vars PROVE SpeechHolds'
    OBVIOUS
  <2>1. TypeOK /\ Machine
    BY DEF Inv
  <2>2. Kept
    BY <2>1, MachineStep
  <2>3. CASE Commit
    BY <2>2, <2>3, CommitHeard
  <2>4. CASE ~ Commit
    <3>1. NothingCommitted
      BY <2>1, <2>4, OnlyCommits
    <3>2. CASE \E m \in Speech : Hear(m)
      BY <2>2, <3>1, <3>2, HearSpeech
    <3>3. CASE UNCHANGED << transcripts, notes, superseded >>
      BY <2>2, <3>1, <3>3, QuietSpeech
    <3> QED
      BY <2>4, <3>2, <3>3 DEF Next, vars, ledger, BeginUpload, EndUpload, FailUpload, Retry, Seen,
         VisionFails, ContextReady, Requeue, ModelFails, Release, Indexed, IndexFails, ResumeIndex,
         Tick, RemovePeople, Restart
  <2> QED
    BY <2>3, <2>4
<1>3. SpeechHolds => SpeechIsKept
  BY DEF SpeechHolds
<1> QED
  BY <1>1, <1>2, <1>3, InvAlways, PTL DEF Spec

(* The scene that is shown never moves back in source time, unless the people are reset  *)
(* (Store.saveState, Store.removePeople).                                                  *)
THEOREM StateIsMonotone == Spec => StateKeepsItsTime
<1>1. Inv /\ [Next]_vars => [current'.packet < current.packet => cutoff' >= current.packet]_vars
  <2> SUFFICES ASSUME Inv, Next, current'.packet < current.packet PROVE cutoff' >= current.packet
    BY DEF vars, ledger
  <2>1. current \in State /\ cutoff \in Capture \cup {0} /\ Capture \subseteq Nat /\ StateOfStored
    BY SceneAssumption DEF Inv, TypeOK, State
  <2>2. current.packet \in Nat /\ cutoff \in Nat
    <3>1. current.packet \in Capture \cup {0}
      BY <2>1 DEF State
    <3>2. Capture \cup {0} \subseteq Nat
      BY <2>1
    <3> QED
      BY <2>1, <3>1, <3>2
  <2>3. CASE \E m \in Speech : Hear(m)
    <3>1. PICK m \in Speech : Hear(m)
      BY <2>3
    <3>2. current' = Invalidated(Consumers(Replaced(m))) /\ UNCHANGED cutoff
      BY <3>1, HearFacts
    <3>3. current'.packet = current.packet
      BY <2>1, <3>2, InvalidatedState
    <3> QED
      BY <2>2, <3>3
  <2>4. CASE Commit
    <3>1. PICK newest \in reducing.batch :
            current' = SavedState(newest, Prior(reducing.batch)) /\ UNCHANGED cutoff
      BY <2>4, CommitFacts
    <3>2. newest \in Nat
      BY <2>1 DEF Inv, Machine, Reducing
    <3>3. CASE newest >= Shown.packet
      <4>1. current'.packet = newest
        BY <3>1, <3>3 DEF SavedState
      <4> QED
        BY <2>2, <3>1, <3>2, <3>3, <4>1 DEF Shown
    <3>4. CASE ~ newest >= Shown.packet
      <4>1. current' = Invalidated(Prior(reducing.batch))
        BY <3>1, <3>4 DEF SavedState
      <4>2. current'.packet = current.packet
        BY <2>1, <3>1, <4>1, InvalidatedState
      <4> QED
        BY <2>2, <4>2
    <3> QED
      BY <3>3, <3>4
  <2>5. CASE RemovePeople
    <3>1. PICK c \in Stored(captures) : (\A d \in Stored(captures) : d <= c) /\ cutoff' = c
      BY <2>5 DEF RemovePeople
    <3>2. current.packet # 0
      BY <2>2, <2>5 DEF RemovePeople, NoState
    <3>3. current.packet \in Stored(captures)
      BY <2>1, <3>2 DEF StateOfStored, State, Stored
    <3>4. c \in Nat
      BY <2>1 DEF Stored
    <3> QED
      BY <2>2, <3>1, <3>3, <3>4
  <2>6. CASE UNCHANGED current
    BY <2>2, <2>6
  <2> QED
    BY <2>3, <2>4, <2>5, <2>6 DEF Next, BeginUpload, EndUpload, FailUpload, Retry, Seen, VisionFails,
       ContextReady, Requeue, ModelFails, Release, Indexed, IndexFails, ResumeIndex, Tick, Restart, ledger
<1> QED
  BY <1>1, InvAlways, PTL DEF Spec, StateKeepsItsTime

=============================================================================
