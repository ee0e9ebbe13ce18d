-------------------------- MODULE TraceLoop_proofs ---------------------------
(***************************************************************************)
(* Proofs about TraceLoop: what parsing and replay make of any trace, and  *)
(* what the loop and its report make of it.                                *)
(***************************************************************************)
EXTENDS TraceLoop, EventLoopMetrics_proofs

-----------------------------------------------------------------------------
(* Extremes of sets of numbers.                                            *)

LEMMA MinOf ==
    ASSUME NEW S \in SUBSET Nat, S # {}
    PROVE  Min(S) \in S /\ \A y \in S : Min(S) <= y
<1> DEFINE Less == OpToRel(<, Nat)
<1>1. IsWellFoundedOn(Less, Nat)
  BY NatLessThanWellFounded
<1>2. \A m, n \in Nat : m < n => <<m, n>> \in Less
  BY DEF OpToRel
<1> HIDE DEF Less
<1>3. PICK x \in S : \A y \in S : <<y, x>> \notin Less
  BY <1>1, WFMin
<1>4. ASSUME NEW y \in S PROVE x <= y
  <2>1. x \in Nat /\ y \in Nat /\ ~(y < x)
    BY <1>2, <1>3
  <2> QED BY <2>1
<1> QED BY <1>4 DEF Min

LEMMA MinIs ==
    ASSUME NEW S \in SUBSET Int, NEW a \in S, \A y \in S : a <= y
    PROVE  Min(S) = a
<1>1. ASSUME NEW x \in S, \A y \in S : x <= y PROVE x = a
  <2>1. x <= a /\ a <= x /\ x \in Int /\ a \in Int
    BY <1>1
  <2> QED BY <2>1
<1>2. Min(S) \in S /\ \A y \in S : Min(S) <= y
  BY DEF Min
<1> QED BY <1>1, <1>2

-----------------------------------------------------------------------------
(* Parsing.                                                                *)

Texts == Seq(Nat \cup {NotANumber})

\* The lines that parse() turns into records.
Filled(f) == {k \in DOMAIN f : f[k] # <<>>}

LEMMA ParsedTick ==
    ASSUME NEW f \in Seq(Texts), ~Malformed(f), NEW k \in Filled(f)
    PROVE  ParsedLine(f[k]).tick \in Nat
<1>1. f[k] \in Texts /\ Len(f[k]) \in Nat \ {0}
  BY DEF Filled, Texts
<1>2. Min({1, Len(f[k])}) = 1
  <2> DEFINE S == {1, Len(f[k])}
  <2>1. S \in SUBSET Int /\ 1 \in S /\ \A y \in S : 1 <= y
    BY <1>1
  <2> HIDE DEF S
  <2>2. Min(S) = 1
    BY <2>1, MinIs
  <2> QED BY <2>2 DEF S
<1>3. Token(f[k], 1) = f[k][1] /\ 1 \in DOMAIN f[k]
  <2>1. Token(f[k], 1) = f[k][1]
    BY <1>2 DEF Token
  <2>2. 1 \in DOMAIN f[k]
    BY <1>1 DEF Texts
  <2> QED BY <2>1, <2>2
<1>4. f[k][1] # NotANumber
  BY <1>3 DEF Malformed, Filled
<1>5. f[k][1] \in Nat
  BY <1>1, <1>3, <1>4 DEF Texts
<1>6. "tick" \in DOMAIN Columns /\ Columns["tick"] = 1
  BY DEF Columns
<1>7. ParsedLine(f[k])["tick"] = Token(f[k], 1)
  BY <1>6 DEF ParsedLine
<1> QED BY <1>3, <1>5, <1>7

\* The records are those of the lines that are not empty.
LEMMA ParseTyped ==
    ASSUME NEW f \in Seq(Texts)
    PROVE  /\ Parse(f) \in Seq({ParsedLine(f[k]) : k \in Filled(f)})
           /\ Len(Parse(f)) <= Len(f)
<1> DEFINE S == Seq({ParsedLine(f[k]) : k \in Filled(f)})
           n == Len(f)
           Reads(g) == g = [k \in 0 .. n |->
                              IF k = 0 THEN <<>>
                              ELSE IF f[k] = <<>> THEN g[k - 1]
                              ELSE Append(g[k - 1], ParsedLine(f[k]))]
           read == CHOOSE g : Reads(g)
           step == [x \in Int \X S |-> IF x[1] \in Filled(f)
                                       THEN Append(x[2], ParsedLine(f[x[1]])) ELSE x[2]]
<1>1. n \in Nat /\ DOMAIN f = 1 .. n /\ <<>> \in S
  OBVIOUS
<1>2. step \in [Int \X S -> S]
  OBVIOUS
<1>3. \A k \in Int, s \in S : step[<<k, s>>] = IF k \in Filled(f)
                                   THEN Append(s, ParsedLine(f[k])) ELSE s
  OBVIOUS
<1> HIDE DEF S, n, step
<1>4. PICK g \in [0 .. n -> S] :
              \A k \in 0 .. n : g[k] = IF k = 0 THEN <<>> ELSE step[<<k, g[k - 1]>>]
  <2>1. 0 \in Int /\ n \in Int /\ 0 <= n
    BY <1>1
  <2>2. \A base \in S, st \in [Int \X S -> S] :
            \E g \in [0 .. n -> S] :
               \A k \in 0 .. n : g[k] = IF k = 0 THEN base ELSE st[<<k, g[k - 1]>>]
    <3> SUFFICES ASSUME NEW base \in S, NEW st \in [Int \X S -> S]
                 PROVE  \E g \in [0 .. n -> S] : Recursion(g, 0, n, base, st)
      BY DEF Recursion
    <3> QED BY <2>1, RecursionExists
  <2>3. <<>> \in S
    BY <1>1
  <2> QED BY <1>2, <2>2, <2>3
<1>5. ASSUME NEW k \in 1 .. n
      PROVE  /\ g[k - 1] \in S
             /\ g[k] = IF f[k] = <<>> THEN g[k - 1]
                       ELSE Append(g[k - 1], ParsedLine(f[k]))
  <2>1. k - 1 \in 0 .. n /\ k # 0 /\ k \in 0 .. n /\ k \in Int
    BY <1>1
  <2>2. g[k] = step[<<k, g[k - 1]>>] /\ g[k - 1] \in S
    BY <1>4, <2>1
  <2>3. k \in Filled(f) <=> f[k] # <<>>
    BY <1>1 DEF Filled
  <2> QED BY <1>3, <2>1, <2>2, <2>3
<1>6. Reads(g)
  <2>1. ASSUME NEW k \in 0 .. n
        PROVE  g[k] = IF k = 0 THEN <<>>
                      ELSE IF f[k] = <<>> THEN g[k - 1]
                      ELSE Append(g[k - 1], ParsedLine(f[k]))
    <3>1. k = 0 \/ k \in 1 .. n
      BY <1>1
    <3> QED BY <1>1, <1>4, <1>5, <3>1
  <2>2. g = [k \in 0 .. n |-> g[k]]
    OBVIOUS
  <2> QED BY <2>1, <2>2
<1>7. Reads(read)
  <2> HIDE DEF Reads
  <2> QED BY <1>6
<1>8. Parse(f) = read[n]
  BY DEF Parse, n
<1> HIDE DEF read
<1>9. \A k \in 0 .. n : read[k] = IF k = 0 THEN <<>>
                                  ELSE IF f[k] = <<>> THEN read[k - 1]
                                  ELSE Append(read[k - 1], ParsedLine(f[k]))
  BY <1>7
<1> DEFINE P == {k \in 0 .. n : read[k] \in S /\ Len(read[k]) <= k}
<1>10. 0 \in P
  BY <1>1, <1>9
<1>11. ASSUME NEW k \in 0 + 1 .. n, k - 1 \in P PROVE k \in P
  <2>1. k \in 0 .. n /\ k # 0 /\ k \in DOMAIN f
    BY <1>1
  <2>2. read[k - 1] \in S /\ Len(read[k - 1]) <= k - 1
    BY <1>11
  <2>3. CASE f[k] = <<>>
    <3>1. read[k] = read[k - 1]
      BY <1>9, <2>1, <2>3
    <3> QED BY <2>1, <2>2, <3>1 DEF S
  <2>4. CASE f[k] # <<>>
    <3>1. read[k] = Append(read[k - 1], ParsedLine(f[k]))
      BY <1>9, <2>1, <2>4
    <3>2. ParsedLine(f[k]) \in {ParsedLine(f[j]) : j \in Filled(f)}
      BY <2>1, <2>4 DEF Filled
    <3> DEFINE T == {ParsedLine(f[j]) : j \in Filled(f)}
    <3>3. \A q \in Seq(T), x \in T : /\ Append(q, x) \in Seq(T)
                                    /\ Len(Append(q, x)) = Len(q) + 1 /\ Len(q) \in Nat
      OBVIOUS
    <3> HIDE DEF T
    <3>4. read[k] \in Seq(T) /\ Len(read[k]) = Len(read[k - 1]) + 1 /\ Len(read[k - 1]) \in Nat
      BY <2>2, <3>1, <3>2, <3>3 DEF S, T
    <3>5. Len(read[k]) <= k
      BY <2>1, <2>2, <3>4
    <3> QED BY <2>1, <3>4, <3>5 DEF S, T
  <2> QED BY <2>3, <2>4
<1>12. n \in P
  <2> HIDE DEF P
  <2>1. \A k \in 0 .. n : k \in P
    BY <1>1, <1>10, <1>11, IntervalInduction
  <2> QED BY <1>1, <2>1
<1> QED BY <1>8, <1>12 DEF S, n

Sequenced(rs) == rs \in Seq(Range(rs))

\* What the replay relies on in a trace.
WellFormed(rs) ==
    /\ Len(rs) \in 0 .. MaxBatch /\ DOMAIN rs = 1 .. Len(rs) /\ Sequenced(rs)
    /\ \A k \in 1 .. Len(rs) : /\ rs[k].tick \in Nat
                               /\ rs[k].destination_service \in Services
                               /\ rs[k].type \in {2, 3} => rs[k].trace_flags \in LockIds

LEMMA ParsedWellFormed ==
    ASSUME NEW f \in Files, ~Malformed(f) PROVE WellFormed(Parse(f))
<1>1. f \in Seq(Texts) /\ Len(f) <= MaxBatch
  BY TraceLoopAssumption DEF Texts
<1>2. /\ Parse(f) \in Seq({ParsedLine(f[k]) : k \in Filled(f)})
      /\ Len(Parse(f)) <= Len(f)
  BY <1>1, ParseTyped
<1>3. Len(Parse(f)) \in 0 .. MaxBatch /\ DOMAIN Parse(f) = 1 .. Len(Parse(f))
  BY <1>1, <1>2, EventLoopAssumption
<1>4. ASSUME NEW k \in 1 .. Len(Parse(f)) PROVE Parse(f)[k].tick \in Nat
  <2>1. Parse(f)[k] \in {ParsedLine(f[j]) : j \in Filled(f)}
    BY <1>2
  <2> QED BY <1>1, <2>1, ParsedTick
<1>5. \A k \in 1 .. Len(Parse(f)) :
          /\ Parse(f)[k].destination_service \in Services
          /\ Parse(f)[k].type \in {2, 3} => Parse(f)[k].trace_flags \in LockIds
  <2>1. \A r \in Range(Parse(f)) : /\ r.destination_service \in Services
                                   /\ r.type \in {2, 3} => r.trace_flags \in LockIds
    BY TraceLoopAssumption
  <2>2. \A k \in 1 .. Len(Parse(f)) : Parse(f)[k] \in Range(Parse(f))
    BY <1>3 DEF Range
  <2> QED BY <2>1, <2>2
<1>6. Sequenced(Parse(f))
  <2> DEFINE rs == Parse(f)
  <2>1. PICK S : rs \in Seq(S)
    BY <1>2
  <2> HIDE DEF rs
  <2>2. \A k \in 1 .. Len(rs) : rs[k] \in Range(rs)
    BY <2>1 DEF Range
  <2>3. rs \in Seq(Range(rs))
    BY <2>1, <2>2
  <2> QED BY <2>3 DEF rs, Sequenced
<1> QED BY <1>3, <1>4, <1>5, <1>6 DEF WellFormed

-----------------------------------------------------------------------------
(* Replay.                                                                 *)

\* Where the cursor stops: at the first record of a later tick.
LEMMA CursorStops ==
    ASSUME NEW rs, WellFormed(rs), NEW c \in 1 .. Len(rs) + 1, NEW t \in Nat
    PROVE  LET end == CursorAfter(rs, c, t)
           IN  /\ end \in c .. Len(rs) + 1
               /\ \A k \in c .. end - 1 : rs[k].tick <= t
               /\ end \in 1 .. Len(rs) => rs[end].tick > t
<1> DEFINE later == {k \in c .. Len(rs) : rs[k].tick > t}
           S     == later \cup {Len(rs) + 1}
           end   == CursorAfter(rs, c, t)
<1>1. Len(rs) \in Nat /\ \A k \in 1 .. Len(rs) : rs[k].tick \in Nat
  BY DEF WellFormed
<1>2. S \in SUBSET Nat /\ S # {} /\ S \subseteq c .. Len(rs) + 1
  BY <1>1
<1>3. end = Min(S)
  BY DEF CursorAfter
<1> HIDE DEF S, end
<1>4. end \in S /\ \A y \in S : end <= y
  BY <1>2, <1>3, MinOf
<1>5. end \in c .. Len(rs) + 1
  BY <1>2, <1>4
<1>6. ASSUME NEW k \in c .. end - 1 PROVE rs[k].tick <= t
  <2>1. k \in c .. Len(rs) /\ k < end /\ k \in 1 .. Len(rs)
    BY <1>1, <1>5
  <2>2. k \notin S
    <3>1. ~(end <= k)
      BY <1>5, <2>1
    <3> QED BY <1>4, <3>1
  <2>3. ~(rs[k].tick > t)
    BY <2>1, <2>2 DEF S
  <2> QED BY <1>1, <2>1, <2>3
<1>7. end \in 1 .. Len(rs) => rs[end].tick > t
  BY <1>1, <1>4 DEF S
<1> QED BY <1>5, <1>6, <1>7 DEF end

LEMMA EmittedTyped ==
    ASSUME NEW rs, WellFormed(rs), NEW k \in 1 .. Len(rs), NEW t, Emitted(rs[k], t)
    PROVE  /\ ToEvent(rs[k]) \in SourceEvent
           /\ ToEvent(rs[k]).type = EventTypes[rs[k].type]
           /\ ToEvent(rs[k]).pid = rs[k].destination_service
           /\ rs[k].type \in 1 .. 4
<1>1. rs[k].type \in {1, 2, 3, 4}
  BY DEF Emitted, EventTypes
<1>2. /\ rs[k].destination_service \in Services
      /\ rs[k].type \in {2, 3} => rs[k].trace_flags \in LockIds
  BY DEF WellFormed
<1>3. /\ EventTypes[1] = "Arrival" /\ EventTypes[2] = "LockAcquire"
      /\ EventTypes[3] = "LockRelease" /\ EventTypes[4] = "Service"
  BY DEF EventTypes
<1>4. SourceTypes = {"Arrival", "LockAcquire", "LockRelease", "Service"}
  BY TraceLoopAssumption
<1>5. CASE rs[k].type = 1
  BY <1>2, <1>3, <1>4, <1>5 DEF ToEvent, SourceEvent, Event
<1>6. CASE rs[k].type = 2
  BY <1>2, <1>3, <1>4, <1>6 DEF ToEvent, SourceEvent, Event
<1>7. CASE rs[k].type = 3
  BY <1>2, <1>3, <1>4, <1>7 DEF ToEvent, SourceEvent, Event
<1>8. CASE rs[k].type = 4
  BY <1>2, <1>3, <1>4, <1>8 DEF ToEvent, SourceEvent, Event
<1> QED BY <1>1, <1>5, <1>6, <1>7, <1>8

\* The events pushed as the cursor passes the records, one after another.
Pushing(pushed, rs, c, end, t) ==
    /\ pushed[c] = <<>>
    /\ \A k \in c + 1 .. end :
          pushed[k] = IF Emitted(rs[k - 1], t) THEN Append(pushed[k - 1], ToEvent(rs[k - 1]))
                      ELSE pushed[k - 1]

LEMMA BatchPushed ==
    ASSUME NEW rs, WellFormed(rs), NEW c \in 1 .. Len(rs) + 1, NEW t \in Nat
    PROVE  LET end == CursorAfter(rs, c, t)
           IN  \E pushed : /\ Pushing(pushed, rs, c, end, t)
                           /\ Batch(rs, c, t) = pushed[end]
                           /\ \A k \in c .. end : /\ pushed[k] \in Seq(SourceEvent)
                                                  /\ Len(pushed[k]) <= k - c
<1> DEFINE end == CursorAfter(rs, c, t)
           S   == Seq(SourceEvent)
           Pushes(g) == g = [k \in c .. end |->
                               IF k = c THEN <<>>
                               ELSE IF Emitted(rs[k - 1], t)
                               THEN Append(g[k - 1], ToEvent(rs[k - 1]))
                               ELSE g[k - 1]]
           pushed == CHOOSE g : Pushes(g)
           step == [x \in Int \X S |->
                       IF x[1] \in c + 1 .. end /\ Emitted(rs[x[1] - 1], t)
                       THEN Append(x[2], ToEvent(rs[x[1] - 1])) ELSE x[2]]
<1>1. end \in c .. Len(rs) + 1 /\ end \in Int /\ c \in Int /\ c <= end /\ Len(rs) \in Nat
  <2>1. Len(rs) \in Nat
    BY DEF WellFormed
  <2>2. end \in c .. Len(rs) + 1
    BY CursorStops
  <2> QED BY <2>1, <2>2
<1>2. Batch(rs, c, t) = pushed[end]
  BY DEF Batch
<1> HIDE DEF end
<1>3. ASSUME NEW k \in c + 1 .. end, Emitted(rs[k - 1], t)
      PROVE  ToEvent(rs[k - 1]) \in SourceEvent
  <2>1. k - 1 \in 1 .. Len(rs)
    BY <1>1
  <2> QED BY <1>3, <2>1, EmittedTyped
<1>4. step \in [Int \X S -> S]
  BY <1>1, <1>3
<1>5. \A k \in Int, s \in S :
         step[<<k, s>>] = IF k \in c + 1 .. end /\ Emitted(rs[k - 1], t)
                          THEN Append(s, ToEvent(rs[k - 1])) ELSE s
  OBVIOUS
<1>6. <<>> \in S
  OBVIOUS
<1> HIDE DEF S, step
<1>7. PICK g \in [c .. end -> S] : Recursion(g, c, end, <<>>, step)
  BY <1>1, <1>4, <1>6, RecursionExists
<1>8. ASSUME NEW k \in c .. end
      PROVE  g[k] = IF k = c THEN <<>>
                    ELSE IF Emitted(rs[k - 1], t) THEN Append(g[k - 1], ToEvent(rs[k - 1]))
                    ELSE g[k - 1]
  <2>1. CASE k = c
    BY <1>7, <2>1 DEF Recursion
  <2>2. CASE k # c
    <3>1. k \in c + 1 .. end /\ k - 1 \in c .. end /\ k \in Int
      BY <1>1, <2>2
    <3>2. g[k] = step[<<k, g[k - 1]>>] /\ g[k - 1] \in S
      BY <1>7, <2>2, <3>1 DEF Recursion
    <3> QED BY <1>5, <2>2, <3>1, <3>2
  <2> QED BY <2>1, <2>2
<1>9. Pushes(g)
  <2>1. g = [k \in c .. end |-> g[k]]
    OBVIOUS
  <2> QED BY <1>8, <2>1
<1>10. Pushes(pushed)
  <2> HIDE DEF Pushes
  <2> QED BY <1>9
<1> HIDE DEF pushed
<1>11. \A k \in c .. end : pushed[k] = IF k = c THEN <<>>
                    ELSE IF Emitted(rs[k - 1], t) THEN Append(pushed[k - 1], ToEvent(rs[k - 1]))
                    ELSE pushed[k - 1]
  BY <1>10
<1>12. Pushing(pushed, rs, c, end, t)
  <2>1. pushed[c] = <<>>
    BY <1>1, <1>11
  <2>2. ASSUME NEW k \in c + 1 .. end
        PROVE  pushed[k] = IF Emitted(rs[k - 1], t)
                           THEN Append(pushed[k - 1], ToEvent(rs[k - 1])) ELSE pushed[k - 1]
    <3>1. k \in c .. end /\ k # c
      BY <1>1
    <3> QED BY <1>11, <3>1
  <2> QED BY <2>1, <2>2 DEF Pushing
<1> DEFINE P == {k \in c .. end : pushed[k] \in S /\ Len(pushed[k]) <= k - c}
<1>13. c \in P
  BY <1>1, <1>6, <1>12 DEF Pushing
<1>14. ASSUME NEW k \in c + 1 .. end, k - 1 \in P PROVE k \in P
  <2>1. pushed[k - 1] \in S /\ Len(pushed[k - 1]) <= (k - 1) - c
    BY <1>14
  <2>2. k \in c .. end
    BY <1>1
  <2>3. CASE ~Emitted(rs[k - 1], t)
    <3>1. pushed[k] = pushed[k - 1] /\ Len(pushed[k - 1]) \in Nat
      BY <1>12, <2>1, <2>3 DEF Pushing, S
    <3> QED BY <1>1, <2>1, <2>2, <3>1
  <2>4. CASE Emitted(rs[k - 1], t)
    <3>1. pushed[k] = Append(pushed[k - 1], ToEvent(rs[k - 1]))
      BY <1>12, <2>4 DEF Pushing
    <3>2. ToEvent(rs[k - 1]) \in SourceEvent
      BY <1>3, <2>4
    <3>3. \A q \in S, x \in SourceEvent : /\ Append(q, x) \in S
                                          /\ Len(Append(q, x)) = Len(q) + 1 /\ Len(q) \in Nat
      BY DEF S
    <3>4. pushed[k] \in S /\ Len(pushed[k]) = Len(pushed[k - 1]) + 1 /\ Len(pushed[k - 1]) \in Nat
      BY <2>1, <3>1, <3>2, <3>3
    <3> QED BY <1>1, <2>1, <2>2, <3>4
  <2> QED BY <2>3, <2>4
<1>15. \A k \in c .. end : k \in P
  <2> HIDE DEF P
  <2> QED BY <1>1, <1>13, <1>14, IntervalInduction
<1> QED BY <1>2, <1>12, <1>15 DEF end, S

LEMMA ReplayBatchTyped ==
    ASSUME NEW rs, WellFormed(rs), NEW c \in 1 .. Len(rs) + 1, NEW t \in Nat
    PROVE  Batch(rs, c, t) \in Batches
<1> DEFINE end == CursorAfter(rs, c, t)
<1>1. end \in c .. Len(rs) + 1 /\ Len(rs) \in 0 .. MaxBatch /\ MaxBatch \in Nat
  BY CursorStops, EventLoopAssumption DEF WellFormed
<1>2. PICK pushed : /\ Batch(rs, c, t) = pushed[end]
                    /\ \A k \in c .. end : /\ pushed[k] \in Seq(SourceEvent)
                                           /\ Len(pushed[k]) <= k - c
  BY BatchPushed
<1> HIDE DEF end
<1> DEFINE b == Batch(rs, c, t)
<1>3. b \in Seq(SourceEvent) /\ Len(b) <= MaxBatch
  BY <1>1, <1>2
<1> HIDE DEF b
<1>4. Len(b) \in 0 .. MaxBatch /\ b \in [1 .. Len(b) -> SourceEvent]
  BY <1>1, <1>3
<1> QED BY <1>4 DEF Batches, BoundedSeq, SeqOf, b

-----------------------------------------------------------------------------
(* The trace as it is loaded, and the cursor.                              *)

ReplayInv ==
    /\ file \in Files
    /\ stage \in {"file", "refused", "crashed", "ready"}
    /\ WellFormed(records)
    /\ cursor \in 1 .. Len(records) + 1
    /\ stage = "file" => records = <<>> /\ cursor = 1
    /\ stage = "crashed" => Validated(records).past_end

LEMMA ReplayInit == TraceInit => ReplayInv
<1>1. WellFormed(<<>>)
  BY EventLoopAssumption DEF WellFormed, Sequenced
<1> QED BY <1>1 DEF TraceInit, ReplayInv

\* What the steps other than those of the trace leave alone.
LEMMA ReplayStep ==
    ASSUME ReplayInv, TypeOK, [TraceNext]_traceLoopVars PROVE ReplayInv'
<1>1. CASE UNCHANGED <<inputVars, cursor>>
  BY <1>1 DEF ReplayInv, inputVars
<1>2. CASE Refuse
  BY <1>2 DEF Refuse, ReplayInv
<1>3. CASE Load
  <2>1. /\ UNCHANGED <<file, cursor>> /\ cursor = 1
        /\ records' = Parse(file) /\ ~Malformed(file) /\ file \in Files
        /\ stage' \in {"ready", "crashed"}
        /\ stage' = "crashed" => Validated(records').past_end
    BY <1>3 DEF Load, ReplayInv
  <2>2. WellFormed(records')
    BY <2>1, ParsedWellFormed
  <2>3. cursor' \in 1 .. Len(records') + 1
    BY <2>1, <2>2 DEF WellFormed
  <2> QED BY <2>1, <2>2, <2>3 DEF ReplayInv, WellFormed
<1>4. CASE BeginTraceTick
  <2>1. /\ UNCHANGED inputVars /\ cursor' = CursorAfter(records, cursor, tick)
        /\ stage = "ready" /\ tick \in Nat
    BY <1>4 DEF BeginTraceTick, TypeOK
  <2>2. WellFormed(records) /\ cursor \in 1 .. Len(records) + 1
    BY DEF ReplayInv
  <2>3. Len(records) \in Nat
    BY <2>2, EventLoopAssumption DEF WellFormed
  <2>4. cursor' \in cursor .. Len(records) + 1
    BY <2>1, <2>2, CursorStops
  <2>5. cursor' \in 1 .. Len(records) + 1
    BY <2>2, <2>3, <2>4
  <2> QED BY <2>1, <2>5 DEF ReplayInv, inputVars
<1> QED BY <1>1, <1>2, <1>3, <1>4 DEF TraceNext, DecideInMode, ServeAndRecord,
            MeasureAndRecord, Stopped, traceLoopVars

LEMMA BeginTraceTickBegins ==
    ASSUME ReplayInv, TypeOK, BeginTraceTick PROVE BeginTick
<1>1. Batch(records, cursor, tick) \in Batches
  BY ReplayBatchTyped DEF ReplayInv, TypeOK
<1> QED BY <1>1 DEF BeginTraceTick, BeginTick

LEMMA TraceStepIsStep ==
    ASSUME ReplayInv, TypeOK, [TraceNext]_traceLoopVars PROVE [Next]_vars
<1>1. CASE BeginTraceTick
  BY <1>1, BeginTraceTickBegins DEF Next
<1>2. ASSUME NEW e \in Event, DecideInMode(e) PROVE Next
  <2>1. HandleSchedule(e)
    BY <1>2 DEF DecideInMode, HandleSchedule
  <2> QED BY <2>1 DEF Next
<1>3. ASSUME NEW e \in Event, ServeAndRecord(e) \/ MeasureAndRecord(e) PROVE Next
  BY <1>3 DEF ServeAndRecord, MeasureAndRecord, Next
<1>4. CASE OtherTraceStep
  BY <1>4 DEF OtherTraceStep, Next
<1>5. CASE Refuse \/ Load \/ Stopped \/ UNCHANGED traceLoopVars
  BY <1>5 DEF Refuse, Load, Stopped, traceLoopVars
<1> QED BY <1>1, <1>2, <1>3, <1>4, <1>5 DEF TraceNext

LEMMA ReplayInvariant == TraceSpec => [](LockInv /\ RegistryInv /\ ReplayInv) /\ Spec
<1>1. TraceInit => Init /\ LockInv /\ RegistryInv /\ ReplayInv
  <2>1. Init => LockInv /\ RegistryInv
    BY InitLocks, InitTypes, InitRegistry, EventLoopAssumption DEF RegistryInv, Init
  <2> QED BY <2>1, ReplayInit DEF TraceInit
<1>2. LockInv /\ RegistryInv /\ ReplayInv /\ [TraceNext]_traceLoopVars
          => LockInv' /\ RegistryInv' /\ ReplayInv' /\ [Next]_vars
  <2> SUFFICES ASSUME LockInv, RegistryInv, ReplayInv, [TraceNext]_traceLoopVars
               PROVE  LockInv' /\ RegistryInv' /\ ReplayInv' /\ [Next]_vars
    OBVIOUS
  <2>1. [Next]_vars /\ ReplayInv'
    BY ReplayStep, TraceStepIsStep DEF RegistryInv
  <2>2. LockInv'
    BY <2>1, LockInvStep
  <2>3. RegistryInv'
    BY <2>1, <2>2, RegistryStep
  <2> QED BY <2>1, <2>2, <2>3
<1> QED BY <1>1, <1>2, PTL DEF TraceSpec, Spec

(***************************************************************************)
(* Replaying any trace that parses, whatever its length and order, is one  *)
(* of the behaviours of the event loop: what has been proved of the loop   *)
(* with any source holds of a replay, and the cursor never leaves the      *)
(* trace.                                                                  *)
(***************************************************************************)
THEOREM ReplayImplementsLoop == TraceSpec => ReplaysThroughLoop
BY ReplayInvariant, PTL DEF ReplaysThroughLoop

\* All that is known of a replay from the loop it implements.
LoopInv == Context /\ DrainInv /\ OnlineInv /\ OfflineInv

LEMMA TraceContext == TraceSpec => [](LoopInv /\ ReplayInv) /\ [][Next]_vars
<1>1. ~LockMode
  BY TraceLoopAssumption
<1>2. Spec => [](Context /\ DrainInv /\ OnlineInv) /\ [][Next]_vars
  BY ContextInvariant, DrainInvariant, OnlineInvariant, PTL DEF Spec
<1>3. Spec => []OfflineInv
  BY <1>1, OfflineInvariant
<1> QED BY <1>2, <1>3, ReplayInvariant, PTL DEF LoopInv

-----------------------------------------------------------------------------
(* The decisions of the report.                                            *)

StreakFields == {"sum_streaks", "streak_count", "max_streak", "transition_count",
                 "last_mode", "current_streak"}

ChoiceFields == {"decision_count", "context_switches", "last_chosen_pid",
                 "mode_mw_count", "mode_embi_count"}

DecisionFields == StreakFields \cup ChoiceFields

\* Two reports agree on some fields.
Agree(r, om, fields) == fields \subseteq DOMAIN r /\ \A f \in fields : r[f] = om[f]

\* What is known of the fields of the decisions: the ended streaks are no
\* longer than the longest of them, and the current one is not empty.
StreaksSound(om) ==
    /\ DecisionFields \subseteq DOMAIN om
    /\ \A f \in DecisionFields \ {"last_mode"} : om[f] \in Nat
    /\ om.last_mode \in {OM!NoMode, 1, 2}
    /\ om.last_mode = OM!NoMode <=> om.current_streak = 0
    /\ om.sum_streaks + om.current_streak = om.mode_mw_count + om.mode_embi_count
    /\ om.streak_count = om.transition_count
    /\ om.sum_streaks <= om.max_streak * om.streak_count
    /\ om.last_chosen_pid = OM!Nobody <=> om.decision_count = 0
    /\ IF om.decision_count = 0 THEN om.context_switches = 0
       ELSE om.context_switches < om.decision_count

LEMMA StreaksAgree ==
    ASSUME NEW om, StreaksSound(om), NEW r, Agree(r, om, DecisionFields)
    PROVE  StreaksSound(r)
<1>1. \A f \in DecisionFields : r[f] = om[f]
  BY DEF Agree
<1>2. /\ r.sum_streaks = om.sum_streaks /\ r.streak_count = om.streak_count
      /\ r.max_streak = om.max_streak /\ r.transition_count = om.transition_count
      /\ r.last_mode = om.last_mode /\ r.current_streak = om.current_streak
      /\ r.decision_count = om.decision_count /\ r.context_switches = om.context_switches
      /\ r.last_chosen_pid = om.last_chosen_pid /\ r.mode_mw_count = om.mode_mw_count
      /\ r.mode_embi_count = om.mode_embi_count
  BY <1>1 DEF DecisionFields, StreakFields, ChoiceFields
<1>3. \A f \in DecisionFields \ {"last_mode"} : r[f] \in Nat
  BY <1>1 DEF StreaksSound
<1> QED BY <1>2, <1>3 DEF StreaksSound, Agree

\* What Streaks changes.
LEMMA StreaksChanges ==
    ASSUME NEW om, DecisionFields \subseteq DOMAIN om, NEW m \in 1 .. 2
    PROVE  LET r == OM!Streaks(om, m)
           IN  /\ DOMAIN r = DOMAIN om
               /\ \A f \in DOMAIN om \ StreakFields : r[f] = om[f]
               /\ r.last_mode = m
               /\ m = om.last_mode =>
                     /\ r.current_streak = om.current_streak + 1
                     /\ \A f \in StreakFields \ {"current_streak"} : r[f] = om[f]
               /\ m # om.last_mode =>
                     /\ r.current_streak = 1
                     /\ r.sum_streaks = om.sum_streaks + om.current_streak
                     /\ r.streak_count = IF om.current_streak > 0 THEN om.streak_count + 1
                                         ELSE om.streak_count
                     /\ r.max_streak = OM!Larger(om.max_streak, om.current_streak)
                     /\ r.transition_count = IF om.last_mode # OM!NoMode
                                             THEN om.transition_count + 1
                                             ELSE om.transition_count
<1>1. StreakFields \subseteq DOMAIN om /\ m # 0
  BY DEF DecisionFields
<1>2. CASE m = om.last_mode
  BY <1>1, <1>2 DEF OM!Streaks, StreakFields
<1>3. CASE m # om.last_mode
  BY <1>1, <1>3 DEF OM!Streaks, StreakFields
<1> QED BY <1>2, <1>3

\* m * n with a longer streak and one more of them.
LEMMA StreakProduct ==
    ASSUME NEW s \in Nat, NEW c \in Nat, NEW x \in Nat, NEW n \in Nat, s <= x * n
    PROVE  /\ s <= OM!Larger(x, c) * n
           /\ s + c <= OM!Larger(x, c) * (n + 1)
           /\ OM!Larger(x, c) \in Nat
<1> DEFINE y == OM!Larger(x, c)
<1>1. y \in Nat /\ x <= y /\ c <= y
  BY DEF OM!Larger
<1> HIDE DEF y
<1>2. x * n <= y * n
  BY <1>1
<1>3. y * (n + 1) = y * n + y /\ x * n \in Nat /\ y * n \in Nat
  BY <1>1
<1> QED BY <1>1, <1>2, <1>3 DEF y

\* The record before its streaks are updated.
Chosen(om, i, m) ==
    [om EXCEPT
        !.decision_count   = @ + 1,
        !.context_switches = IF om.last_chosen_pid \notin {i, OM!Nobody} THEN @ + 1 ELSE @,
        !.last_chosen_pid  = i,
        !.mode_mw_count    = IF m = 1 THEN @ + 1 ELSE @,
        !.mode_embi_count  = IF m = 2 THEN @ + 1 ELSE @]

LEMMA ChosenChanges ==
    ASSUME NEW om, DecisionFields \subseteq DOMAIN om, NEW i, NEW m
    PROVE  LET r == Chosen(om, i, m)
           IN  /\ DOMAIN r = DOMAIN om
               /\ \A f \in DOMAIN om \ ChoiceFields : r[f] = om[f]
               /\ r.decision_count = om.decision_count + 1
               /\ r.context_switches = IF om.last_chosen_pid \notin {i, OM!Nobody}
                                       THEN om.context_switches + 1 ELSE om.context_switches
               /\ r.last_chosen_pid = i
               /\ r.mode_mw_count = IF m = 1 THEN om.mode_mw_count + 1 ELSE om.mode_mw_count
               /\ r.mode_embi_count = IF m = 2 THEN om.mode_embi_count + 1
                                      ELSE om.mode_embi_count
<1>1. ChoiceFields \subseteq DOMAIN om
  BY DEF DecisionFields
<1> QED BY <1>1 DEF Chosen, ChoiceFields

LEMMA DecisionChanges ==
    ASSUME NEW om, DecisionFields \subseteq DOMAIN om, NEW i, NEW m
    PROVE  /\ DOMAIN OM!RecordDecision(om, i, m) = DOMAIN om
           /\ \A f \in DOMAIN om \ DecisionFields : OM!RecordDecision(om, i, m)[f] = om[f]
           /\ i = OM!Nobody => OM!RecordDecision(om, i, m) = om
           /\ i # OM!Nobody /\ m = 0 => OM!RecordDecision(om, i, m) = Chosen(om, i, m)
           /\ i # OM!Nobody /\ m \in 1 .. 2 =>
                 OM!RecordDecision(om, i, m) = OM!Streaks(Chosen(om, i, m), m)
<1>1. i # OM!Nobody => OM!RecordDecision(om, i, m) = OM!Streaks(Chosen(om, i, m), m)
  BY DEF OM!RecordDecision, Chosen
<1>2. m = 0 => OM!Streaks(Chosen(om, i, m), m) = Chosen(om, i, m)
  BY DEF OM!Streaks
<1>3. i = OM!Nobody => OM!RecordDecision(om, i, m) = om
  BY DEF OM!RecordDecision
<1>4. /\ DOMAIN Chosen(om, i, m) = DOMAIN om
      /\ \A f \in DOMAIN om \ ChoiceFields : Chosen(om, i, m)[f] = om[f]
  BY ChosenChanges
<1>5. StreakFields \subseteq DOMAIN Chosen(om, i, m)
  BY <1>4 DEF DecisionFields
<1>6. /\ DOMAIN OM!Streaks(Chosen(om, i, m), m) = DOMAIN om
      /\ \A f \in DOMAIN om \ StreakFields :
            OM!Streaks(Chosen(om, i, m), m)[f] = Chosen(om, i, m)[f]
  <2> DEFINE c == Chosen(om, i, m)
  <2>1. DOMAIN c = DOMAIN om
    BY <1>4
  <2> HIDE DEF c
  <2>2. CASE m = 0
    BY <2>1, <2>2 DEF OM!Streaks, c
  <2>3. CASE m # 0 /\ m = c.last_mode
    BY <2>1, <2>3 DEF OM!Streaks, c, StreakFields
  <2>4. CASE m # 0 /\ m # c.last_mode
    <3>1. OM!Streaks(c, m) = [c EXCEPT
            !.sum_streaks      = @ + c.current_streak,
            !.streak_count     = IF c.current_streak > 0 THEN @ + 1 ELSE @,
            !.max_streak       = OM!Larger(@, c.current_streak),
            !.transition_count = IF c.last_mode # OM!NoMode THEN @ + 1 ELSE @,
            !.last_mode        = m,
            !.current_streak   = 1]
      BY <2>4 DEF OM!Streaks
    <3> QED BY <2>1, <3>1 DEF StreakFields, c
  <2> QED BY <2>2, <2>3, <2>4 DEF c
<1> QED BY <1>1, <1>2, <1>3, <1>4, <1>6 DEF DecisionFields

LEMMA DecisionKeeps ==
    ASSUME NEW om, DecisionFields \subseteq DOMAIN om, NEW i, NEW m
    PROVE  /\ DOMAIN OM!RecordDecision(om, i, m) = DOMAIN om
           /\ \A f \in DOMAIN om \ DecisionFields : OM!RecordDecision(om, i, m)[f] = om[f]
  BY DecisionChanges

LEMMA DecisionStreaks ==
    ASSUME NEW om, StreaksSound(om), NEW i \in Nat, NEW m \in 0 .. 2
    PROVE  StreaksSound(OM!RecordDecision(om, i, m))
<1> DEFINE c == Chosen(om, i, m)
           r == OM!RecordDecision(om, i, m)
<1>1. DecisionFields \subseteq DOMAIN om
  BY DEF StreaksSound
<1>2. /\ om.sum_streaks \in Nat /\ om.streak_count \in Nat /\ om.max_streak \in Nat
      /\ om.transition_count \in Nat /\ om.current_streak \in Nat
      /\ om.decision_count \in Nat /\ om.context_switches \in Nat
      /\ om.mode_mw_count \in Nat /\ om.mode_embi_count \in Nat
      /\ om.last_chosen_pid \in Nat
  BY DEF StreaksSound, DecisionFields, StreakFields, ChoiceFields
<1>3. CASE i = OM!Nobody
  BY <1>1, <1>3, DecisionChanges
<1>4. CASE i # OM!Nobody
  <2>1. /\ DOMAIN c = DOMAIN om
        /\ \A f \in DOMAIN om \ ChoiceFields : c[f] = om[f]
        /\ c.decision_count = om.decision_count + 1
        /\ c.context_switches = IF om.last_chosen_pid \notin {i, OM!Nobody}
                                THEN om.context_switches + 1 ELSE om.context_switches
        /\ c.last_chosen_pid = i
        /\ c.mode_mw_count = IF m = 1 THEN om.mode_mw_count + 1 ELSE om.mode_mw_count
        /\ c.mode_embi_count = IF m = 2 THEN om.mode_embi_count + 1 ELSE om.mode_embi_count
    BY <1>1, ChosenChanges
  <2>2. /\ c.sum_streaks = om.sum_streaks /\ c.streak_count = om.streak_count
        /\ c.max_streak = om.max_streak /\ c.transition_count = om.transition_count
        /\ c.current_streak = om.current_streak /\ c.last_mode = om.last_mode
    BY <1>1, <2>1 DEF DecisionFields, StreakFields, ChoiceFields
  <2> HIDE DEF c
  <2>3. ASSUME NEW q, DOMAIN q = DOMAIN c, \A f \in ChoiceFields : q[f] = c[f]
        PROVE  /\ q.decision_count \in Nat /\ q.context_switches \in Nat
               /\ q.mode_mw_count \in Nat /\ q.mode_embi_count \in Nat
               /\ q.last_chosen_pid \in Nat
               /\ q.last_chosen_pid # OM!Nobody /\ q.decision_count # 0
               /\ q.context_switches < q.decision_count
               /\ q.mode_mw_count + q.mode_embi_count
                    = om.mode_mw_count + om.mode_embi_count + (IF m = 0 THEN 0 ELSE 1)
    <3>1. /\ q.decision_count = c.decision_count /\ q.context_switches = c.context_switches
          /\ q.last_chosen_pid = c.last_chosen_pid /\ q.mode_mw_count = c.mode_mw_count
          /\ q.mode_embi_count = c.mode_embi_count
      BY <2>3 DEF ChoiceFields
    <3>2. q.context_switches < q.decision_count
      <4>1. /\ om.last_chosen_pid = OM!Nobody <=> om.decision_count = 0
            /\ IF om.decision_count = 0 THEN om.context_switches = 0
               ELSE om.context_switches < om.decision_count
        BY DEF StreaksSound
      <4> QED BY <1>2, <2>1, <3>1, <4>1
    <3>3. m = 0 \/ m = 1 \/ m = 2
      OBVIOUS
    <3> QED BY <1>2, <1>4, <2>1, <3>1, <3>2, <3>3
  <2>4. /\ om.last_mode \in {OM!NoMode, 1, 2}
        /\ om.last_mode = OM!NoMode <=> om.current_streak = 0
        /\ om.sum_streaks + om.current_streak = om.mode_mw_count + om.mode_embi_count
        /\ om.streak_count = om.transition_count
        /\ om.sum_streaks <= om.max_streak * om.streak_count
    BY DEF StreaksSound
  <2>5. ASSUME NEW q, DOMAIN q = DOMAIN c, \A f \in ChoiceFields : q[f] = c[f],
               /\ q.sum_streaks \in Nat /\ q.streak_count \in Nat /\ q.max_streak \in Nat
               /\ q.transition_count \in Nat /\ q.current_streak \in Nat
               /\ q.last_mode \in {OM!NoMode, 1, 2},
               q.last_mode = OM!NoMode <=> q.current_streak = 0,
               q.sum_streaks + q.current_streak
                   = om.sum_streaks + om.current_streak + (IF m = 0 THEN 0 ELSE 1),
               q.streak_count = q.transition_count,
               q.sum_streaks <= q.max_streak * q.streak_count
        PROVE  StreaksSound(q)
    <3>1. /\ q.decision_count \in Nat /\ q.context_switches \in Nat
          /\ q.mode_mw_count \in Nat /\ q.mode_embi_count \in Nat
          /\ q.last_chosen_pid \in Nat
          /\ q.last_chosen_pid # OM!Nobody /\ q.decision_count # 0
          /\ q.context_switches < q.decision_count
      BY <2>3, <2>5
    <3>2. q.sum_streaks + q.current_streak = q.mode_mw_count + q.mode_embi_count
      <4>1. q.mode_mw_count + q.mode_embi_count
                    = om.mode_mw_count + om.mode_embi_count + (IF m = 0 THEN 0 ELSE 1)
        BY <2>3, <2>5
      <4> QED BY <2>4, <2>5, <4>1
    <3>3. DecisionFields \subseteq DOMAIN q
      BY <1>1, <2>1, <2>5
    <3>4. \A f \in DecisionFields \ {"last_mode"} : q[f] \in Nat
      BY <2>5, <3>1 DEF DecisionFields, StreakFields, ChoiceFields
    <3> QED BY <2>5, <3>1, <3>2, <3>3, <3>4 DEF StreaksSound
  <2>6. CASE m = 0
    <3>1. r = c
      BY <1>1, <1>4, <2>6, DecisionChanges DEF c
    <3>2. StreaksSound(c)
      BY <1>2, <2>2, <2>4, <2>5, <2>6
    <3> QED BY <3>1, <3>2
  <2>7. CASE m \in 1 .. 2
    <3> DEFINE q == OM!Streaks(c, m)
    <3>1. r = q
      BY <1>1, <1>4, <2>7, DecisionChanges DEF c
    <3>2. DecisionFields \subseteq DOMAIN c
      BY <1>1, <2>1
    <3>3. /\ DOMAIN q = DOMAIN c
          /\ \A f \in DOMAIN c \ StreakFields : q[f] = c[f]
          /\ q.last_mode = m
          /\ m = c.last_mode =>
                /\ q.current_streak = c.current_streak + 1
                /\ \A f \in StreakFields \ {"current_streak"} : q[f] = c[f]
          /\ m # c.last_mode =>
                /\ q.current_streak = 1
                /\ q.sum_streaks = c.sum_streaks + c.current_streak
                /\ q.streak_count = IF c.current_streak > 0 THEN c.streak_count + 1
                                    ELSE c.streak_count
                /\ q.max_streak = OM!Larger(c.max_streak, c.current_streak)
                /\ q.transition_count = IF c.last_mode # OM!NoMode
                                        THEN c.transition_count + 1
                                        ELSE c.transition_count
      BY <2>7, <3>2, StreaksChanges
    <3> HIDE DEF q
    <3>4. \A f \in ChoiceFields : q[f] = c[f]
      BY <3>2, <3>3 DEF DecisionFields, StreakFields, ChoiceFields
    <3>5. m # 0 /\ m \in {OM!NoMode, 1, 2} /\ m # OM!NoMode
      BY <2>7 DEF OM!NoMode
    <3>6. CASE m = c.last_mode
      <4>1. /\ q.current_streak = om.current_streak + 1
            /\ q.sum_streaks = om.sum_streaks /\ q.streak_count = om.streak_count
            /\ q.max_streak = om.max_streak /\ q.transition_count = om.transition_count
        BY <2>2, <3>3, <3>6 DEF StreakFields
      <4>2. q.last_mode = m /\ DOMAIN q = DOMAIN c
        BY <3>3
      <4>3. StreaksSound(q)
        BY <1>2, <2>4, <2>5, <3>4, <3>5, <4>1, <4>2
      <4> QED BY <3>1, <4>3
    <3>7. CASE m # c.last_mode
      <4>1. /\ q.current_streak = 1
            /\ q.sum_streaks = om.sum_streaks + om.current_streak
            /\ q.streak_count = IF om.current_streak > 0 THEN om.streak_count + 1
                                ELSE om.streak_count
            /\ q.max_streak = OM!Larger(om.max_streak, om.current_streak)
            /\ q.transition_count = IF om.last_mode # OM!NoMode
                                    THEN om.transition_count + 1
                                    ELSE om.transition_count
        BY <2>2, <3>3, <3>7
      <4>2. q.last_mode = m /\ DOMAIN q = DOMAIN c
        BY <3>3
      <4>3. /\ om.sum_streaks <= q.max_streak * om.streak_count
            /\ om.sum_streaks + om.current_streak <= q.max_streak * (om.streak_count + 1)
            /\ q.max_streak \in Nat
        <5>1. \A s, k, x, n \in Nat : s <= x * n =>
                  /\ s <= OM!Larger(x, k) * n /\ s + k <= OM!Larger(x, k) * (n + 1)
                  /\ OM!Larger(x, k) \in Nat
          BY StreakProduct
        <5> DEFINE s == om.sum_streaks
                   k == om.current_streak
                   x == om.max_streak
                   n == om.streak_count
        <5>2. s \in Nat /\ k \in Nat /\ x \in Nat /\ n \in Nat /\ s <= x * n
          BY <1>2, <2>4
        <5>3. q.max_streak = OM!Larger(x, k)
          BY <4>1
        <5> HIDE DEF s, k, x, n
        <5>4. /\ s <= OM!Larger(x, k) * n /\ s + k <= OM!Larger(x, k) * (n + 1)
              /\ OM!Larger(x, k) \in Nat
          BY <5>1, <5>2
        <5> QED BY <5>3, <5>4 DEF s, k, x, n
      <4>4. q.sum_streaks <= q.max_streak * q.streak_count
        <5>1. CASE om.current_streak > 0
          BY <4>1, <4>3, <5>1
        <5>2. CASE ~(om.current_streak > 0)
          <6>1. om.current_streak = 0 /\ om.sum_streaks + 0 = om.sum_streaks
            BY <1>2, <5>2
          <6> QED BY <4>1, <4>3, <5>2, <6>1
        <5> QED BY <5>1, <5>2
      <4>5. /\ q.sum_streaks \in Nat /\ q.streak_count \in Nat /\ q.transition_count \in Nat
            /\ q.streak_count = q.transition_count
        BY <1>2, <2>4, <4>1
      <4>6. StreaksSound(q)
        BY <1>2, <2>4, <2>5, <3>4, <3>5, <4>1, <4>2, <4>3, <4>4, <4>5
      <4> QED BY <3>1, <4>6
    <3> QED BY <3>6, <3>7
  <2> QED BY <2>6, <2>7
<1> QED BY <1>3, <1>4

\* What the other recording methods change.
WaitFields  == {"wait_times", "total_wait_sum", "max_wait_seen"}
QueueFields == {"queue_samples", "queue_hist", "queue_sum", "queue_max", "queue_sum_per_proc",
                "queue_sq_per_proc", "queue_min_per_proc"}
DriftFields == {"sample_counter", "drift_samples"}
VFields     == {"sum_lyapunov_v", "max_lyapunov_v", "v_samples_count", "v_samples"}

LEMMA FieldsKept ==
    ASSUME NEW om
    PROVE  /\ \A w : /\ DOMAIN OM!RecordWaitingTime(om, w) = DOMAIN om
                     /\ \A f \in DOMAIN om \ WaitFields : OM!RecordWaitingTime(om, w)[f] = om[f]
           /\ \A ps : /\ DOMAIN OM!RecordQueueSnapshot(om, ps) = DOMAIN om
                      /\ \A f \in DOMAIN om \ QueueFields :
                            OM!RecordQueueSnapshot(om, ps)[f] = om[f]
           /\ \A d : /\ DOMAIN OM!RecordDrift(om, d) = DOMAIN om
                     /\ \A f \in DOMAIN om \ DriftFields : OM!RecordDrift(om, d)[f] = om[f]
           /\ \A v : /\ DOMAIN OM!RecordLyapunovV(om, v) = DOMAIN om
                     /\ \A f \in DOMAIN om \ VFields : OM!RecordLyapunovV(om, v)[f] = om[f]
<1>1. ASSUME NEW w
      PROVE  /\ DOMAIN OM!RecordWaitingTime(om, w) = DOMAIN om
             /\ \A f \in DOMAIN om \ WaitFields : OM!RecordWaitingTime(om, w)[f] = om[f]
  BY DEF OM!RecordWaitingTime, WaitFields
<1>2. ASSUME NEW ps
      PROVE  /\ DOMAIN OM!RecordQueueSnapshot(om, ps) = DOMAIN om
             /\ \A f \in DOMAIN om \ QueueFields : OM!RecordQueueSnapshot(om, ps)[f] = om[f]
  <2>1. PICK a, b, c, d, e, g, h :
            OM!RecordQueueSnapshot(om, ps)
                = [om EXCEPT !.queue_samples = a, !.queue_hist = b, !.queue_sum = c,
                             !.queue_max = d, !.queue_sum_per_proc = e,
                             !.queue_sq_per_proc = g, !.queue_min_per_proc = h]
    BY DEF OM!RecordQueueSnapshot
  <2> QED BY <2>1 DEF QueueFields
<1>3. ASSUME NEW d
      PROVE  /\ DOMAIN OM!RecordDrift(om, d) = DOMAIN om
             /\ \A f \in DOMAIN om \ DriftFields : OM!RecordDrift(om, d)[f] = om[f]
  BY DEF OM!RecordDrift, DriftFields
<1>4. ASSUME NEW v
      PROVE  /\ DOMAIN OM!RecordLyapunovV(om, v) = DOMAIN om
             /\ \A f \in DOMAIN om \ VFields : OM!RecordLyapunovV(om, v)[f] = om[f]
  BY DEF OM!RecordLyapunovV, VFields
<1> QED BY <1>1, <1>2, <1>3, <1>4

\* How a step changes the report: not at all, by one waiting time, or by all
\* that the Metrics event records.
LEMMA ReportSteps ==
    ASSUME [TraceNext]_traceLoopVars
    PROVE  \/ report' = report
           \/ \E w : report' = OM!RecordWaitingTime(report, w)
           \/ \E v, d : report' = Recorded(report, v, d)
  BY DEF TraceNext, Refuse, Load, BeginTraceTick, DecideInMode, ServeAndRecord,
         MeasureAndRecord, Stopped, traceLoopVars, reportVars

ModeInv == mode \in 0 .. 2

LEMMA ModeStep == ASSUME ModeInv, [TraceNext]_traceLoopVars PROVE ModeInv'
<1>1. Modes \subseteq 0 .. 2
  BY TraceLoopAssumption
<1> QED BY <1>1 DEF TraceNext, Refuse, Load, BeginTraceTick, DecideInMode, ServeAndRecord,
             MeasureAndRecord, Stopped, traceLoopVars, reportVars, ModeInv

StreakInv == ModeInv /\ StreaksSound(report)

LEMMA StreakStart == TraceInit => StreakInv
<1>1. StreaksSound(OM!OfflineStart)
  BY DEF OM!OfflineStart, StreaksSound, DecisionFields, StreakFields, ChoiceFields,
         OM!Nobody, OM!NoMode
<1> QED BY <1>1 DEF TraceInit, StreakInv, ModeInv

LEMMA StreakStep ==
    ASSUME StreakInv, TypeOK, [TraceNext]_traceLoopVars PROVE StreakInv'
<1>1. ModeInv'
  BY ModeStep DEF StreakInv
<1>2. StreaksSound(report) /\ mode \in 0 .. 2 /\ last \in Nat
  BY DEF StreakInv, ModeInv, TypeOK
<1>3. DecisionFields \cap (WaitFields \cup QueueFields \cup DriftFields \cup VFields) = {}
  BY DEF DecisionFields, StreakFields, ChoiceFields, WaitFields, QueueFields, DriftFields, VFields
<1>4. ASSUME NEW om, StreaksSound(om)
      PROVE  /\ \A w : StreaksSound(OM!RecordWaitingTime(om, w))
             /\ \A ps : StreaksSound(OM!RecordQueueSnapshot(om, ps))
             /\ \A d : StreaksSound(OM!RecordDrift(om, d))
             /\ \A v : StreaksSound(OM!RecordLyapunovV(om, v))
  <2>1. DecisionFields \subseteq DOMAIN om
    BY <1>4 DEF StreaksSound
  <2>2. /\ \A w : Agree(OM!RecordWaitingTime(om, w), om, DecisionFields)
        /\ \A ps : Agree(OM!RecordQueueSnapshot(om, ps), om, DecisionFields)
        /\ \A d : Agree(OM!RecordDrift(om, d), om, DecisionFields)
        /\ \A v : Agree(OM!RecordLyapunovV(om, v), om, DecisionFields)
    BY <1>3, <2>1, FieldsKept DEF Agree
  <2> QED BY <1>4, <2>2, StreaksAgree
<1>5. ASSUME NEW v, NEW d PROVE StreaksSound(Recorded(report, v, d))
  <2> DEFINE snapshot == IF tick % SnapshotEvery = 0
                         THEN OM!RecordQueueSnapshot(report, processes) ELSE report
             decided  == OM!RecordDecision(snapshot, last, mode)
  <2>1. StreaksSound(snapshot)
    BY <1>2, <1>4
  <2>2. Recorded(report, v, d) = OM!RecordLyapunovV(OM!RecordDrift(decided, d), v)
    BY DEF Recorded
  <2> HIDE DEF snapshot
  <2>3. StreaksSound(decided)
    BY <1>2, <2>1, DecisionStreaks
  <2> HIDE DEF decided
  <2>4. StreaksSound(OM!RecordDrift(decided, d))
    BY <1>4, <2>3
  <2> QED BY <1>4, <2>2, <2>4
<1>6. StreaksSound(report')
  BY <1>2, <1>4, <1>5, ReportSteps
<1> QED BY <1>1, <1>6 DEF StreakInv

(***************************************************************************)
(* However the modes of a hybrid policy change in a run of any length, the *)
(* streaks of the report partition its decisions, one ends at each change  *)
(* of mode, none is longer than the longest, and fewer context switches    *)
(* than decisions are counted.                                             *)
(***************************************************************************)
THEOREM StreaksStayPartition == TraceSpec => []StreaksPartition
<1>1. StreakInv => StreaksPartition
  <2> SUFFICES ASSUME StreakInv PROVE StreaksPartition
    OBVIOUS
  <2> DEFINE om == report
             s  == om.sum_streaks
             c  == om.current_streak
             n  == om.streak_count
             x  == om.max_streak
  <2>1. s \in Nat /\ c \in Nat /\ n \in Nat /\ x \in Nat /\ s <= x * n
    BY DEF StreakInv, StreaksSound, DecisionFields, StreakFields
  <2>2. /\ s + c = om.mode_mw_count + om.mode_embi_count
        /\ n = om.transition_count
        /\ om.context_switches < om.decision_count \/ om.decision_count = 0
    BY DEF StreakInv, StreaksSound
  <2>3. /\ OM!HybridStreakSum(report) = s + c
        /\ OM!HybridStreakCount(report) = n + (IF c > 0 THEN 1 ELSE 0)
        /\ OM!HybridMaxStreak(report) = OM!Larger(x, c)
    BY DEF OM!HybridStreakSum, OM!HybridStreakCount, OM!HybridMaxStreak
  <2> HIDE DEF s, c, n, x
  <2>4. /\ s <= OM!Larger(x, c) * n
        /\ s + c <= OM!Larger(x, c) * (n + 1)
    BY <2>1, StreakProduct
  <2>5. s + c <= OM!HybridMaxStreak(report) * OM!HybridStreakCount(report)
    <3>1. c > 0 => OM!HybridStreakCount(report) = n + 1
      BY <2>3
    <3>2. ~(c > 0) => OM!HybridStreakCount(report) = n /\ s + c = s
      BY <2>1, <2>3
    <3> QED BY <2>3, <2>4, <3>1, <3>2
  <2> QED BY <2>2, <2>3, <2>5 DEF StreaksPartition, n
<1>2. StreakInv /\ RegistryInv /\ [TraceNext]_traceLoopVars => StreakInv'
  BY StreakStep DEF RegistryInv
<1> QED BY <1>1, <1>2, StreakStart, ReplayInvariant, PTL DEF TraceSpec

-----------------------------------------------------------------------------
(* Division, as the sampling of every stride-th tick uses it.              *)

LEMMA Division ==
    ASSUME NEW n \in Nat, NEW s \in Nat \ {0}
    PROVE  /\ n \div s \in Nat /\ n % s \in 0 .. s - 1
           /\ n = (n \div s) * s + (n % s)
  BY Z3

LEMMA QuotientUnique ==
    ASSUME NEW n \in Nat, NEW s \in Nat \ {0}, NEW q \in Nat, NEW r \in 0 .. s - 1,
           n = q * s + r
    PROVE  n \div s = q /\ n % s = r
<1> DEFINE p == n \div s
           t == n % s
<1>1. p \in Nat /\ t \in 0 .. s - 1 /\ n = p * s + t
  BY Division
<1> HIDE DEF p, t
<1>2. \A a, b \in Nat : a < b => a * s + s <= b * s
  <2> SUFFICES ASSUME NEW a \in Nat, NEW b \in Nat, a < b PROVE a * s + s <= b * s
    OBVIOUS
  <2>1. (a + 1) * s = a * s + s /\ a + 1 <= b
    OBVIOUS
  <2>2. (a + 1) * s <= b * s
    BY <2>1
  <2> QED BY <2>1, <2>2
<1>3. p * s \in Nat /\ q * s \in Nat
  BY <1>1
<1>4. ~(p < q) /\ ~(q < p)
  BY <1>1, <1>2, <1>3
<1>5. p = q
  BY <1>1, <1>4
<1> QED BY <1>1, <1>3, <1>5 DEF p, t

LEMMA DivisionNext ==
    ASSUME NEW n \in Nat, NEW s \in Nat \ {0}
    PROVE  /\ (n + 1) % s = 0 => /\ (n + 1) \div s = n \div s + 1
                                 /\ (n \div s + 1) * s = n + 1
           /\ (n + 1) % s # 0 => (n + 1) \div s = n \div s
<1> DEFINE q == n \div s
           r == n % s
<1>1. q \in Nat /\ r \in 0 .. s - 1 /\ n = q * s + r
  BY Division
<1> HIDE DEF q, r
<1>2. CASE r = s - 1
  <2>1. (q + 1) * s = q * s + s
    BY <1>1
  <2>2. n + 1 = (q + 1) * s + 0 /\ 0 \in 0 .. s - 1 /\ q + 1 \in Nat
    BY <1>1, <1>2, <2>1
  <2>3. (n + 1) \div s = q + 1 /\ (n + 1) % s = 0
    BY <2>2, QuotientUnique
  <2> QED BY <2>2, <2>3 DEF q
<1>3. CASE r # s - 1
  <2>1. n + 1 = q * s + (r + 1) /\ r + 1 \in 0 .. s - 1 /\ r + 1 # 0
    BY <1>1, <1>3
  <2>2. (n + 1) \div s = q /\ (n + 1) % s = r + 1
    BY <1>1, <2>1, QuotientUnique
  <2> QED BY <2>1, <2>2 DEF q
<1> QED BY <1>2, <1>3

LEMMA WithinQuotient ==
    ASSUME NEW n \in Nat, NEW s \in Nat \ {0}, NEW k \in 1 .. n \div s
    PROVE  k * s \in 1 .. n
<1> DEFINE q == n \div s
<1>1. q \in Nat /\ q * s <= n
  BY Division
<1> HIDE DEF q
<1>2. k \in Nat /\ 1 <= k /\ k <= q
  BY <1>1 DEF q
<1>3. k * s <= q * s /\ s <= k * s /\ k * s \in Nat
  BY <1>1, <1>2
<1> QED BY <1>1, <1>3

-----------------------------------------------------------------------------
(* The samples of V and of its drift.                                      *)

\* After n calls the samples are every stride-th value of f, until the vector
\* is full.
SampledSound(samples, f, n, stride) ==
    /\ samples \in Seq(Int)
    /\ Len(samples) = OM!Smaller(MaxSamples, n \div stride)
    /\ \A k \in DOMAIN samples : samples[k] = f[k * stride]

LEMMA SampledNext ==
    ASSUME NEW samples, NEW f, NEW g, NEW n \in Nat, NEW stride \in Nat \ {0}, NEW v \in Int,
           SampledSound(samples, f, n, stride),
           \A j \in 1 .. n : g[j] = f[j], g[n + 1] = v
    PROVE  SampledSound(OM!Sampled(samples, v, n + 1, stride), g, n + 1, stride)
<1> DEFINE q == n \div stride
           p == (n + 1) \div stride
           r == (n + 1) % stride
<1>1. /\ q \in Nat /\ p \in Nat /\ r \in Nat
      /\ r = 0 => p = q + 1 /\ (q + 1) * stride = n + 1
      /\ r # 0 => p = q
  <2>1. q \in Nat /\ p \in Nat /\ r \in Nat
    <3>1. n + 1 \in Nat
      OBVIOUS
    <3>2. \A x \in Nat : x \div stride \in Nat /\ x % stride \in Nat
      OBVIOUS
    <3> QED BY <3>1, <3>2
  <2>2. /\ r = 0 => p = q + 1 /\ (q + 1) * stride = n + 1
        /\ r # 0 => p = q
    BY DivisionNext
  <2> QED BY <2>1, <2>2
<1>2. \A k \in 1 .. q : k * stride \in 1 .. n
  BY WithinQuotient
<1>3. OM!Sampled(samples, v, n + 1, stride)
        = IF r = 0 /\ Len(samples) < MaxSamples THEN Append(samples, v) ELSE samples
  BY DEF OM!Sampled
<1>4. /\ samples \in Seq(Int) /\ Len(samples) = OM!Smaller(MaxSamples, q)
      /\ \A k \in DOMAIN samples : samples[k] = f[k * stride]
  BY DEF SampledSound
<1>5. MaxSamples \in Nat
  BY TraceLoopAssumption
<1> HIDE DEF q, p, r
<1>6. \A k \in DOMAIN samples : samples[k] = g[k * stride]
  <2> SUFFICES ASSUME NEW k \in DOMAIN samples PROVE samples[k] = g[k * stride]
    OBVIOUS
  <2>1. k \in 1 .. q
    BY <1>1, <1>4, <1>5 DEF OM!Smaller
  <2>2. k * stride \in 1 .. n
    BY <1>2, <2>1
  <2> QED BY <1>4, <2>2
<1>7. CASE r = 0 /\ Len(samples) < MaxSamples
  <2> DEFINE t == Append(samples, v)
             m == Len(samples)
  <2>1. /\ t \in Seq(Int) /\ Len(t) = m + 1 /\ DOMAIN t = 1 .. m + 1 /\ m \in Nat
        /\ t[m + 1] = v /\ \A k \in 1 .. m : t[k] = samples[k]
    BY <1>4
  <2>2. m = q /\ m < MaxSamples
    BY <1>1, <1>4, <1>5, <1>7 DEF OM!Smaller
  <2> HIDE DEF t, m
  <2>3. Len(t) = OM!Smaller(MaxSamples, p)
    BY <1>1, <1>5, <1>7, <2>1, <2>2 DEF OM!Smaller
  <2>4. ASSUME NEW k \in 1 .. m + 1 PROVE t[k] = g[k * stride]
    <3>1. CASE k = m + 1
      BY <1>1, <1>7, <2>1, <2>2, <3>1
    <3>2. CASE k \in 1 .. m
      <4>1. k \in DOMAIN samples
        BY <1>4, <3>2 DEF m
      <4> QED BY <1>6, <2>1, <3>2, <4>1
    <3> QED BY <2>1, <3>1, <3>2
  <2> QED BY <1>3, <1>7, <2>1, <2>3, <2>4 DEF SampledSound, p, t
<1>8. CASE ~(r = 0 /\ Len(samples) < MaxSamples)
  <2>1. Len(samples) = OM!Smaller(MaxSamples, p)
    BY <1>1, <1>4, <1>5, <1>8 DEF OM!Smaller
  <2> QED BY <1>3, <1>4, <1>6, <1>8, <2>1 DEF SampledSound, p
<1> QED BY <1>7, <1>8

\* The V(t) recorded so far, and how it changed in each tick.
VAt     == [n \in Nat |-> PotentialAt(n)]
DriftAt == [n \in Nat |-> PotentialAt(n) - PotentialAt(n - 1)]

SampleFields == DriftFields \cup VFields

SampleInv ==
    LET n == Len(potentials)
    IN  /\ potentials \in Seq(Int)
        /\ SampleFields \subseteq DOMAIN report
        /\ report.sample_counter = n /\ report.v_samples_count = n
        /\ SampledSound(report.drift_samples, DriftAt, n, OM!SampleStride)
        /\ SampledSound(report.v_samples, VAt, n, VStride)
        /\ report.max_lyapunov_v \in Range(potentials) \cup {0}
        /\ \A v \in Range(potentials) \cup {0} : v <= report.max_lyapunov_v
        /\ online.current_v \in Int
        /\ IF Started THEN online.current_v = PotentialAt(n) ELSE n = 0

LEMMA StrideTyped == OM!SampleStride \in Nat \ {0} /\ VStride \in Nat \ {0}
<1>1. MaxSamples \in Nat \ {0} /\ VStride \in Nat \ {0} /\ Ticks \in Nat
  BY TraceLoopAssumption, EventLoopAssumption
<1>2. \A t \in Nat, m \in Nat \ {0} : t > m => t \div m \in Nat \ {0}
  <2> SUFFICES ASSUME NEW t \in Nat, NEW m \in Nat \ {0}, t > m PROVE t \div m # 0
    BY Division
  <2>1. t = (t \div m) * m + (t % m) /\ t % m \in 0 .. m - 1
    BY Division
  <2> QED BY <2>1
<1> QED BY <1>1, <1>2 DEF OM!SampleStride

LEMMA LyapunovTyped == ASSUME Context PROVE LyapunovV(processes) \in Int
<1> DEFINE v == [i \in DOMAIN processes |-> processes[i].queue_length * processes[i].queue_length]
           D == {i \in DOMAIN processes : i <= NumProcs}
<1>1. processes \in Seq(ProcessRecord)
  BY ContextTypes
<1>2. \A i \in D : v[i] \in Int
  <2> SUFFICES ASSUME NEW i \in D PROVE v[i] \in Int
    OBVIOUS
  <2>1. processes[i] \in ProcessRecord
    BY <1>1
  <2>2. processes[i].queue_length \in Int
    BY <2>1 DEF ProcessRecord
  <2> QED BY <2>2
<1>3. IsFiniteSet(D)
  <2>1. DOMAIN processes = 1 .. Len(processes) /\ Len(processes) \in Nat
    BY <1>1
  <2>2. D \in SUBSET (1 .. Len(processes)) /\ IsFiniteSet(1 .. Len(processes))
    BY <2>1, FS_Interval
  <2> HIDE DEF D
  <2> QED BY <2>2, FS_Subset
<1> HIDE DEF v, D
<1>4. SumFunctionOnSet(v, D) \in Int
  BY <1>2, <1>3, SumType DEF Summable
<1> QED BY <1>4 DEF LyapunovV, v, D

\* A step that records no sample.
LEMMA SamplesKept ==
    ASSUME SampleInv, potentials' = potentials, Agree(report', report, SampleFields),
           online'.current_v \in Int,
           IF Started' THEN online'.current_v = PotentialAt(Len(potentials))
           ELSE Len(potentials) = 0
    PROVE  SampleInv'
<1>1. /\ report'.sample_counter = report.sample_counter
      /\ report'.drift_samples = report.drift_samples
      /\ report'.v_samples_count = report.v_samples_count
      /\ report'.v_samples = report.v_samples
      /\ report'.max_lyapunov_v = report.max_lyapunov_v
      /\ SampleFields \subseteq DOMAIN report'
  BY DEF Agree, SampleFields, DriftFields, VFields
<1>2. DriftAt' = DriftAt /\ VAt' = VAt /\ PotentialAt(Len(potentials))' = PotentialAt(Len(potentials))
  BY DEF DriftAt, VAt, PotentialAt
<1> QED BY <1>1, <1>2 DEF SampleInv

\* What the Metrics event records.
LEMMA SamplesRecorded ==
    ASSUME SampleInv, StreaksSound(report), NEW v \in Int, NEW d \in Int,
           Started, d = v - online.current_v,
           report' = Recorded(report, v, d),
           potentials' = Append(potentials, v),
           online'.current_v = v, Started'
    PROVE  SampleInv'
<1> PICK n \in Nat : n = Len(potentials)
  BY DEF SampleInv
<1> DEFINE snapshot == IF tick % SnapshotEvery = 0
                       THEN OM!RecordQueueSnapshot(report, processes) ELSE report
           decided  == OM!RecordDecision(snapshot, last, mode)
<1>1. /\ potentials \in Seq(Int) /\ Len(potentials) = n
      /\ SampleFields \subseteq DOMAIN report
      /\ report.sample_counter = n /\ report.v_samples_count = n
      /\ SampledSound(report.drift_samples, DriftAt, n, OM!SampleStride)
      /\ SampledSound(report.v_samples, VAt, n, VStride)
      /\ report.max_lyapunov_v \in Range(potentials) \cup {0}
      /\ \A x \in Range(potentials) \cup {0} : x <= report.max_lyapunov_v
      /\ online.current_v = PotentialAt(n)
  BY DEF SampleInv
<1>2. report' = OM!RecordLyapunovV(OM!RecordDrift(decided, d), v)
  BY DEF Recorded
<1>3. Agree(decided, report, SampleFields)
  <2>1. SampleFields \cap (QueueFields \cup DecisionFields) = {}
    BY DEF SampleFields, DriftFields, VFields, QueueFields, DecisionFields, StreakFields,
           ChoiceFields
  <2>2. DOMAIN snapshot = DOMAIN report /\ \A f \in SampleFields : snapshot[f] = report[f]
    BY <1>1, <2>1, FieldsKept
  <2> HIDE DEF snapshot
  <2>3. DOMAIN decided = DOMAIN snapshot /\ \A f \in SampleFields : decided[f] = snapshot[f]
    <3>1. DecisionFields \subseteq DOMAIN snapshot
      BY <2>2 DEF StreaksSound
    <3>2. /\ DOMAIN decided = DOMAIN snapshot
          /\ \A f \in DOMAIN snapshot \ DecisionFields : decided[f] = snapshot[f]
      BY <3>1, DecisionKeeps
    <3> QED BY <1>1, <2>1, <2>2, <3>2
  <2> QED BY <1>1, <2>2, <2>3 DEF Agree
<1> HIDE DEF decided
<1>4. /\ SampleFields \subseteq DOMAIN decided
      /\ decided.sample_counter = n /\ decided.v_samples_count = n
      /\ decided.drift_samples = report.drift_samples
      /\ decided.v_samples = report.v_samples
      /\ decided.max_lyapunov_v = report.max_lyapunov_v
  BY <1>1, <1>3 DEF Agree, SampleFields, DriftFields, VFields
<1>5. /\ SampleFields \subseteq DOMAIN report'
      /\ report'.sample_counter = n + 1 /\ report'.v_samples_count = n + 1
      /\ report'.drift_samples = OM!Sampled(report.drift_samples, d, n + 1, OM!SampleStride)
      /\ report'.v_samples = OM!Sampled(report.v_samples, v, n + 1, VStride)
      /\ report'.max_lyapunov_v = OM!Larger(report.max_lyapunov_v, v)
  <2> DEFINE c == OM!RecordDrift(decided, d)
  <2>1. DOMAIN c = DOMAIN decided /\ \A f \in DOMAIN decided \ DriftFields : c[f] = decided[f]
    BY FieldsKept
  <2>2. /\ c.sample_counter = n + 1
        /\ c.drift_samples = OM!Sampled(report.drift_samples, d, n + 1, OM!SampleStride)
    BY <1>4 DEF OM!RecordDrift, SampleFields, DriftFields
  <2>3. /\ c.v_samples_count = n /\ c.v_samples = report.v_samples
        /\ c.max_lyapunov_v = report.max_lyapunov_v
    BY <1>4, <2>1 DEF SampleFields, DriftFields, VFields
  <2> HIDE DEF c
  <2>4. report' = OM!RecordLyapunovV(c, v)
    BY <1>2 DEF c
  <2>5. /\ DOMAIN report' = DOMAIN c
        /\ \A f \in DOMAIN c \ VFields : report'[f] = c[f]
    BY <2>4, FieldsKept
  <2>6. /\ report'.v_samples_count = n + 1
        /\ report'.v_samples = OM!Sampled(report.v_samples, v, n + 1, VStride)
        /\ report'.max_lyapunov_v = OM!Larger(report.max_lyapunov_v, v)
    BY <1>4, <2>1, <2>3, <2>4 DEF OM!RecordLyapunovV, SampleFields, VFields
  <2>7. report'.sample_counter = c.sample_counter /\ report'.drift_samples = c.drift_samples
    BY <1>4, <2>1, <2>5 DEF SampleFields, DriftFields, VFields
  <2> QED BY <1>4, <2>1, <2>2, <2>5, <2>6, <2>7
<1>6. /\ potentials' \in Seq(Int) /\ Len(potentials') = n + 1
      /\ potentials'[n + 1] = v /\ \A k \in 1 .. n : potentials'[k] = potentials[k]
      /\ \A k \in 1 .. n : potentials[k] \in Int
  BY <1>1
<1>7. /\ VAt'[n + 1] = v
      /\ DriftAt'[n + 1] = d
      /\ \A j \in 1 .. n : VAt'[j] = VAt[j] /\ DriftAt'[j] = DriftAt[j]
  <2>1. \A j \in 0 .. n : PotentialAt(j)' = PotentialAt(j)
    <3> SUFFICES ASSUME NEW j \in 0 .. n
                 PROVE (IF j = 0 THEN 0 ELSE potentials'[j]) = IF j = 0 THEN 0 ELSE potentials[j]
      BY DEF PotentialAt
    <3> QED BY <1>1, <1>6
  <2>2. \A j \in Nat : /\ VAt[j] = PotentialAt(j) /\ DriftAt[j] = PotentialAt(j) - PotentialAt(j - 1)
                       /\ VAt'[j] = PotentialAt(j)'
                       /\ DriftAt'[j] = PotentialAt(j)' - PotentialAt(j - 1)'
    BY DEF VAt, DriftAt
  <2>3. PotentialAt(n + 1)' = v
    BY <1>1, <1>6 DEF PotentialAt
  <2>4. /\ n + 1 \in Nat /\ (n + 1) - 1 = n /\ n \in 0 .. n
        /\ \A j \in 1 .. n : j \in Nat /\ j \in 0 .. n /\ j - 1 \in 0 .. n
    BY <1>1
  <2>5. DriftAt'[n + 1] = PotentialAt(n + 1)' - PotentialAt(n)'
    BY <2>2, <2>4
  <2>6. PotentialAt(n)' = online.current_v
    BY <1>1, <2>1, <2>4
  <2>7. VAt'[n + 1] = v
    BY <2>2, <2>3, <2>4
  <2>8. DriftAt'[n + 1] = d
    BY <2>3, <2>5, <2>6
  <2>9. ASSUME NEW j \in 1 .. n PROVE VAt'[j] = VAt[j] /\ DriftAt'[j] = DriftAt[j]
    <3>1. j \in Nat /\ j \in 0 .. n /\ j - 1 \in 0 .. n
      BY <2>4
    <3>2. PotentialAt(j)' = PotentialAt(j) /\ PotentialAt(j - 1)' = PotentialAt(j - 1)
      BY <2>1, <3>1
    <3> QED BY <2>2, <3>1, <3>2
  <2> QED BY <2>7, <2>8, <2>9
<1>8. SampledSound(report'.drift_samples, DriftAt', n + 1, OM!SampleStride)
  BY <1>1, <1>5, <1>7, StrideTyped, SampledNext
<1>9. SampledSound(report'.v_samples, VAt', n + 1, VStride)
  BY <1>1, <1>5, <1>7, StrideTyped, SampledNext
<1>10. /\ report'.max_lyapunov_v \in Range(potentials') \cup {0}
       /\ \A x \in Range(potentials') \cup {0} : x <= report'.max_lyapunov_v
  <2>1. Range(potentials') = Range(potentials) \cup {v}
    BY <1>1, <1>6 DEF Range
  <2>2. Range(potentials) \subseteq Int
    BY <1>1 DEF Range
  <2> QED BY <1>1, <1>5, <2>1, <2>2 DEF OM!Larger
<1>11. online'.current_v = PotentialAt(n + 1)'
  BY <1>1, <1>6 DEF PotentialAt
<1> QED BY <1>5, <1>6, <1>8, <1>9, <1>10, <1>11 DEF SampleInv

\* A step that is neither the reset nor the Metrics event.
LEMMA StartedKept ==
    ASSUME UNCHANGED <<tick, pc>> PROVE Started' = Started
  BY DEF Started

LEMMA SampleStart == TraceInit => SampleInv
<1> SUFFICES ASSUME TraceInit PROVE SampleInv
  OBVIOUS
<1>1. /\ potentials = <<>> /\ report = OM!OfflineStart /\ online.current_v = 0
      /\ tick = 0 /\ pc = "tick"
  BY DEF TraceInit, Init, OnlineReset
<1>2. ~Started
  BY <1>1, EventLoopAssumption DEF Started
<1>3. /\ report.sample_counter = 0 /\ report.v_samples_count = 0
      /\ report.drift_samples = <<>> /\ report.v_samples = <<>>
      /\ report.max_lyapunov_v = 0 /\ SampleFields \subseteq DOMAIN report
  BY <1>1 DEF OM!OfflineStart, SampleFields, DriftFields, VFields
<1>4. \A f : \A s \in Nat \ {0} : SampledSound(<<>>, f, 0, s)
  <2> SUFFICES ASSUME NEW f, NEW s \in Nat \ {0} PROVE SampledSound(<<>>, f, 0, s)
    OBVIOUS
  <2>1. 0 \div s = 0
    <3>1. 0 = 0 * s + 0 /\ 0 \in 0 .. s - 1
      OBVIOUS
    <3> QED BY <3>1, QuotientUnique
  <2>2. OM!Smaller(MaxSamples, 0) = 0
    BY TraceLoopAssumption DEF OM!Smaller
  <2> QED BY <2>1, <2>2 DEF SampledSound
<1>5. Range(potentials) = {} /\ Len(potentials) = 0 /\ potentials \in Seq(Int)
  BY <1>1 DEF Range
<1> QED BY <1>1, <1>2, <1>3, <1>4, <1>5, StrideTyped DEF SampleInv

LEMMA SampleStep ==
    ASSUME Context, StreakInv, SampleInv, [TraceNext]_traceLoopVars
    PROVE  SampleInv'
<1>1. tick \in Nat /\ WarmupTicks \in Nat
  BY ContextTypes, EventLoopAssumption
<1>2. /\ online.current_v \in Int
      /\ IF Started THEN online.current_v = PotentialAt(Len(potentials))
         ELSE Len(potentials) = 0
      /\ SampleFields \subseteq DOMAIN report
  BY DEF SampleInv
<1>3. ASSUME potentials' = potentials, Agree(report', report, SampleFields),
             online' = online, Started' = Started
      PROVE  SampleInv'
  BY <1>2, <1>3, SamplesKept
<1>4. report' = report => Agree(report', report, SampleFields)
  BY <1>2 DEF Agree
<1>5. CASE UNCHANGED <<report, potentials, online, tick, pc>>
  BY <1>3, <1>4, <1>5, StartedKept
<1>6. CASE BeginTraceTick
  <2>1. UNCHANGED <<report, potentials>> /\ pc = "tick" /\ pc' = "drain" /\ tick' = tick
    BY <1>6 DEF BeginTraceTick, reportVars
  <2>2. CASE tick = WarmupTicks
    <3>1. online'.current_v = 0
      BY <1>6, <2>2 DEF BeginTraceTick, OnlineReset
    <3>2. ~Started /\ Started'
      BY <1>1, <2>1, <2>2 DEF Started
    <3>3. PotentialAt(Len(potentials)) = 0
      BY <1>2, <3>2 DEF PotentialAt
    <3> QED BY <1>4, <2>1, <3>1, <3>2, <3>3, SamplesKept
  <2>3. CASE tick # WarmupTicks
    <3>1. online' = online
      BY <1>6, <2>3 DEF BeginTraceTick
    <3>2. Started' = Started
      BY <2>1, <2>3 DEF Started
    <3> QED BY <1>3, <1>4, <2>1, <3>1, <3>2
  <2> QED BY <2>2, <2>3
<1>7. ASSUME NEW e \in Event, DecideInMode(e) PROVE SampleInv'
  <2>1. UNCHANGED <<report, potentials, online, tick, pc>>
    BY <1>7 DEF DecideInMode, Schedule
  <2> QED BY <1>5, <2>1
<1>8. ASSUME NEW e \in Event, ServeAndRecord(e) PROVE SampleInv'
  <2>1. UNCHANGED <<potentials, online, tick, pc>>
    BY <1>8 DEF ServeAndRecord, HandleService
  <2>2. \/ report' = report
        \/ \E w : report' = OM!RecordWaitingTime(report, w)
    BY <1>8 DEF ServeAndRecord
  <2>3. SampleFields \cap WaitFields = {}
    BY DEF SampleFields, DriftFields, VFields, WaitFields
  <2>4. Agree(report', report, SampleFields)
    BY <1>2, <2>2, <2>3, FieldsKept DEF Agree
  <2> QED BY <1>3, <2>1, <2>4, StartedKept
<1>9. ASSUME NEW e \in Event, MeasureAndRecord(e) PROVE SampleInv'
  <2>1. HandleMetrics(e) /\ pc = "drain" /\ UNCHANGED <<tick, pc>>
    BY <1>9 DEF MeasureAndRecord, HandleMetrics, Pop
  <2>2. (Recording <=> Started) /\ Started' = Started
    BY <1>1, <2>1, StartedKept DEF Recording, Started
  <2>3. PICK v \in Int : v = LyapunovV(processes)
    BY LyapunovTyped
  <2>4. PICK d \in Int : d = v - online.current_v
    BY <1>2
  <2>5. online'.current_v = v /\ online'.drift = d
    BY <2>1, <2>3, <2>4 DEF HandleMetrics, OnlineUpdate
  <2>6. CASE Recording
    <3>1. report' = Recorded(report, v, d) /\ potentials' = Append(potentials, v)
      BY <1>9, <2>3, <2>5, <2>6 DEF MeasureAndRecord
    <3> QED BY <2>2, <2>4, <2>5, <2>6, <3>1, SamplesRecorded DEF StreakInv
  <2>7. CASE ~Recording
    <3>1. UNCHANGED <<report, potentials>>
      BY <1>9, <2>7 DEF MeasureAndRecord
    <3> QED BY <1>2, <1>4, <2>2, <2>5, <2>7, <3>1, SamplesKept
  <2> QED BY <2>6, <2>7
<1>10. CASE OtherTraceStep /\ UNCHANGED <<inputVars, cursor, reportVars>>
  <2>1. UNCHANGED <<report, potentials, online>>
    BY <1>10 DEF OtherTraceStep, reportVars, HandleArrival, IgnoreLockEvent, IgnoreService, EndTick
  <2>2. CASE EndTick
    <3>1. pc = "drain" /\ pc' # "drain" /\ tick' = tick + 1
      BY <2>2 DEF EndTick
    <3>2. Started' = Started
      BY <1>1, <3>1 DEF Started
    <3> QED BY <1>3, <1>4, <2>1, <3>2
  <2>3. CASE ~EndTick
    <3>1. UNCHANGED <<tick, pc>>
      BY <1>10, <2>3 DEF OtherTraceStep, HandleArrival, IgnoreLockEvent, IgnoreService
    <3> QED BY <1>5, <2>1, <3>1
  <2> QED BY <2>2, <2>3
<1>11. CASE Refuse \/ Load \/ Stopped \/ UNCHANGED traceLoopVars
  <2>1. UNCHANGED <<report, potentials, online, tick, pc>>
    BY <1>11 DEF Refuse, Load, Stopped, traceLoopVars, reportVars, vars, loopVars
  <2> QED BY <1>5, <2>1
<1> QED BY <1>6, <1>7, <1>8, <1>9, <1>10, <1>11 DEF TraceNext

LEMMA MaxIs ==
    ASSUME NEW S \in SUBSET Int, NEW a \in S, \A y \in S : y <= a
    PROVE  Max(S) = a
<1>1. ASSUME NEW x \in S, \A y \in S : y <= x PROVE x = a
  <2>1. x <= a /\ a <= x /\ x \in Int /\ a \in Int
    BY <1>1
  <2> QED BY <2>1
<1>2. Max(S) \in S /\ \A y \in S : y <= Max(S)
  BY DEF Max
<1> QED BY <1>1, <1>2

(***************************************************************************)
(* Whatever the stride, the capacity of the vectors and the length of the  *)
(* run, each sample of V and of its drift is that of the tick it stands    *)
(* for, and the maximum of V is that of all recorded ticks: the counters   *)
(* that select samples stay in step with the ticks, also across the        *)
(* warm-up reset.                                                          *)
(***************************************************************************)
THEOREM SamplesStayExact == TraceSpec => []SamplesExact
<1>1. SampleInv => SamplesExact
  <2> SUFFICES ASSUME SampleInv PROVE SamplesExact
    OBVIOUS
  <2> DEFINE stride == OM!SampleStride
             n == Len(potentials)
             q == n \div stride
             m == report.max_lyapunov_v
             S == Range(potentials) \cup {0}
             drifts == report.drift_samples
             vs == report.v_samples
  <2>1. /\ potentials \in Seq(Int) /\ m \in S /\ \A v \in S : v <= m
        /\ SampledSound(drifts, DriftAt, n, stride)
        /\ SampledSound(vs, VAt, n, VStride)
    BY DEF SampleInv
  <2>2. stride \in Nat \ {0} /\ VStride \in Nat \ {0} /\ n \in Nat /\ MaxSamples \in Nat
    BY <2>1, StrideTyped, TraceLoopAssumption
  <2>3. q \in Nat
    BY <2>2, Division
  <2>4. S \in SUBSET Int
    BY <2>1 DEF Range
  <2> HIDE DEF S, m
  <2>5. Max(S) = m
    BY <2>1, <2>4, MaxIs
  <2> HIDE DEF q, n
  <2>6. Len(drifts) = OM!Smaller(MaxSamples, q)
    BY <2>1 DEF SampledSound, q
  <2>7. Min({MaxSamples, q}) = OM!Smaller(MaxSamples, q)
    <3> DEFINE T == {MaxSamples, q}
               a == OM!Smaller(MaxSamples, q)
    <3>1. T \in SUBSET Int /\ a \in T /\ \A y \in T : a <= y
      BY <2>2, <2>3 DEF OM!Smaller
    <3> HIDE DEF T, a
    <3>2. Min(T) = a
      BY <3>1, MinIs
    <3> QED BY <3>2 DEF T, a
  <2>8. ASSUME NEW k \in DOMAIN drifts
        PROVE  drifts[k] = PotentialAt(k * stride) - PotentialAt(k * stride - 1)
    <3>1. drifts[k] = DriftAt[k * stride] /\ k \in Nat
      BY <2>1, <2>8 DEF SampledSound
    <3>2. k * stride \in Nat
      BY <2>2, <3>1
    <3> QED BY <3>1, <3>2 DEF DriftAt
  <2>9. ASSUME NEW k \in DOMAIN vs PROVE vs[k] = PotentialAt(k * VStride)
    <3>1. vs[k] = VAt[k * VStride] /\ k \in Nat
      BY <2>1, <2>9 DEF SampledSound
    <3>2. k * VStride \in Nat
      BY <2>2, <3>1
    <3> QED BY <3>1, <3>2 DEF VAt
  <2> QED BY <2>5, <2>6, <2>7, <2>8, <2>9 DEF SamplesExact, S, m, q, n
<1>2. StreakInv /\ SampleInv /\ RegistryInv /\ Context /\ [TraceNext]_traceLoopVars
          => StreakInv' /\ SampleInv'
  BY StreakStep, SampleStep DEF RegistryInv
<1>3. TraceInit => StreakInv /\ SampleInv
  BY StreakStart, SampleStart
<1>4. TraceSpec => [](RegistryInv /\ Context)
  BY ReplayInvariant, TraceContext, PTL DEF LoopInv
<1> QED BY <1>1, <1>2, <1>3, <1>4, PTL DEF TraceSpec

-----------------------------------------------------------------------------
(* Validation.                                                             *)

LEMMA MaxOf ==
    ASSUME NEW n \in Nat, NEW S \in SUBSET (1 .. n), S # {}
    PROVE  Max(S) \in S /\ \A y \in S : y <= Max(S)
<1> DEFINE T == {n - x : x \in S}
<1>1. T \in SUBSET Nat /\ T # {}
  OBVIOUS
<1>2. S \in SUBSET Int /\ \A x \in S : n - x \in T /\ x \in Int
  OBVIOUS
<1>3. \A t \in T : \E x \in S : t = n - x
  OBVIOUS
<1> HIDE DEF T
<1>4. Min(T) \in T /\ \A t \in T : Min(T) <= t
  BY <1>1, MinOf
<1>5. PICK a \in S : Min(T) = n - a
  BY <1>3, <1>4
<1>6. \A y \in S : y <= a
  <2> SUFFICES ASSUME NEW y \in S PROVE y <= a
    OBVIOUS
  <2>1. n - a <= n - y /\ a \in Int /\ y \in Int
    BY <1>2, <1>4, <1>5
  <2> QED BY <2>1
<1>7. Max(S) = a
  BY <1>2, <1>6, MaxIs
<1> QED BY <1>6, <1>7

\* Of the first k records, one acquires this lock for this rpc and none
\* releases it afterwards.
Matches(j, rpc, lock) == records[j].rpc_id = rpc /\ records[j].trace_flags = lock

HoldsAfter(k, rpc, lock) ==
    \E j \in 1 .. k : /\ records[j].type = 2 /\ Matches(j, rpc, lock)
                      /\ \A i \in j + 1 .. k : records[i].type = 3 => ~Matches(i, rpc, lock)

LEMMA HoldsNext ==
    ASSUME NEW k \in Nat \ {0}, NEW rpc, NEW lock
    PROVE  HoldsAfter(k, rpc, lock) <=>
               \/ records[k].type = 2 /\ Matches(k, rpc, lock)
               \/ /\ HoldsAfter(k - 1, rpc, lock)
                  /\ records[k].type = 3 => ~Matches(k, rpc, lock)
<1>1. ASSUME NEW j \in 1 .. k - 1
      PROVE  j \in 1 .. k /\ k \in j + 1 .. k
             /\ \A i : i \in j + 1 .. k <=> i = k \/ i \in j + 1 .. k - 1
  OBVIOUS
<1>2. \A j \in 1 .. k : j = k \/ j \in 1 .. k - 1
  OBVIOUS
<1>3. k \in 1 .. k /\ \A i \in k + 1 .. k : FALSE
  OBVIOUS
<1>4. ASSUME HoldsAfter(k, rpc, lock)
      PROVE  \/ records[k].type = 2 /\ Matches(k, rpc, lock)
             \/ /\ HoldsAfter(k - 1, rpc, lock)
                /\ records[k].type = 3 => ~Matches(k, rpc, lock)
  <2>1. PICK j \in 1 .. k : /\ records[j].type = 2 /\ Matches(j, rpc, lock)
                            /\ \A i \in j + 1 .. k : records[i].type = 3 => ~Matches(i, rpc, lock)
    BY <1>4 DEF HoldsAfter
  <2>2. CASE j = k
    BY <2>1, <2>2
  <2>3. CASE j \in 1 .. k - 1
    <3>1. HoldsAfter(k - 1, rpc, lock)
      BY <1>1, <2>1, <2>3 DEF HoldsAfter
    <3> QED BY <1>1, <2>1, <2>3, <3>1
  <2> QED BY <1>2, <2>2, <2>3
<1>5. ASSUME records[k].type = 2, Matches(k, rpc, lock) PROVE HoldsAfter(k, rpc, lock)
  BY <1>3, <1>5 DEF HoldsAfter
<1>6. ASSUME HoldsAfter(k - 1, rpc, lock), records[k].type = 3 => ~Matches(k, rpc, lock)
      PROVE  HoldsAfter(k, rpc, lock)
  <2>1. PICK j \in 1 .. k - 1 : /\ records[j].type = 2 /\ Matches(j, rpc, lock)
                                /\ \A i \in j + 1 .. k - 1 :
                                      records[i].type = 3 => ~Matches(i, rpc, lock)
    BY <1>6 DEF HoldsAfter
  <2> QED BY <1>1, <1>6, <2>1 DEF HoldsAfter
<1> QED BY <1>4, <1>5, <1>6

\* An orphan is a release of what its rpc does not hold.
LEMMA OrphanedMeans ==
    ASSUME NEW k \in Nat \ {0}
    PROVE  Orphaned(k) <=> /\ records[k].type = 3
                           /\ ~HoldsAfter(k - 1, records[k].rpc_id, records[k].trace_flags)
<1> DEFINE rpc  == records[k].rpc_id
           lock == records[k].trace_flags
           S == {j \in 1 .. k - 1 : /\ records[j].type \in {2, 3}
                                    /\ records[j].rpc_id = rpc
                                    /\ records[j].trace_flags = lock}
<1>1. Orphaned(k) <=> records[k].type = 3 /\ (S = {} \/ records[Max(S)].type = 3)
  BY DEF Orphaned
<1>2. /\ S \in SUBSET (1 .. k - 1) /\ k - 1 \in Nat
      /\ \A j \in 1 .. k - 1 : j \in S <=> records[j].type \in {2, 3} /\ Matches(j, rpc, lock)
  BY DEF Matches
<1> HIDE DEF S, rpc, lock
<1>3. ASSUME S # {}, records[Max(S)].type # 3 PROVE HoldsAfter(k - 1, rpc, lock)
  <2> DEFINE m == Max(S)
  <2>1. m \in S /\ \A y \in S : y <= m
    BY <1>2, <1>3, MaxOf
  <2>2. records[m].type = 2 /\ Matches(m, rpc, lock) /\ m \in 1 .. k - 1
    BY <1>2, <1>3, <2>1
  <2> HIDE DEF m
  <2>3. ASSUME NEW i \in m + 1 .. k - 1, records[i].type = 3 PROVE ~Matches(i, rpc, lock)
    <3>1. i \in 1 .. k - 1 /\ ~(i <= m)
      BY <2>2
    <3> QED BY <1>2, <2>1, <2>3, <3>1
  <2> QED BY <2>2, <2>3 DEF HoldsAfter
<1>4. ASSUME HoldsAfter(k - 1, rpc, lock) PROVE S # {} /\ records[Max(S)].type # 3
  <2>1. PICK j \in 1 .. k - 1 : /\ records[j].type = 2 /\ Matches(j, rpc, lock)
                                /\ \A i \in j + 1 .. k - 1 :
                                      records[i].type = 3 => ~Matches(i, rpc, lock)
    BY <1>4 DEF HoldsAfter
  <2>2. j \in S
    BY <1>2, <2>1
  <2> DEFINE m == Max(S)
  <2>3. m \in S /\ \A y \in S : y <= m
    BY <1>2, <2>2, MaxOf
  <2> HIDE DEF m
  <2>4. m \in 1 .. k - 1 /\ j <= m /\ Matches(m, rpc, lock)
    BY <1>2, <2>2, <2>3
  <2>5. m = j \/ m \in j + 1 .. k - 1
    BY <2>4
  <2>6. records[m].type # 3
    BY <2>1, <2>4, <2>5
  <2> QED BY <2>2, <2>6 DEF m
<1> QED BY <1>1, <1>3, <1>4 DEF rpc, lock

\* A release of an rpc that has acquired nothing before.
BareRelease(k) ==
    /\ records[k].type = 3
    /\ \A j \in 1 .. k - 1 : records[j].type = 2 => records[j].rpc_id # records[k].rpc_id

\* What the ledger knows after k records.
LedgerSound(ledger, k) ==
    /\ {"locks", "orphans", "past_end"} \subseteq DOMAIN ledger
    /\ \A rpc : rpc \in DOMAIN ledger.locks <=>
           \E j \in 1 .. k : records[j].type = 2 /\ records[j].rpc_id = rpc
    /\ \A rpc, lock : lock \in HeldBy(ledger, rpc) <=> HoldsAfter(k, rpc, lock)
    /\ ledger.orphans = {j \in 1 .. k : Orphaned(j)}
    /\ ledger.past_end => \E j \in 1 .. k : BareRelease(j)

\* "after" is a ledger with the locks X of rpc.
OnlyLocksSet(after, ledger, rpc, X) ==
    /\ DOMAIN after = DOMAIN ledger
    /\ DOMAIN after.locks = DOMAIN ledger.locks \cup {rpc}
    /\ \A r : HeldBy(after, r) = IF r = rpc THEN X ELSE HeldBy(ledger, r)
    /\ \A f \in DOMAIN ledger \ {"locks"} : after[f] = ledger[f]

LEMMA LocksAfter ==
    ASSUME NEW ledger, "locks" \in DOMAIN ledger, NEW rpc, NEW X
    PROVE  OnlyLocksSet([ledger EXCEPT !.locks = WithLocks(ledger, rpc, X)], ledger, rpc, X)
<1> DEFINE after == [ledger EXCEPT !.locks = WithLocks(ledger, rpc, X)]
<1>1. after.locks = WithLocks(ledger, rpc, X) /\ DOMAIN after = DOMAIN ledger
  OBVIOUS
<1>2. \A f \in DOMAIN ledger \ {"locks"} : after[f] = ledger[f]
  OBVIOUS
<1> HIDE DEF after
<1>3. /\ DOMAIN after.locks = DOMAIN ledger.locks \cup {rpc}
      /\ \A r \in DOMAIN ledger.locks \cup {rpc} :
            after.locks[r] = IF r = rpc THEN X ELSE ledger.locks[r]
  BY <1>1 DEF WithLocks
<1>4. \A r : HeldBy(after, r) = IF r = rpc THEN X ELSE HeldBy(ledger, r)
  BY <1>3 DEF HeldBy
<1> QED BY <1>1, <1>2, <1>3, <1>4 DEF after, OnlyLocksSet

LEMMA LedgerStep ==
    ASSUME NEW k \in Nat \ {0}, NEW ledger, LedgerSound(ledger, k - 1)
    PROVE  /\ records[k].type = 2 => LedgerSound(NoteAcquire(ledger, records[k]), k)
           /\ records[k].type = 3 => LedgerSound(NoteRelease(ledger, records[k], k), k)
           /\ records[k].type \notin {2, 3} => LedgerSound(ledger, k)
<1> DEFINE rpc  == records[k].rpc_id
           lock == records[k].trace_flags
           type == records[k].type
<1>1. /\ {"locks", "orphans", "past_end"} \subseteq DOMAIN ledger
      /\ \A r : r \in DOMAIN ledger.locks <=>
             \E j \in 1 .. k - 1 : records[j].type = 2 /\ records[j].rpc_id = r
      /\ \A r, l : l \in HeldBy(ledger, r) <=> HoldsAfter(k - 1, r, l)
      /\ ledger.orphans = {j \in 1 .. k - 1 : Orphaned(j)}
      /\ ledger.past_end => \E j \in 1 .. k - 1 : BareRelease(j)
  BY DEF LedgerSound
<1>2. \A j : j \in 1 .. k <=> j = k \/ j \in 1 .. k - 1
  OBVIOUS
<1>3. Orphaned(k) <=> type = 3 /\ ~HoldsAfter(k - 1, rpc, lock)
  BY OrphanedMeans
<1>4. \A r, l : HoldsAfter(k, r, l) <=>
               \/ type = 2 /\ r = rpc /\ l = lock
               \/ /\ HoldsAfter(k - 1, r, l)
                  /\ type = 3 => ~(r = rpc /\ l = lock)
  BY HoldsNext DEF Matches
<1>5. /\ Orphaned(k) => {j \in 1 .. k : Orphaned(j)} = {j \in 1 .. k - 1 : Orphaned(j)} \cup {k}
      /\ ~Orphaned(k) => {j \in 1 .. k : Orphaned(j)} = {j \in 1 .. k - 1 : Orphaned(j)}
  BY <1>2
<1>6. \A r : (\E j \in 1 .. k : records[j].type = 2 /\ records[j].rpc_id = r)
               <=> \/ \E j \in 1 .. k - 1 : records[j].type = 2 /\ records[j].rpc_id = r
                   \/ type = 2 /\ r = rpc
  BY <1>2
<1>7. (\E j \in 1 .. k - 1 : BareRelease(j)) => \E j \in 1 .. k : BareRelease(j)
  BY <1>2
<1>8. ASSUME NEW X
      PROVE  LET after == [ledger EXCEPT !.locks = WithLocks(ledger, rpc, X)]
             IN  /\ {"locks", "orphans", "past_end"} \subseteq DOMAIN after
                 /\ DOMAIN after.locks = DOMAIN ledger.locks \cup {rpc}
                 /\ \A r : HeldBy(after, r) = IF r = rpc THEN X ELSE HeldBy(ledger, r)
                 /\ after.orphans = ledger.orphans /\ after.past_end = ledger.past_end
  <2> DEFINE after == [ledger EXCEPT !.locks = WithLocks(ledger, rpc, X)]
  <2>1. "locks" \in DOMAIN ledger
    BY <1>1
  <2> HIDE DEF rpc
  <2>2. OnlyLocksSet(after, ledger, rpc, X)
    BY <2>1, LocksAfter
  <2> HIDE DEF after
  <2>3. after.orphans = ledger.orphans /\ after.past_end = ledger.past_end
    BY <1>1, <2>2 DEF OnlyLocksSet
  <2> QED BY <1>1, <2>2, <2>3 DEF after, OnlyLocksSet
<1>9. CASE type = 2
  <2> DEFINE X == HeldBy(ledger, rpc) \cup {lock}
             after == [ledger EXCEPT !.locks = WithLocks(ledger, rpc, X)]
  <2>1. NoteAcquire(ledger, records[k]) = after
    BY DEF NoteAcquire
  <2>2. /\ {"locks", "orphans", "past_end"} \subseteq DOMAIN after
        /\ DOMAIN after.locks = DOMAIN ledger.locks \cup {rpc}
        /\ \A r : HeldBy(after, r) = IF r = rpc THEN X ELSE HeldBy(ledger, r)
        /\ after.orphans = ledger.orphans /\ after.past_end = ledger.past_end
    BY <1>8
  <2> HIDE DEF after, rpc, lock, type
  <2>3. \A r : r \in DOMAIN after.locks <=>
             \E j \in 1 .. k : records[j].type = 2 /\ records[j].rpc_id = r
    BY <1>1, <1>6, <1>9, <2>2
  <2>4. \A r, l : l \in HeldBy(after, r) <=> HoldsAfter(k, r, l)
    BY <1>1, <1>4, <1>9, <2>2
  <2>5. after.orphans = {j \in 1 .. k : Orphaned(j)}
    BY <1>1, <1>3, <1>5, <1>9, <2>2
  <2>6. after.past_end => \E j \in 1 .. k : BareRelease(j)
    BY <1>1, <1>7, <2>2
  <2>7. LedgerSound(after, k)
    BY <2>2, <2>3, <2>4, <2>5, <2>6 DEF LedgerSound
  <2> QED BY <1>9, <2>1, <2>7 DEF type
<1>10. CASE type = 3 /\ lock \in HeldBy(ledger, rpc)
  <2> DEFINE X == HeldBy(ledger, rpc) \ {lock}
             after == [ledger EXCEPT !.locks = WithLocks(ledger, rpc, X)]
  <2>1. NoteRelease(ledger, records[k], k) = after
    BY <1>10 DEF NoteRelease
  <2>2. /\ {"locks", "orphans", "past_end"} \subseteq DOMAIN after
        /\ DOMAIN after.locks = DOMAIN ledger.locks \cup {rpc}
        /\ \A r : HeldBy(after, r) = IF r = rpc THEN X ELSE HeldBy(ledger, r)
        /\ after.orphans = ledger.orphans /\ after.past_end = ledger.past_end
    BY <1>8
  <2> HIDE DEF after, rpc, lock, type
  <2>3. rpc \in DOMAIN ledger.locks
    BY <1>10 DEF HeldBy
  <2>4. \A r : r \in DOMAIN after.locks <=>
             \E j \in 1 .. k : records[j].type = 2 /\ records[j].rpc_id = r
    BY <1>1, <1>6, <1>10, <2>2, <2>3
  <2>5. \A r, l : l \in HeldBy(after, r) <=> HoldsAfter(k, r, l)
    BY <1>1, <1>4, <1>10, <2>2
  <2>6. after.orphans = {j \in 1 .. k : Orphaned(j)}
    BY <1>1, <1>3, <1>5, <1>10, <2>2
  <2>7. after.past_end => \E j \in 1 .. k : BareRelease(j)
    BY <1>1, <1>7, <2>2
  <2>8. LedgerSound(after, k)
    BY <2>2, <2>4, <2>5, <2>6, <2>7 DEF LedgerSound
  <2> QED BY <1>10, <2>1, <2>8 DEF type
<1>11. CASE type = 3 /\ lock \notin HeldBy(ledger, rpc)
  <2> DEFINE after == [ledger EXCEPT !.orphans  = @ \cup {k},
                                     !.past_end = @ \/ rpc \notin DOMAIN ledger.locks]
  <2>1. NoteRelease(ledger, records[k], k) = after
    BY <1>11 DEF NoteRelease
  <2>2. /\ DOMAIN after = DOMAIN ledger /\ after.locks = ledger.locks
        /\ after.orphans = ledger.orphans \cup {k}
        /\ after.past_end = (ledger.past_end \/ rpc \notin DOMAIN ledger.locks)
    BY <1>1
  <2> HIDE DEF after
  <2>3. \A r : HeldBy(after, r) = HeldBy(ledger, r)
    BY <2>2 DEF HeldBy
  <2>4. BareRelease(k) \/ rpc \in DOMAIN ledger.locks
    BY <1>1, <1>11 DEF BareRelease
  <2>5. k \in 1 .. k
    OBVIOUS
  <2> HIDE DEF rpc, lock, type
  <2>6. \A r : r \in DOMAIN after.locks <=>
             \E j \in 1 .. k : records[j].type = 2 /\ records[j].rpc_id = r
    <3>1. DOMAIN after.locks = DOMAIN ledger.locks /\ type # 2
      BY <1>11, <2>2
    <3> QED BY <1>1, <1>6, <3>1
  <2>7. \A r, l : l \in HeldBy(after, r) <=> HoldsAfter(k, r, l)
    BY <1>1, <1>4, <1>11, <2>3
  <2>8. after.orphans = {j \in 1 .. k : Orphaned(j)}
    BY <1>1, <1>3, <1>5, <1>11, <2>2
  <2>9. after.past_end => \E j \in 1 .. k : BareRelease(j)
    BY <1>1, <1>7, <2>2, <2>4, <2>5
  <2>10. LedgerSound(after, k)
    BY <1>1, <2>2, <2>6, <2>7, <2>8, <2>9 DEF LedgerSound
  <2> QED BY <1>11, <2>1, <2>10 DEF type
<1>12. CASE type \notin {2, 3}
  <2> HIDE DEF rpc, lock, type
  <2>1. \A r : r \in DOMAIN ledger.locks <=>
             \E j \in 1 .. k : records[j].type = 2 /\ records[j].rpc_id = r
    BY <1>1, <1>6, <1>12
  <2>2. \A r, l : l \in HeldBy(ledger, r) <=> HoldsAfter(k, r, l)
    BY <1>1, <1>4, <1>12
  <2>3. ledger.orphans = {j \in 1 .. k : Orphaned(j)}
    BY <1>1, <1>3, <1>5, <1>12
  <2>4. ledger.past_end => \E j \in 1 .. k : BareRelease(j)
    BY <1>1, <1>7
  <2>5. LedgerSound(ledger, k)
    BY <1>1, <2>1, <2>2, <2>3, <2>4 DEF LedgerSound
  <2> QED BY <1>12, <2>5 DEF type
<1> QED BY <1>9, <1>10, <1>11, <1>12

\* The ledger after each record, and at the end of the trace.
Ledgers(rs) ==
    LET flags == {rs[k].trace_flags : k \in DOMAIN rs}
        rpcs  == {rs[k].rpc_id : k \in DOMAIN rs}
    IN  [locks    : UNION {[D -> SUBSET flags] : D \in SUBSET rpcs},
         orphans  : SUBSET DOMAIN rs,
         past_end : BOOLEAN]

LEMMA NotesTyped ==
    ASSUME NEW rs, NEW k \in DOMAIN rs, NEW ledger \in Ledgers(rs)
    PROVE  /\ NoteAcquire(ledger, rs[k]) \in Ledgers(rs)
           /\ NoteRelease(ledger, rs[k], k) \in Ledgers(rs)
<1> DEFINE flags == {rs[i].trace_flags : i \in DOMAIN rs}
           rpcs  == {rs[i].rpc_id : i \in DOMAIN rs}
           L     == UNION {[D -> SUBSET flags] : D \in SUBSET rpcs}
           rpc   == rs[k].rpc_id
           lock  == rs[k].trace_flags
<1>1. rpc \in rpcs /\ lock \in flags
  OBVIOUS
<1>2. ledger \in [locks : L, orphans : SUBSET DOMAIN rs, past_end : BOOLEAN]
  BY DEF Ledgers
<1>3. Ledgers(rs) = [locks : L, orphans : SUBSET DOMAIN rs, past_end : BOOLEAN]
  BY DEF Ledgers
<1>4. PICK D \in SUBSET rpcs : ledger.locks \in [D -> SUBSET flags]
  BY <1>2
<1>5. HeldBy(ledger, rpc) \in SUBSET flags
  BY <1>4 DEF HeldBy
<1>6. ASSUME NEW X \in SUBSET flags PROVE WithLocks(ledger, rpc, X) \in L
  <2> HIDE DEF flags, rpcs, rpc
  <2>1. WithLocks(ledger, rpc, X) \in [D \cup {rpc} -> SUBSET flags]
    BY <1>4 DEF WithLocks
  <2>2. D \cup {rpc} \in SUBSET rpcs
    BY <1>1
  <2> QED BY <2>1, <2>2
<1>7. ASSUME NEW X \in SUBSET flags
      PROVE  [ledger EXCEPT !.locks = WithLocks(ledger, rpc, X)] \in Ledgers(rs)
  <2> HIDE DEF flags, rpcs, rpc, L
  <2> QED BY <1>2, <1>3, <1>6, <1>7
<1>8. HeldBy(ledger, rpc) \cup {lock} \in SUBSET flags /\ HeldBy(ledger, rpc) \ {lock} \in SUBSET flags
  BY <1>1, <1>5
<1>9. NoteAcquire(ledger, rs[k]) \in Ledgers(rs)
  <2>1. NoteAcquire(ledger, rs[k])
          = [ledger EXCEPT !.locks = WithLocks(ledger, rpc, HeldBy(ledger, rpc) \cup {lock})]
    BY DEF NoteAcquire
  <2> HIDE DEF flags, rpc, lock
  <2> QED BY <1>7, <1>8, <2>1
<1>10. CASE lock \in HeldBy(ledger, rpc)
  <2>1. NoteRelease(ledger, rs[k], k)
          = [ledger EXCEPT !.locks = WithLocks(ledger, rpc, HeldBy(ledger, rpc) \ {lock})]
    BY <1>10 DEF NoteRelease
  <2> HIDE DEF flags, rpc, lock
  <2> QED BY <1>7, <1>8, <1>9, <2>1
<1>11. CASE lock \notin HeldBy(ledger, rpc)
  <2>1. NoteRelease(ledger, rs[k], k)
          = [ledger EXCEPT !.orphans  = @ \cup {k},
                           !.past_end = @ \/ rpc \notin DOMAIN ledger.locks]
    BY <1>11 DEF NoteRelease
  <2> HIDE DEF L, rpc
  <2>2. NoteRelease(ledger, rs[k], k) \in Ledgers(rs)
    BY <1>2, <1>3, <2>1
  <2> QED BY <1>9, <2>2
<1> QED BY <1>10, <1>11

\* What pass2IdentifierIntegrity makes of a ledger at record k.
Noted(rs, ledger, k) == CASE rs[k].type = 2 -> NoteAcquire(ledger, rs[k])
                          [] rs[k].type = 3 -> NoteRelease(ledger, rs[k], k)
                          [] OTHER          -> ledger

\* The ledgers after each record exist.
LEMMA LedgerUnfolds ==
    ASSUME NEW rs, Len(rs) \in Nat, DOMAIN rs = 1 .. Len(rs)
    PROVE  \E ledger : /\ Validated(rs) = ledger[Len(rs)]
                       /\ \A k \in 0 .. Len(rs) :
                             ledger[k] = IF k = 0 THEN EmptyLedger ELSE Noted(rs, ledger[k - 1], k)
<1> DEFINE n == Len(rs)
           S == Ledgers(rs)
           Notes(g) == g = [k \in 0 .. n |-> IF k = 0 THEN EmptyLedger
                                             ELSE Noted(rs, g[k - 1], k)]
           ledger == CHOOSE g : Notes(g)
           step == [x \in Int \X S |-> IF x[1] \in 1 .. n THEN Noted(rs, x[2], x[1]) ELSE x[2]]
<1>1. n \in Nat /\ DOMAIN rs = 1 .. n
  OBVIOUS
<1>2. Validated(rs) = ledger[n]
  BY Zenon DEF Validated, Noted
<1>3. \A k \in 1 .. n, s \in S : Noted(rs, s, k) \in S
  BY <1>1, NotesTyped DEF Noted
<1>4. EmptyLedger \in S
  <2>1. [rpc \in {} |-> {}] \in [{} -> SUBSET {rs[k].trace_flags : k \in DOMAIN rs}]
    OBVIOUS
  <2> QED BY <2>1 DEF EmptyLedger, Ledgers
<1> HIDE DEF S, n
<1>5. step \in [Int \X S -> S]
  BY <1>3
<1>6. \A k \in 1 .. n, s \in S : step[<<k, s>>] = Noted(rs, s, k)
  BY <1>1
<1> HIDE DEF step
<1>7. PICK g \in [0 .. n -> S] : Recursion(g, 0, n, EmptyLedger, step)
  <2>1. 0 \in Int /\ n \in Int /\ 0 <= n
    BY <1>1
  <2> QED BY <1>4, <1>5, <2>1, RecursionExists
<1>8. ASSUME NEW k \in 0 .. n
      PROVE  g[k] = IF k = 0 THEN EmptyLedger ELSE Noted(rs, g[k - 1], k)
  <2>1. CASE k = 0
    BY <1>7, <2>1 DEF Recursion
  <2>2. CASE k # 0
    <3>1. k \in 1 .. n /\ k - 1 \in 0 .. n
      BY <1>1, <2>2
    <3>2. g[k] = step[<<k, g[k - 1]>>] /\ g[k - 1] \in S
      BY <1>7, <2>2, <3>1 DEF Recursion
    <3> QED BY <1>6, <2>2, <3>1, <3>2
  <2> QED BY <2>1, <2>2
<1>9. Notes(g)
  <2>1. g = [k \in 0 .. n |-> g[k]]
    OBVIOUS
  <2> QED BY <1>8, <2>1
<1>10. Notes(ledger)
  <2> HIDE DEF Notes
  <2> QED BY <1>9
<1> HIDE DEF ledger
<1>11. \A k \in 0 .. n : ledger[k] = IF k = 0 THEN EmptyLedger ELSE Noted(rs, ledger[k - 1], k)
  BY <1>10
<1> QED BY <1>2, <1>11 DEF n

LEMMA ValidatedSound ==
    ASSUME WellFormed(records) PROVE LedgerSound(Validated(records), Len(records))
<1>1. Len(records) \in Nat /\ DOMAIN records = 1 .. Len(records)
  BY DEF WellFormed
<1>2. PICK n \in Nat : n = Len(records)
  BY <1>1
<1>3. PICK ledger : /\ Validated(records) = ledger[n]
                    /\ \A k \in 0 .. n : ledger[k] = IF k = 0 THEN EmptyLedger
                                                    ELSE Noted(records, ledger[k - 1], k)
  BY <1>1, <1>2, LedgerUnfolds
<1>4. ASSUME NEW s, NEW k \in 1 .. n, LedgerSound(s, k - 1)
      PROVE  LedgerSound(Noted(records, s, k), k)
  <2>1. k \in Nat \ {0}
    BY <1>1
  <2>2. /\ records[k].type = 2 => LedgerSound(NoteAcquire(s, records[k]), k)
        /\ records[k].type = 3 => LedgerSound(NoteRelease(s, records[k], k), k)
        /\ records[k].type \notin {2, 3} => LedgerSound(s, k)
    BY <1>4, <2>1, LedgerStep
  <2> QED BY <2>2 DEF Noted
<1> DEFINE P == {k \in 0 .. n : LedgerSound(ledger[k], k)}
<1>5. 0 \in P
  <2>1. ledger[0] = EmptyLedger /\ 0 \in 0 .. n
    BY <1>3
  <2>2. LedgerSound(EmptyLedger, 0)
    BY DEF LedgerSound, EmptyLedger, HeldBy, HoldsAfter
  <2> QED BY <2>1, <2>2
<1>6. ASSUME NEW k \in 0 + 1 .. n, k - 1 \in P PROVE k \in P
  <2>1. k \in 1 .. n /\ k \in 0 .. n /\ k # 0
    OBVIOUS
  <2>2. LedgerSound(Noted(records, ledger[k - 1], k), k)
    BY <1>4, <1>6, <2>1
  <2> QED BY <1>3, <2>1, <2>2
<1>7. n \in P
  <2> HIDE DEF P
  <2>1. 0 \in Int /\ n \in Int /\ 0 <= n
    OBVIOUS
  <2>2. \A k \in 0 .. n : k \in P
    BY <1>5, <1>6, <2>1, IntervalInduction
  <2> QED BY <2>2
<1> QED BY <1>2, <1>3, <1>7

(***************************************************************************)
(* On any trace, whatever the order and number of its lock events, the     *)
(* releases that validation reports are exactly those whose last lock      *)
(* event is not an acquire, and only a release of an rpc that has acquired *)
(* nothing can bring the program down.                                     *)
(***************************************************************************)
THEOREM OrphansAreReported == TraceSpec => []OrphansReported
<1>1. ReplayInv => OrphansReported
  <2> SUFFICES ASSUME ReplayInv PROVE OrphansReported
    OBVIOUS
  <2>1. WellFormed(records) /\ (stage = "crashed" => Validated(records).past_end)
    BY DEF ReplayInv
  <2> DEFINE V == Validated(records)
  <2>2. LedgerSound(V, Len(records)) /\ DOMAIN records = 1 .. Len(records)
    BY <2>1, ValidatedSound DEF WellFormed
  <2> HIDE DEF V
  <2>3. V.orphans = {k \in DOMAIN records : Orphaned(k)}
    BY <2>2 DEF LedgerSound
  <2>4. stage = "crashed" => \E k \in DOMAIN records : BareRelease(k)
    BY <2>1, <2>2 DEF LedgerSound, V
  <2> QED BY <2>3, <2>4 DEF OrphansReported, BareRelease, V
<1> QED BY <1>1, ReplayInvariant, PTL

-----------------------------------------------------------------------------
(* The arrivals of a trace.                                                *)

\* How often e is in the batch b.
Times(e, b) == Cardinality({k \in DOMAIN b : b[k] = e})

LEMMA TimesAppend ==
    ASSUME NEW S, NEW b \in Seq(S), NEW x \in S, NEW e
    PROVE  /\ Times(e, b) \in Nat
           /\ Times(e, Append(b, x)) = Times(e, b) + (IF x = e THEN 1 ELSE 0)
<1> DEFINE n == Len(b)
           c == Append(b, x)
           K == {k \in DOMAIN b : b[k] = e}
           M == {k \in DOMAIN c : c[k] = e}
<1>1. n \in Nat /\ DOMAIN b = 1 .. n /\ DOMAIN c = 1 .. n + 1 /\ c[n + 1] = x
  OBVIOUS
<1>2. \A k \in 1 .. n : c[k] = b[k]
  OBVIOUS
<1>3. IsFiniteSet(K) /\ Cardinality(K) \in Nat
  <2>1. K \in SUBSET (1 .. n) /\ IsFiniteSet(1 .. n)
    BY <1>1, FS_Interval
  <2> HIDE DEF K
  <2> QED BY <2>1, FS_Subset, FS_CardinalityType
<1>4. n + 1 \notin K /\ M = IF x = e THEN K \cup {n + 1} ELSE K
  BY <1>1, <1>2
<1> HIDE DEF K, M
<1>5. Cardinality(K \cup {n + 1}) = Cardinality(K) + 1
  BY <1>3, <1>4, FS_AddElement
<1>6. Cardinality(M) = Cardinality(K) + (IF x = e THEN 1 ELSE 0)
  BY <1>3, <1>4, <1>5
<1> QED BY <1>3, <1>6 DEF Times, K, M

\* The records that put e into the batch of tick t.
Sources(rs, c, end, t, e) == {i \in c .. end - 1 : Emitted(rs[i], t) /\ ToEvent(rs[i]) = e}

LEMMA BatchCounts ==
    ASSUME NEW rs, WellFormed(rs), NEW c \in 1 .. Len(rs) + 1, NEW t \in Nat, NEW e
    PROVE  Times(e, Batch(rs, c, t)) = Cardinality(Sources(rs, c, CursorAfter(rs, c, t), t, e))
<1> DEFINE end == CursorAfter(rs, c, t)
           S == Seq(SourceEvent)
           N(k) == Sources(rs, c, k, t, e)
<1>1. end \in c .. Len(rs) + 1 /\ end \in Int /\ c \in Int /\ Len(rs) \in Nat
  <2>1. Len(rs) \in Nat
    BY DEF WellFormed
  <2>2. end \in c .. Len(rs) + 1
    BY CursorStops
  <2> QED BY <2>1, <2>2
<1>2. PICK pushed : /\ Pushing(pushed, rs, c, end, t)
                    /\ Batch(rs, c, t) = pushed[end]
                    /\ \A k \in c .. end : pushed[k] \in S
  BY BatchPushed
<1> HIDE DEF end, S
<1> DEFINE P == {k \in c .. end : Times(e, pushed[k]) = Cardinality(N(k))}
<1>3. c \in P
  <2>1. pushed[c] = <<>> /\ c \in c .. end
    BY <1>1, <1>2 DEF Pushing
  <2>2. {k \in DOMAIN <<>> : <<>>[k] = e} = {} /\ N(c) = {}
    BY <1>1 DEF Sources
  <2> HIDE DEF N
  <2>3. Times(e, <<>>) = Cardinality(N(c))
    BY <2>2 DEF Times
  <2> QED BY <2>1, <2>3
<1>4. ASSUME NEW k \in c + 1 .. end, k - 1 \in P PROVE k \in P
  <2>1. /\ k - 1 \in c .. end /\ k \in c .. end /\ k - 1 \in Int
        /\ \A i : i \in c .. k - 1 <=> i = k - 1 \/ i \in c .. (k - 1) - 1
        /\ k - 1 \notin c .. (k - 1) - 1 /\ k - 1 \in 1 .. Len(rs)
    BY <1>1
  <2>2. Times(e, pushed[k - 1]) = Cardinality(N(k - 1)) /\ pushed[k - 1] \in S
    BY <1>2, <1>4, <2>1
  <2>3. IsFiniteSet(N(k - 1)) /\ k - 1 \notin N(k - 1)
    <3>1. N(k - 1) \in SUBSET (c .. (k - 1) - 1)
      BY DEF Sources
    <3>2. IsFiniteSet(c .. (k - 1) - 1)
      <4>1. (k - 1) - 1 \in Int
        BY <2>1
      <4> QED BY <1>1, <4>1, FS_Interval
    <3> HIDE DEF N
    <3> QED BY <2>1, <3>1, <3>2, FS_Subset
  <2>4. N(k) = IF Emitted(rs[k - 1], t) /\ ToEvent(rs[k - 1]) = e
               THEN N(k - 1) \cup {k - 1} ELSE N(k - 1)
    BY <2>1 DEF Sources
  <2> HIDE DEF N
  <2>5. Cardinality(N(k - 1) \cup {k - 1}) = Cardinality(N(k - 1)) + 1
    BY <2>3, FS_AddElement
  <2>6. Times(e, pushed[k]) = Cardinality(N(k))
    <3>1. CASE Emitted(rs[k - 1], t)
      <4>1. pushed[k] = Append(pushed[k - 1], ToEvent(rs[k - 1]))
        BY <1>2, <3>1 DEF Pushing
      <4>2. ToEvent(rs[k - 1]) \in SourceEvent
        BY <2>1, <3>1, EmittedTyped
      <4>3. /\ Times(e, pushed[k - 1]) \in Nat
            /\ Times(e, pushed[k]) = Times(e, pushed[k - 1])
                                        + (IF ToEvent(rs[k - 1]) = e THEN 1 ELSE 0)
        BY <2>2, <4>1, <4>2, TimesAppend DEF S
      <4> QED BY <2>2, <2>4, <2>5, <3>1, <4>3
    <3>2. CASE ~Emitted(rs[k - 1], t)
      <4>1. pushed[k] = pushed[k - 1]
        BY <1>2, <3>2 DEF Pushing
      <4> QED BY <2>2, <2>4, <3>2, <4>1
    <3> QED BY <3>1, <3>2
  <2> QED BY <2>1, <2>6
<1>5. end \in P
  <2> HIDE DEF P
  <2>1. \A k \in c .. end : k \in P
    BY <1>1, <1>3, <1>4, IntervalInduction
  <2> QED BY <1>1, <2>1
<1> QED BY <1>2, <1>5 DEF end

\* The ticks whose records the cursor has passed, and the records due in some
\* of them.
Reached == IF pc = "drain" THEN tick ELSE tick - 1

Due(s, a, b) == {k \in OnTime : /\ records[k].type = 1
                                /\ records[k].destination_service = s
                                /\ records[k].tick \in a .. b}

ArrivalOf(s) == [type |-> "Arrival", pid |-> s, payload |-> 0]

\* What service s has counted.
Counted(s) == IF Known(s) THEN processes[indexOf[s]].arrival_count ELSE 0

CursorInv ==
    /\ stage # "ready" => tick = 0 /\ pc = "tick"
    /\ \A k \in 1 .. cursor - 1 : records[k].tick <= Reached
    /\ cursor \in 1 .. Len(records) => records[cursor].tick > Reached

\* The arrivals due are counted or still on the heap.
ArrivalInv ==
    \A s \in Services :
        Counted(s) + heap[ArrivalOf(s)] = Cardinality(Due(s, CountStart, Reached))

LEMMA DueFinite ==
    ASSUME ReplayInv, NEW s, NEW a, NEW b
    PROVE  IsFiniteSet(Due(s, a, b)) /\ Cardinality(Due(s, a, b)) \in Nat
<1>1. /\ Due(s, a, b) \in SUBSET (1 .. Len(records))
      /\ Len(records) \in Nat
  BY DEF Due, OnTime, ReplayInv, WellFormed
<1>2. IsFiniteSet(1 .. Len(records))
  BY <1>1, FS_Interval
<1> QED BY <1>1, <1>2, FS_Subset, FS_CardinalityType

LEMMA ArrivalOfTyped == \A s \in Services : ArrivalOf(s) \in Event
  BY DEF ArrivalOf, Event

LEMMA OnlyArrivalOf ==
    ASSUME NEW e \in Event, e.type = "Arrival" PROVE e = ArrivalOf(e.pid)
  BY DEF Event, ArrivalOf

\* The arrivals pushed in a tick are those due in it.
LEMMA BatchIsDue ==
    ASSUME ReplayInv, CursorInv, tick \in Nat, pc = "tick", NEW s \in Services
    PROVE  Times(ArrivalOf(s), Batch(records, cursor, tick)) = Cardinality(Due(s, tick, tick))
<1> DEFINE c == cursor
           t == tick
           end == CursorAfter(records, c, t)
           e == ArrivalOf(s)
           N == Sources(records, c, end, t, e)
           D == Due(s, t, t)
<1>1. /\ WellFormed(records) /\ c \in 1 .. Len(records) + 1 /\ t \in Nat /\ Len(records) \in Nat
      /\ DOMAIN records = 1 .. Len(records)
      /\ \A k \in 1 .. Len(records) : records[k].tick \in Nat
  BY DEF ReplayInv, WellFormed
<1>2. \A k \in 1 .. c - 1 : records[k].tick <= t - 1
  BY DEF CursorInv, Reached
<1> HIDE DEF c, t, D, N
<1>3. /\ end \in c .. Len(records) + 1
      /\ \A k \in c .. end - 1 : records[k].tick <= t
      /\ end \in 1 .. Len(records) => records[end].tick > t
  BY <1>1, CursorStops
<1> HIDE DEF end
<1>4. /\ EventTypes[1] = "Arrival" /\ EventTypes[2] = "LockAcquire"
      /\ EventTypes[3] = "LockRelease" /\ EventTypes[4] = "Service"
      /\ DOMAIN EventTypes = {1, 2, 3, 4}
  BY DEF EventTypes
<1>5. ASSUME NEW k \in N PROVE k \in D
  <2>1. k \in c .. end - 1 /\ Emitted(records[k], t) /\ ToEvent(records[k]) = e
    BY DEF N, Sources
  <2>2. k \in 1 .. Len(records) /\ k \in Nat
    BY <1>1, <1>3, <2>1
  <2>3. records[k].tick = t /\ records[k].type \in DOMAIN EventTypes
    BY <2>1 DEF Emitted
  <2>4. /\ ToEvent(records[k]).type = EventTypes[records[k].type]
        /\ ToEvent(records[k]).pid = records[k].destination_service
    BY <1>1, <2>1, <2>2, EmittedTyped
  <2>5. records[k].type = 1 /\ records[k].destination_service = s
    BY <1>4, <2>1, <2>3, <2>4 DEF ArrivalOf
  <2>6. ASSUME NEW j \in 1 .. k PROVE records[j].tick <= records[k].tick
    <3>1. j \in 1 .. c - 1 \/ j \in c .. end - 1
      BY <1>1, <1>3, <2>1
    <3>2. j \in 1 .. Len(records)
      BY <2>2
    <3> QED BY <1>1, <1>2, <1>3, <2>3, <3>1, <3>2
  <2>7. k \in OnTime
    BY <1>1, <2>2, <2>6 DEF OnTime
  <2>8. t \in t .. t
    BY <1>1
  <2> QED BY <2>3, <2>5, <2>7, <2>8 DEF D, Due
<1>6. ASSUME NEW k \in D PROVE k \in N
  <2>1. /\ k \in 1 .. Len(records) /\ records[k].type = 1 /\ records[k].tick = t
        /\ records[k].destination_service = s
        /\ \A j \in 1 .. k : records[j].tick <= t
    BY <1>1 DEF D, Due, OnTime
  <2>2. ~(k < c)
    <3>1. k < c => k \in 1 .. c - 1
      BY <1>1, <2>1
    <3> QED BY <1>1, <1>2, <2>1, <3>1
  <2>3. ~(end <= k)
    <3>1. end <= k => end \in 1 .. k /\ end \in 1 .. Len(records)
      BY <1>1, <1>3, <2>1
    <3> QED BY <1>1, <1>3, <2>1, <3>1
  <2>4. k \in c .. end - 1
    BY <1>1, <1>3, <2>1, <2>2, <2>3
  <2>5. Emitted(records[k], t)
    BY <1>4, <2>1 DEF Emitted
  <2>6. ToEvent(records[k]) = e
    BY <1>4, <2>1 DEF ToEvent, ArrivalOf
  <2> QED BY <2>4, <2>5, <2>6 DEF N, Sources
<1>7. N = D
  BY <1>5, <1>6
<1>8. Times(e, Batch(records, c, t)) = Cardinality(N)
  BY <1>1, BatchCounts DEF N, end
<1> QED BY <1>7, <1>8 DEF D, c, t

\* The arrival counts and the heap that a step leaves alone.
LEMMA CountsKept ==
    ASSUME Context, indexOf' = indexOf, DOMAIN processes \subseteq DOMAIN processes',
           \A i \in DOMAIN processes : processes'[i].arrival_count = processes[i].arrival_count
    PROVE  \A s \in Services : Counted(s)' = Counted(s)
<1> SUFFICES ASSUME NEW s \in Services PROVE Counted(s)' = Counted(s)
  OBVIOUS
<1>1. Known(s) => indexOf[s] \in DOMAIN processes
  BY DEF Context, RegistryInv, RegistryConsistent
<1> QED BY <1>1 DEF Counted, Known

\* The handler of an arrival counts it, for its service only.
LEMMA ArrivalCounts ==
    ASSUME Context, NEW e \in Event, HandleArrival(e), NEW s \in Services
    PROVE  Counted(s)' = Counted(s) + (IF s = e.pid THEN 1 ELSE 0)
<1> DEFINE raw == e.pid
           ps  == Extended(processes, raw, NewProcess(raw))
           i   == indexOf'[raw]
           n   == Len(processes)
<1>1. raw \in Services /\ Register(raw) /\ processes' = [ps EXCEPT ![i] = Arrival(ps[i], tick)]
  BY EventTyped DEF HandleArrival, Pop
<1>2. /\ ps \in Seq(ProcessRecord) /\ i \in 1 .. Len(ps)
      /\ indexOf' \in [Services -> 0 .. Len(ps)]
  BY <1>1, RegisterTyped DEF Context, RegistryInv
<1>3. /\ processes \in Seq(ProcessRecord) /\ n \in Nat /\ indexOf \in [Services -> 0 .. n]
      /\ RegistryConsistent
  BY DEF Context, RegistryInv, TypeOK
<1>4. /\ \A j \in 1 .. n : ps[j] = processes[j] /\ j \in DOMAIN ps
      /\ Known(raw) => ps = processes /\ indexOf' = indexOf
      /\ ~Known(raw) => /\ Len(ps) = n + 1 /\ ps[n + 1] = NewProcess(raw)
                        /\ indexOf' = [indexOf EXCEPT ![raw] = n + 1]
  BY <1>1, <1>3 DEF Extended, Register
<1> HIDE DEF ps, i, raw
<1>5. Arrival(ps[i], tick).arrival_count = ps[i].arrival_count + 1
  BY <1>2 DEF Arrival, ProcessRecord
<1>6. /\ i \in DOMAIN processes' /\ processes'[i].arrival_count = ps[i].arrival_count + 1
      /\ \A j \in DOMAIN ps : j # i => processes'[j] = ps[j]
  <2>1. DOMAIN processes' = DOMAIN ps /\ DOMAIN ps = 1 .. Len(ps)
    BY <1>1, <1>2
  <2>2. processes'[i] = Arrival(ps[i], tick)
    BY <1>1, <1>2
  <2>3. \A j \in DOMAIN ps : j # i => processes'[j] = ps[j]
    BY <1>1
  <2> QED BY <1>2, <1>5, <2>1, <2>2, <2>3
<1>7. Counted(s)' = IF indexOf'[s] = NoPid THEN 0 ELSE processes'[indexOf'[s]].arrival_count
  BY DEF Counted, Known
<1>8. Counted(s) = IF indexOf[s] = NoPid THEN 0 ELSE processes[indexOf[s]].arrival_count
  BY DEF Counted, Known
<1>9. CASE s = raw
  <2>1. Counted(s)' = ps[i].arrival_count + 1
    BY <1>2, <1>6, <1>7, <1>9 DEF i, NoPid
  <2>2. ps[i].arrival_count = Counted(s)
    <3>1. CASE Known(raw)
      BY <1>4, <1>8, <1>9, <3>1 DEF i, Known
    <3>2. CASE ~Known(raw)
      <4>1. i = n + 1
        BY <1>1, <1>3, <1>4, <3>2 DEF i
      <4>2. NewProcess(raw).arrival_count = 0
        BY DEF NewProcess
      <4> QED BY <1>4, <1>8, <1>9, <3>2, <4>1, <4>2 DEF Known
    <3> QED BY <3>1, <3>2
  <2> QED BY <1>9, <2>1, <2>2 DEF raw
<1>10. CASE s # raw
  <2>1. indexOf'[s] = indexOf[s]
    BY <1>3, <1>4, <1>10
  <2>2. ASSUME Known(s) PROVE processes'[indexOf[s]] = processes[indexOf[s]]
    <3>1. indexOf[s] \in 1 .. n /\ processes[indexOf[s]].id = s
      BY <1>3, <2>2 DEF RegistryConsistent
    <3>2. indexOf[s] # i
      <4>1. CASE Known(raw)
        <5>1. i = indexOf[raw] /\ processes[indexOf[raw]].id = raw
          BY <1>1, <1>3, <1>4, <4>1 DEF i, RegistryConsistent
        <5> QED BY <1>10, <3>1, <5>1
      <4>2. CASE ~Known(raw)
        <5>1. i = n + 1
          BY <1>1, <1>3, <1>4, <4>2 DEF i
        <5> QED BY <1>3, <3>1, <5>1
      <4> QED BY <4>1, <4>2
    <3> QED BY <1>4, <1>6, <3>1, <3>2
  <2>3. Counted(s)' = Counted(s)
    BY <1>7, <1>8, <2>1, <2>2 DEF Known
  <2>4. Counted(s) \in Int
    <3>1. CASE Known(s)
      <4>1. indexOf[s] \in 1 .. n
        BY <1>3, <3>1 DEF RegistryConsistent
      <4>2. processes[indexOf[s]] \in ProcessRecord
        BY <1>3, <4>1
      <4>3. processes[indexOf[s]].arrival_count \in Nat
        BY <4>2 DEF ProcessRecord
      <4> QED BY <1>8, <4>3
    <3>2. CASE ~Known(s)
      BY <1>8, <3>2 DEF Known
    <3> QED BY <3>1, <3>2
  <2> QED BY <1>10, <2>3, <2>4 DEF raw
<1> QED BY <1>9, <1>10

LEMMA CountedTyped == ASSUME Context, NEW s \in Services PROVE Counted(s) \in Nat
<1>1. CASE Known(s)
  <2>1. indexOf[s] \in DOMAIN processes /\ processes \in Seq(ProcessRecord)
    BY <1>1 DEF Context, RegistryInv, RegistryConsistent, TypeOK
  <2>2. processes[indexOf[s]] \in ProcessRecord
    BY <2>1
  <2>3. processes[indexOf[s]].arrival_count \in Nat
    BY <2>2 DEF ProcessRecord
  <2> QED BY <1>1, <2>3 DEF Counted
<1>2. CASE ~Known(s)
  BY <1>2 DEF Counted
<1> QED BY <1>1, <1>2

LEMMA CursorStep ==
    ASSUME ReplayInv, ReplayInv', CursorInv, tick \in Nat, [TraceNext]_traceLoopVars
    PROVE  CursorInv'
<1>1. /\ WellFormed(records) /\ cursor \in 1 .. Len(records) + 1 /\ Len(records) \in Nat
      /\ stage = "file" => cursor = 1
  BY DEF ReplayInv, WellFormed
<1>2. /\ stage # "ready" => tick = 0 /\ pc = "tick"
      /\ \A k \in 1 .. cursor - 1 : records[k].tick <= Reached
      /\ cursor \in 1 .. Len(records) => records[cursor].tick > Reached
  BY DEF CursorInv
<1>3. CASE UNCHANGED <<tick, pc, stage, records, cursor>>
  BY <1>2, <1>3 DEF CursorInv, Reached
<1>4. CASE Refuse
  BY <1>2, <1>4 DEF Refuse, CursorInv, Reached, vars, loopVars
<1>5. CASE Load
  <2>1. cursor' = 1 /\ tick' = 0 /\ pc' = "tick" /\ Reached' = 0 - 1
    BY <1>1, <1>2, <1>5 DEF Load, Reached, vars, loopVars
  <2>2. 1 \in 1 .. Len(records') => records'[1].tick \in Nat
    BY DEF ReplayInv, WellFormed
  <2>3. cursor' \in 1 .. Len(records') => records'[cursor'].tick > Reached'
    BY <2>1, <2>2
  <2>4. \A k \in 1 .. cursor' - 1 : records'[k].tick <= Reached'
    BY <2>1
  <2> QED BY <2>1, <2>3, <2>4 DEF CursorInv
<1>6. CASE BeginTraceTick
  <2>1. /\ stage = "ready" /\ pc = "tick" /\ pc' = "drain" /\ tick' = tick
        /\ UNCHANGED <<stage, records>> /\ cursor' = CursorAfter(records, cursor, tick)
    BY <1>6 DEF BeginTraceTick, inputVars
  <2>2. Reached = tick - 1 /\ Reached' = tick
    BY <2>1 DEF Reached
  <2> DEFINE end == CursorAfter(records, cursor, tick)
  <2>3. /\ end \in cursor .. Len(records) + 1
        /\ \A k \in cursor .. end - 1 : records[k].tick <= tick
        /\ end \in 1 .. Len(records) => records[end].tick > tick
    BY <1>1, CursorStops
  <2> HIDE DEF end
  <2>4. ASSUME NEW k \in 1 .. end - 1 PROVE records[k].tick <= tick
    <3>1. k \in 1 .. cursor - 1 \/ k \in cursor .. end - 1
      BY <1>1, <2>3
    <3>2. k \in 1 .. Len(records)
      BY <1>1, <2>3
    <3>3. records[k].tick \in Nat
      BY <1>1, <3>2 DEF WellFormed
    <3>4. k \in 1 .. cursor - 1 => records[k].tick <= tick - 1
      BY <1>2, <2>2
    <3> QED BY <2>3, <3>1, <3>3, <3>4
  <2> QED BY <2>1, <2>2, <2>3, <2>4 DEF CursorInv, end
<1>7. CASE EndTick /\ UNCHANGED <<inputVars, cursor>>
  <2>1. pc = "drain" /\ pc' # "drain" /\ tick' = tick + 1 /\ UNCHANGED <<stage, records, cursor>>
    BY <1>7 DEF EndTick, inputVars
  <2>2. Reached' = Reached
    BY <2>1 DEF Reached
  <2> QED BY <1>2, <2>1, <2>2 DEF CursorInv
<1>8. CASE OtherTraceStep /\ ~EndTick /\ UNCHANGED <<inputVars, cursor>>
  BY <1>3, <1>8 DEF OtherTraceStep, HandleArrival, IgnoreLockEvent, IgnoreService, inputVars
<1>9. ASSUME NEW e \in Event, DecideInMode(e) \/ ServeAndRecord(e) \/ MeasureAndRecord(e)
      PROVE  CursorInv'
  BY <1>3, <1>9 DEF DecideInMode, Schedule, ServeAndRecord, HandleService, MeasureAndRecord,
                    HandleMetrics, inputVars
<1>10. CASE Stopped \/ UNCHANGED traceLoopVars
  BY <1>3, <1>10 DEF Stopped, traceLoopVars, vars, loopVars, inputVars
<1> QED BY <1>4, <1>5, <1>6, <1>7, <1>8, <1>9, <1>10 DEF TraceNext

LEMMA BeginTickArrivals ==
    ASSUME Context, DrainInv, ReplayInv, CursorInv, ArrivalInv, BeginTraceTick
    PROVE  ArrivalInv'
<1>1. /\ pc = "tick" /\ pc' = "drain" /\ tick' = tick /\ records' = records
      /\ indexOf' = indexOf /\ tick \in Nat /\ WarmupTicks \in Nat
  BY ContextTypes, EventLoopAssumption DEF BeginTraceTick, inputVars
<1>2. Reached = tick - 1 /\ Reached' = tick
  BY <1>1 DEF Reached
<1> SUFFICES ASSUME NEW s \in Services
             PROVE  (Counted(s) + heap[ArrivalOf(s)]
                        = Cardinality(Due(s, CountStart, Reached)))'
  BY DEF ArrivalInv
<1> DEFINE e == ArrivalOf(s)
           b == Batch(records, cursor, tick)
           new == Due(s, tick, tick)
           old == Due(s, CountStart, tick - 1)
<1>3. heap'[e] = heap[e] + Times(e, b)
  <2>1. e \in Event /\ e # ScheduleEvent /\ e # MetricsEvent
    BY ArrivalOfTyped DEF ArrivalOf, ScheduleEvent, MetricsEvent
  <2>2. PushAll(heap, b)[e] = heap[e] + Times(e, b) /\ DOMAIN PushAll(heap, b) = Event
    BY <2>1 DEF PushAll, Times
  <2>3. heap' = Push(Push(PushAll(heap, b), ScheduleEvent), MetricsEvent)
    BY DEF BeginTraceTick
  <2> HIDE DEF e, b
  <2> QED BY <2>1, <2>2, <2>3 DEF Push
<1>4. heap[e] = 0
  BY <1>1, ArrivalOfTyped DEF DrainInv, IsEmpty
<1>5. Times(e, b) = Cardinality(new)
  BY <1>1, BatchIsDue
<1>6. Cardinality(new) \in Nat /\ Cardinality(old) \in Nat /\ IsFiniteSet(new) /\ IsFiniteSet(old)
  BY DueFinite
<1>7. Counted(s) + heap[e] = Cardinality(old)
  BY <1>2 DEF ArrivalInv
<1>8. CountStart' = IF tick >= WarmupTicks THEN WarmupTicks ELSE 0
  BY <1>1 DEF CountStart, Started
<1>9. CASE tick = WarmupTicks
  <2>1. Due(s, CountStart, Reached)' = new
    <3>1. CountStart' = tick
      BY <1>1, <1>8, <1>9
    <3> QED BY <1>1, <1>2, <3>1 DEF Due, OnTime
  <2>2. Counted(s)' = 0
    <3>1. processes' = [i \in DOMAIN processes |-> WarmupReset(processes[i])]
      BY <1>9 DEF BeginTraceTick
    <3>2. \A i \in DOMAIN processes : WarmupReset(processes[i]).arrival_count = 0
      <4> SUFFICES ASSUME NEW i \in DOMAIN processes
                   PROVE  WarmupReset(processes[i]).arrival_count = 0
        OBVIOUS
      <4>1. processes[i] \in ProcessRecord
        BY ContextTypes
      <4> QED BY <4>1 DEF WarmupReset, ProcessRecord
    <3>3. Known(s) => indexOf[s] \in DOMAIN processes
      BY DEF Context, RegistryInv, RegistryConsistent
    <3> QED BY <1>1, <3>1, <3>2, <3>3 DEF Counted, Known
  <2> HIDE DEF e, b, new
  <2>3. heap'[e] = Cardinality(new)
    BY <1>3, <1>4, <1>5, <1>6
  <2> QED BY <1>6, <2>1, <2>2, <2>3 DEF e
<1>10. CASE tick # WarmupTicks
  <2>1. CountStart' = CountStart /\ CountStart \in 0 .. tick
    BY <1>1, <1>8, <1>10 DEF CountStart, Started
  <2>2. Due(s, CountStart, Reached)' = old \cup new
    <3>1. Due(s, CountStart, Reached)' = Due(s, CountStart, tick)
      BY <1>1, <1>2, <2>1 DEF Due, OnTime
    <3>2. PICK a \in 0 .. tick : a = CountStart
      BY <2>1
    <3>3. \A x \in Int : x \in a .. tick <=> x \in a .. tick - 1 \/ x \in tick .. tick
      BY <1>1, <3>2
    <3>4. \A k \in OnTime : records[k].tick \in Int
      BY DEF OnTime, ReplayInv, WellFormed
    <3> QED BY <3>1, <3>2, <3>3, <3>4 DEF Due
  <2>3. old \cap new = {}
    BY <1>1 DEF Due
  <2>4. Cardinality(old \cup new) = Cardinality(old) + Cardinality(new)
    <3> HIDE DEF old, new
    <3>1. Cardinality(old \cup new) = Cardinality(old) + Cardinality(new) - Cardinality(old \cap new)
      BY <1>6, FS_Union
    <3>2. Cardinality(old \cap new) = 0
      BY <2>3, FS_EmptySet
    <3> QED BY <1>6, <3>1, <3>2
  <2>5. Counted(s)' = Counted(s)
    BY <1>10, CountsKept DEF BeginTraceTick
  <2>6. Counted(s) \in Nat
    BY CountedTyped
  <2> HIDE DEF e, b, new, old
  <2>7. Counted(s)' + heap'[e] = Cardinality(old) + Cardinality(new)
    BY <1>3, <1>4, <1>5, <1>6, <1>7, <2>5, <2>6
  <2> QED BY <2>2, <2>4, <2>7 DEF e
<1> QED BY <1>9, <1>10

LEMMA ArrivalStep ==
    ASSUME Context, DrainInv, ReplayInv, ReplayInv', CursorInv, ArrivalInv,
           [TraceNext]_traceLoopVars
    PROVE  ArrivalInv'
<1>1. /\ tick \in Nat /\ heap \in [Event -> Nat] /\ processes \in Seq(ProcessRecord)
      /\ \A s \in Services : ArrivalOf(s) \in Event /\ Counted(s) \in Nat
      /\ \A s \in Services : Counted(s) + heap[ArrivalOf(s)]
                                 = Cardinality(Due(s, CountStart, Reached))
  BY ContextTypes, ArrivalOfTyped, CountedTyped DEF ArrivalInv
<1>2. ASSUME UNCHANGED <<tick, pc, records>>,
             \A s \in Services : Counted(s)' + heap'[ArrivalOf(s)]
                                     = Counted(s) + heap[ArrivalOf(s)]
      PROVE  ArrivalInv'
  <2> SUFFICES ASSUME NEW s \in Services
               PROVE  (Counted(s) + heap[ArrivalOf(s)]
                          = Cardinality(Due(s, CountStart, Reached)))'
    BY DEF ArrivalInv
  <2>1. Due(s, CountStart, Reached)' = Due(s, CountStart, Reached)
    BY <1>2 DEF Due, OnTime, CountStart, Started, Reached
  <2> QED BY <1>1, <1>2, <2>1
<1>3. ASSUME NEW e \in Event, NEW type, Pop(e, type), type # "Arrival", NEW s \in Services
      PROVE  Popped(heap, e)[ArrivalOf(s)] = heap[ArrivalOf(s)] /\ DOMAIN Popped(heap, e) = Event
  <2>1. ArrivalOf(s) # e
    BY <1>3 DEF Pop, ArrivalOf
  <2> QED BY <1>1, <1>3, <2>1, PoppedHeap
<1>4. ASSUME NEW e \in Event, HandleArrival(e), UNCHANGED records PROVE ArrivalInv'
  <2>1. Pop(e, "Arrival") /\ heap' = Popped(heap, e) /\ UNCHANGED <<tick, pc>>
    BY <1>4 DEF HandleArrival
  <2>2. e.type = "Arrival" /\ e = ArrivalOf(e.pid)
    BY <2>1, OnlyArrivalOf DEF Pop
  <2>3. /\ heap[e] > 0
        /\ \A f \in Event : heap'[f] = IF f = e THEN heap[e] - 1 ELSE heap[f]
    BY <2>1, PoppedHeap
  <2>4. ASSUME NEW s \in Services
        PROVE  Counted(s)' + heap'[ArrivalOf(s)] = Counted(s) + heap[ArrivalOf(s)]
    <3>1. Counted(s)' = Counted(s) + (IF s = e.pid THEN 1 ELSE 0)
      BY <1>4, ArrivalCounts
    <3>2. ArrivalOf(s) = e <=> s = e.pid
      BY <2>2 DEF ArrivalOf
    <3>3. heap[ArrivalOf(s)] \in Nat /\ Counted(s) \in Nat /\ ArrivalOf(s) \in Event
      BY <1>1
    <3> QED BY <2>3, <3>1, <3>2, <3>3
  <2> QED BY <1>2, <1>4, <2>1, <2>4
<1>5. ASSUME NEW e \in Event, IgnoreLockEvent(e) \/ IgnoreService(e), UNCHANGED records
      PROVE  ArrivalInv'
  <2>1. /\ heap' = Popped(heap, e) /\ UNCHANGED <<tick, pc, indexOf, processes>>
        /\ \E type \in {"LockRelease", "LockAcquire", "Service"} : Pop(e, type)
    BY <1>5 DEF IgnoreLockEvent, IgnoreService
  <2>2. \A s \in Services : Counted(s)' = Counted(s)
    BY <2>1, CountsKept
  <2>3. \A s \in Services : heap'[ArrivalOf(s)] = heap[ArrivalOf(s)]
    BY <1>3, <2>1
  <2> QED BY <1>2, <1>5, <2>1, <2>2, <2>3
<1>6. ASSUME NEW e \in Event, DecideInMode(e) PROVE ArrivalInv'
  <2>1. PICK i \in Decisions : Schedule(e, i)
    BY <1>6 DEF DecideInMode
  <2>2. /\ UNCHANGED <<tick, pc, indexOf, processes, records>> /\ Pop(e, "Schedule")
        /\ heap' = HeapAfterSchedule(e, i, prev' # NoPid /\ i # prev')
    BY <1>6, <2>1, TraceLoopAssumption DEF DecideInMode, Schedule, inputVars
  <2>3. \A s \in Services : Counted(s)' = Counted(s)
    BY <2>2, CountsKept
  <2>4. \A raw, cx, s : ServiceEvent(raw, cx) # ArrivalOf(s)
    BY DEF ServiceEvent, ArrivalOf
  <2>5. \A s \in Services : heap'[ArrivalOf(s)] = heap[ArrivalOf(s)]
    <3> SUFFICES ASSUME NEW s \in Services PROVE heap'[ArrivalOf(s)] = heap[ArrivalOf(s)]
      OBVIOUS
    <3>1. Popped(heap, e)[ArrivalOf(s)] = heap[ArrivalOf(s)] /\ DOMAIN Popped(heap, e) = Event
      BY <1>3, <2>2
    <3> QED BY <1>1, <2>2, <2>4, <3>1 DEF HeapAfterSchedule, Push
  <2> QED BY <1>2, <2>2, <2>3, <2>5
<1>7. ASSUME NEW e \in Event, ServeAndRecord(e) PROVE ArrivalInv'
  <2> DEFINE i  == indexOf[e.pid]
             at == tick + (IF e.payload = 1 THEN SwitchCost ELSE 0)
  <2>1. /\ UNCHANGED <<tick, pc, indexOf, records>> /\ Pop(e, "Service")
        /\ heap' = Popped(heap, e)
        /\ processes' = [processes EXCEPT ![i] = Service(processes[i], at)]
    BY <1>7 DEF ServeAndRecord, HandleService, inputVars
  <2> HIDE DEF i, at
  <2>2. \A j \in DOMAIN processes : processes'[j].arrival_count = processes[j].arrival_count
    <3> SUFFICES ASSUME NEW j \in DOMAIN processes
                 PROVE  processes'[j].arrival_count = processes[j].arrival_count
      OBVIOUS
    <3>1. processes[j] \in ProcessRecord
      BY <1>1
    <3>2. Service(processes[j], at).arrival_count = processes[j].arrival_count
      BY <3>1, ServiceKeeps
    <3> QED BY <2>1, <3>2
  <2>3. \A s \in Services : Counted(s)' = Counted(s)
    BY <2>1, <2>2, CountsKept
  <2>4. \A s \in Services : heap'[ArrivalOf(s)] = heap[ArrivalOf(s)]
    BY <1>3, <2>1
  <2> QED BY <1>2, <2>1, <2>3, <2>4
<1>8. ASSUME NEW e \in Event, MeasureAndRecord(e) PROVE ArrivalInv'
  <2>1. /\ HandleMetrics(e) /\ UNCHANGED <<tick, pc, indexOf, records>> /\ Pop(e, "Metrics")
        /\ heap' = Popped(heap, e)
    BY <1>8 DEF MeasureAndRecord, HandleMetrics, inputVars
  <2>2. /\ DOMAIN processes' = DOMAIN processes
        /\ \A j \in DOMAIN processes : \A f \in Counters : processes'[j][f] = processes[j][f]
    BY <2>1, MetricsKeeps
  <2>3. "arrival_count" \in Counters
    BY DEF Counters
  <2>4. \A s \in Services : Counted(s)' = Counted(s)
    BY <2>1, <2>2, <2>3, CountsKept
  <2>5. \A s \in Services : heap'[ArrivalOf(s)] = heap[ArrivalOf(s)]
    BY <1>3, <2>1
  <2> QED BY <1>2, <2>1, <2>4, <2>5
<1>9. CASE EndTick /\ UNCHANGED <<inputVars, cursor>>
  <2>1. /\ pc = "drain" /\ pc' # "drain" /\ tick' = tick + 1
        /\ UNCHANGED <<records, heap, processes, indexOf>>
    BY <1>9 DEF EndTick, inputVars
  <2>2. Reached' = Reached /\ CountStart' = CountStart
    BY <1>1, <2>1, EventLoopAssumption DEF Reached, CountStart, Started
  <2> SUFFICES ASSUME NEW s \in Services
               PROVE  (Counted(s) + heap[ArrivalOf(s)]
                          = Cardinality(Due(s, CountStart, Reached)))'
    BY DEF ArrivalInv
  <2>3. Due(s, CountStart, Reached)' = Due(s, CountStart, Reached)
    BY <2>1, <2>2 DEF Due, OnTime
  <2>4. Counted(s)' = Counted(s)
    BY <2>1 DEF Counted, Known
  <2> QED BY <1>1, <2>1, <2>3, <2>4
<1>10. CASE Load
  <2> SUFFICES ASSUME NEW s \in Services
               PROVE  (Counted(s) + heap[ArrivalOf(s)]
                          = Cardinality(Due(s, CountStart, Reached)))'
    BY DEF ArrivalInv
  <2>1. /\ UNCHANGED <<tick, pc, heap, processes, indexOf>>
        /\ tick = 0 /\ pc = "tick" /\ records = <<>>
    BY <1>10 DEF Load, vars, loopVars, CursorInv, ReplayInv
  <2>2. Due(s, CountStart, Reached) = {}
    BY <2>1 DEF Due, OnTime
  <2>3. Due(s, CountStart, Reached)' = {}
    <3>1. Reached' = 0 - 1
      BY <2>1 DEF Reached
    <3>2. CountStart' \in Nat
      BY <2>1, EventLoopAssumption DEF CountStart
    <3>3. \A k \in DOMAIN records' : records'[k].tick \in Nat
      BY DEF ReplayInv, WellFormed
    <3> QED BY <3>1, <3>2, <3>3 DEF Due, OnTime
  <2>4. Counted(s)' = Counted(s)
    BY <2>1 DEF Counted, Known
  <2> QED BY <1>1, <2>1, <2>2, <2>3, <2>4
<1>11. CASE Refuse \/ Stopped \/ UNCHANGED traceLoopVars
  <2>1. UNCHANGED <<tick, pc, heap, processes, indexOf, records>>
    BY <1>11 DEF Refuse, Stopped, traceLoopVars, vars, loopVars, inputVars
  <2>2. \A s \in Services : Counted(s)' = Counted(s)
    BY <2>1 DEF Counted, Known
  <2> QED BY <1>2, <2>1, <2>2
<1>12. CASE BeginTraceTick
  BY <1>12, BeginTickArrivals
<1>13. CASE OtherTraceStep /\ ~EndTick /\ UNCHANGED <<inputVars, cursor, reportVars>>
  BY <1>4, <1>5, <1>13 DEF OtherTraceStep, inputVars
<1> QED BY <1>6, <1>7, <1>8, <1>9, <1>10, <1>11, <1>12, <1>13 DEF TraceNext

LEMMA ArrivalInvariant == TraceSpec => [](CursorInv /\ ArrivalInv)
<1>1. TraceInit => CursorInv /\ ArrivalInv
  <2> SUFFICES ASSUME TraceInit PROVE CursorInv /\ ArrivalInv
    OBVIOUS
  <2>1. /\ tick = 0 /\ pc = "tick" /\ records = <<>> /\ cursor = 1 /\ heap = EmptyHeap
        /\ indexOf = [s \in Services |-> IF s \in InitialServices THEN s + 1 ELSE NoPid]
        /\ processes = [i \in 1 .. NumProcs |-> NewProcess(i - 1)]
    BY DEF TraceInit, Init
  <2>2. CursorInv
    BY <2>1 DEF CursorInv
  <2>3. ASSUME NEW s \in Services
        PROVE  Counted(s) + heap[ArrivalOf(s)] = Cardinality(Due(s, CountStart, Reached))
    <3>1. Due(s, CountStart, Reached) = {}
      BY <2>1 DEF Due, OnTime
    <3>2. heap[ArrivalOf(s)] = 0
      BY <2>1, ArrivalOfTyped DEF EmptyHeap
    <3>3. Counted(s) = 0
      <4>1. Known(s) => s \in InitialServices /\ indexOf[s] = s + 1
        BY <2>1 DEF Known
      <4>2. \A i \in 1 .. NumProcs : processes[i].arrival_count = 0
        BY <2>1 DEF NewProcess
      <4>3. s \in InitialServices => s + 1 \in 1 .. NumProcs
        BY OnlineMetricsAssumption DEF InitialServices
      <4> QED BY <4>1, <4>2, <4>3 DEF Counted
    <3> QED BY <3>1, <3>2, <3>3, FS_EmptySet
  <2> QED BY <2>2, <2>3 DEF ArrivalInv
<1>2. LoopInv /\ ReplayInv /\ ReplayInv' /\ CursorInv /\ ArrivalInv /\ [TraceNext]_traceLoopVars
          => CursorInv' /\ ArrivalInv'
  <2> SUFFICES ASSUME LoopInv, ReplayInv, ReplayInv', CursorInv, ArrivalInv,
                      [TraceNext]_traceLoopVars
               PROVE  CursorInv' /\ ArrivalInv'
    OBVIOUS
  <2>1. Context /\ DrainInv
    BY DEF LoopInv
  <2> QED BY <2>1, ContextTypes, CursorStep, ArrivalStep
<1> QED BY <1>1, <1>2, TraceContext, PTL DEF TraceSpec

(***************************************************************************)
(* Whatever the trace holds and however long the run, each arrival that is *)
(* in time order is counted at its own tick by its own service, none       *)
(* twice, and one behind an earlier record never: the batches the cursor   *)
(* makes of the trace are exactly the records due, and the heap loses none *)
(* of them.                                                                *)
(***************************************************************************)
THEOREM ArrivalsAreOnTime == TraceSpec => []ArrivalsOnTime
<1>1. LoopInv /\ ReplayInv /\ ArrivalInv => ArrivalsOnTime
  <2> SUFFICES ASSUME LoopInv, ReplayInv, ArrivalInv, BetweenTicks, NEW s \in Services
               PROVE  LET due == Due(s, StatisticsStart, tick - 1)
                      IN  IF Known(s) THEN processes[indexOf[s]].arrival_count = Cardinality(due)
                          ELSE due = {}
    BY DEF ArrivalsOnTime, Due
  <2>1. pc # "drain" /\ Reached = tick - 1 /\ CountStart = StatisticsStart
    BY DEF BetweenTicks, Reached, CountStart, Started, StatisticsStart
  <2>2. heap[ArrivalOf(s)] = 0 /\ Counted(s) \in Nat
    BY <2>1, ArrivalOfTyped, CountedTyped DEF LoopInv, DrainInv, IsEmpty
  <2> DEFINE due == Due(s, StatisticsStart, tick - 1)
  <2>3. Counted(s) + heap[ArrivalOf(s)] = Cardinality(due)
    BY <2>1 DEF ArrivalInv
  <2>4. IsFiniteSet(due)
    BY DueFinite
  <2> HIDE DEF due
  <2>5. Counted(s) = Cardinality(due)
    BY <2>2, <2>3
  <2>6. Cardinality(due) = 0 => due = {}
    BY <2>4, FS_EmptySet
  <2> QED BY <2>5, <2>6 DEF Counted, due
<1> QED BY <1>1, ArrivalInvariant, TraceContext, PTL

-----------------------------------------------------------------------------
(* Reconstruction: the dependencies of a trace.                            *)

LEMMA MaxBelow ==
    ASSUME NEW n \in Nat, NEW S \in SUBSET (0 .. n), S # {}
    PROVE  \E x \in S : \A y \in S : y <= x
<1> DEFINE T == {n - x : x \in S}
<1>1. T \in SUBSET Nat /\ T # {}
  <2>1. \A x \in S : n - x \in Nat
    BY SMT
  <2>2. T \in SUBSET Nat
    BY <2>1, Zenon
  <2>3. PICK x \in S : TRUE
    OBVIOUS
  <2>4. n - x \in T
    BY <2>3, Zenon
  <2> QED BY <2>2, <2>4, Zenon
<1>2. Min(T) \in T /\ \A y \in T : Min(T) <= y
  <2> HIDE DEF T
  <2> QED BY <1>1, MinOf
<1>3. PICK x \in S : Min(T) = n - x
  BY <1>2
<1>4. ASSUME NEW y \in S PROVE y <= x
  <2>1. n - y \in T
    OBVIOUS
  <2>2. n - x <= n - y
    BY <1>2, <1>3, <2>1
  <2>3. x \in Int /\ y \in Int
    OBVIOUS
  <2> QED BY <2>2, <2>3
<1> QED BY <1>4

\* One step along the edges.
Onward(edges, S) == {e[2] : e \in {f \in edges : f[1] \in S}}

\* What Reaches computes, step by step.
LEMMA ReachUnfolds ==
    ASSUME NEW edges, NEW a, NEW n \in Nat
    PROVE  \E g : /\ g[0] = Onward(edges, {a})
                  /\ \A m \in 1 .. n : g[m] = g[m - 1] \cup Onward(edges, g[m - 1])
                  /\ \A b : Reaches(edges, a, b, n) <=> b \in g[n]
<1> DEFINE V    == {e[2] : e \in edges}
           S    == SUBSET V
           base == {e[2] : e \in {f \in edges : f[1] = a}}
           next(s) == s \cup {e[2] : e \in {f \in edges : f[1] \in s}}
           Is(g) == g = [m \in 0 .. n |-> IF m = 0 THEN base ELSE next(g[m - 1])]
           iter == CHOOSE g : Is(g)
           step == [x \in Int \X S |-> next(x[2])]
<1>1. base \in S /\ step \in [Int \X S -> S]
  OBVIOUS
<1>2. \A k \in Int, s \in S : step[<<k, s>>] = next(s)
  OBVIOUS
<1>3. \A b : Reaches(edges, a, b, n) <=> b \in iter[n]
  BY DEF Reaches
<1>4. base = Onward(edges, {a}) /\ \A s : next(s) = s \cup Onward(edges, s)
  BY DEF Onward
<1> HIDE DEF S, step, base, next
<1>5. PICK g \in [0 .. n -> S] : Recursion(g, 0, n, base, step)
  <2>1. 0 \in Int /\ n \in Int /\ 0 <= n
    OBVIOUS
  <2> QED BY <1>1, <2>1, RecursionExists
<1>6. Is(g)
  <2>1. ASSUME NEW m \in 0 .. n PROVE g[m] = IF m = 0 THEN base ELSE next(g[m - 1])
    <3>1. CASE m = 0
      BY <1>5, <3>1 DEF Recursion
    <3>2. CASE m # 0
      <4>1. m - 1 \in 0 .. n /\ m \in Int
        BY <3>2
      <4>2. g[m - 1] \in S
        BY <1>5, <4>1
      <4>3. g[m] = step[<<m, g[m - 1]>>]
        BY <1>5, <3>2 DEF Recursion
      <4> QED BY <1>2, <3>2, <4>1, <4>2, <4>3
    <3> QED BY <3>1, <3>2
  <2>2. g = [m \in 0 .. n |-> g[m]]
    BY <1>5
  <2> QED BY <2>1, <2>2
<1>7. Is(iter)
  <2> HIDE DEF Is
  <2> QED BY <1>6
<1> HIDE DEF iter
<1>8. \A m \in 0 .. n : iter[m] = IF m = 0 THEN base ELSE next(iter[m - 1])
  BY <1>7
<1>9. iter[0] = base /\ \A m \in 1 .. n : iter[m] = next(iter[m - 1])
  <2>1. 0 \in 0 .. n /\ \A m \in 1 .. n : m \in 0 .. n /\ m # 0
    OBVIOUS
  <2> QED BY <1>8, <2>1
<1> QED BY <1>3, <1>4, <1>9

\* The edges of a trace, in terms of what is consecutive in it.
LEMMA DagEdges ==
    ASSUME NEW rs, NEW trace
    PROVE  LET own == OfTrace(rs, trace)
           IN  /\ \A e \in TraceDag(rs, trace) :
                     \E j, k \in own : /\ j < k /\ \A m \in own : m <= j \/ k <= m
                                       /\ rs[j].rpc_id # rs[k].rpc_id
                                       /\ e = <<rs[j].rpc_id, rs[k].rpc_id>>
               /\ \A j, k \in own : /\ j < k /\ \A m \in own : m <= j \/ k <= m
                                    /\ rs[j].rpc_id # rs[k].rpc_id
                                    => <<rs[j].rpc_id, rs[k].rpc_id>> \in TraceDag(rs, trace)
<1> DEFINE own == OfTrace(rs, trace)
           pairs == {q \in Consecutive(own) : rs[q[1]].rpc_id # rs[q[2]].rpc_id}
<1>1. TraceDag(rs, trace) = {<<rs[p[1]].rpc_id, rs[p[2]].rpc_id>> : p \in pairs}
  BY DEF TraceDag
<1>2. ASSUME NEW p \in pairs
      PROVE  \E j, k \in own : /\ j < k /\ \A m \in own : m <= j \/ k <= m
                               /\ rs[j].rpc_id # rs[k].rpc_id
                               /\ p = <<j, k>>
  BY DEF Consecutive
<1>3. ASSUME NEW j \in own, NEW k \in own, j < k, \A m \in own : m <= j \/ k <= m,
             rs[j].rpc_id # rs[k].rpc_id
      PROVE  <<j, k>> \in pairs
  BY <1>3 DEF Consecutive
<1> HIDE DEF pairs, own
<1>4. ASSUME NEW e \in TraceDag(rs, trace)
      PROVE  \E j, k \in own : /\ j < k /\ \A m \in own : m <= j \/ k <= m
                               /\ rs[j].rpc_id # rs[k].rpc_id
                               /\ e = <<rs[j].rpc_id, rs[k].rpc_id>>
  <2>1. PICK p \in pairs : e = <<rs[p[1]].rpc_id, rs[p[2]].rpc_id>>
    BY <1>1
  <2>2. PICK j \in own, k \in own : /\ j < k /\ \A m \in own : m <= j \/ k <= m
                                    /\ rs[j].rpc_id # rs[k].rpc_id
                                    /\ p = <<j, k>>
    BY <1>2
  <2> QED BY <2>1, <2>2
<1>5. ASSUME NEW j \in own, NEW k \in own, j < k, \A m \in own : m <= j \/ k <= m,
             rs[j].rpc_id # rs[k].rpc_id
      PROVE  <<rs[j].rpc_id, rs[k].rpc_id>> \in TraceDag(rs, trace)
  <2>1. <<j, k>> \in pairs
    BY <1>3, <1>5
  <2> QED BY <1>1, <2>1
<1> QED BY <1>4, <1>5 DEF own

\* An rpc comes back after another one.
Returns(rs, own) == \E i, j, k \in own : /\ i < j /\ j < k
                                         /\ rs[i].rpc_id = rs[k].rpc_id
                                         /\ rs[j].rpc_id # rs[i].rpc_id

\* All records of rpc a stand before all of rpc b.
Precedes(rs, own, a, b) ==
    \A p, q \in own : rs[p].rpc_id = a /\ rs[q].rpc_id = b => p < q

(***************************************************************************)
(* When no rpc comes back, edges lead from earlier rpcs to later ones, and *)
(* so do paths.                                                            *)
(***************************************************************************)
LEMMA PathsAdvance ==
    ASSUME NEW rs, NEW trace, DOMAIN rs \in SUBSET Nat,
           ~Returns(rs, OfTrace(rs, trace)), NEW n \in Nat,
           NEW a, NEW b, Reaches(TraceDag(rs, trace), a, b, n)
    PROVE  Precedes(rs, OfTrace(rs, trace), a, b)
<1> DEFINE own == OfTrace(rs, trace)
           edges == TraceDag(rs, trace)
           Attained(y) == Precedes(rs, own, a, y) /\ \E q \in own : rs[q].rpc_id = y
<1>0. own \in SUBSET Nat
  BY DEF OfTrace
<1>1. ASSUME NEW e \in edges
      PROVE  /\ Precedes(rs, own, e[1], e[2])
             /\ \E q \in own : rs[q].rpc_id = e[1]
             /\ \E q \in own : rs[q].rpc_id = e[2]
  <2>1. PICK j \in own, k \in own : /\ j < k /\ \A m \in own : m <= j \/ k <= m
                                    /\ rs[j].rpc_id # rs[k].rpc_id
                                    /\ e = <<rs[j].rpc_id, rs[k].rpc_id>>
    BY DagEdges
  <2>2. e[1] = rs[j].rpc_id /\ e[2] = rs[k].rpc_id
    BY <2>1
  <2>3. ASSUME NEW p \in own, NEW q \in own, rs[p].rpc_id = e[1], rs[q].rpc_id = e[2]
        PROVE  p < q
    <3> SUFFICES ASSUME ~(p < q) PROVE FALSE
      OBVIOUS
    <3>1. /\ p \in Nat /\ q \in Nat /\ j \in Nat /\ k \in Nat
          /\ p # q /\ q # j /\ p # k
      BY <1>0, <2>1, <2>2, <2>3
    <3>2. q < p
      BY <3>1
    <3>3. CASE q <= j
      <4>1. q < j
        BY <3>1, <3>3
      <4> QED BY <2>1, <2>2, <2>3, <4>1 DEF Returns
    <3>4. CASE k <= q
      <4>1. k < p
        BY <3>1, <3>2, <3>4
      <4> QED BY <2>1, <2>2, <2>3, <4>1 DEF Returns
    <3> QED BY <2>1, <3>3, <3>4
  <2> QED BY <2>2, <2>3 DEF Precedes
<1>2. ASSUME NEW x, NEW y, NEW z, Precedes(rs, own, x, y), Precedes(rs, own, y, z),
             \E q \in own : rs[q].rpc_id = y
      PROVE  Precedes(rs, own, x, z)
  <2> PICK q \in own : rs[q].rpc_id = y
    BY <1>2
  <2> SUFFICES ASSUME NEW p \in own, NEW r \in own, rs[p].rpc_id = x, rs[r].rpc_id = z
               PROVE  p < r
    BY DEF Precedes
  <2>1. p < q /\ q < r
    BY <1>2 DEF Precedes
  <2> QED BY <1>0, <2>1
<1>3. PICK g : /\ g[0] = Onward(edges, {a})
               /\ \A m \in 1 .. n : g[m] = g[m - 1] \cup Onward(edges, g[m - 1])
               /\ \A c : Reaches(edges, a, c, n) <=> c \in g[n]
  BY ReachUnfolds
<1> HIDE DEF own, edges
<1> DEFINE P == {m \in 0 .. n : \A y \in g[m] : Attained(y)}
<1>4. 0 \in P
  <2>1. ASSUME NEW y \in g[0] PROVE Attained(y)
    <3>1. PICK e \in edges : e[1] = a /\ e[2] = y
      BY <1>3 DEF Onward
    <3> QED BY <1>1, <3>1
  <2> HIDE DEF Attained
  <2> QED BY <2>1
<1>5. ASSUME NEW m \in 0 + 1 .. n, m - 1 \in P PROVE m \in P
  <2>1. m \in 1 .. n /\ m \in 0 .. n
    OBVIOUS
  <2>2. g[m] = g[m - 1] \cup Onward(edges, g[m - 1])
    BY <1>3, <2>1
  <2>3. \A y \in g[m - 1] : Attained(y)
    BY <1>5
  <2>4. ASSUME NEW y \in Onward(edges, g[m - 1]) PROVE Attained(y)
    <3>1. PICK e \in edges : e[1] \in g[m - 1] /\ e[2] = y
      BY DEF Onward
    <3>2. Attained(e[1])
      BY <2>3, <3>1
    <3> QED BY <1>1, <1>2, <3>1, <3>2
  <2> HIDE DEF Attained
  <2> QED BY <2>1, <2>2, <2>3, <2>4
<1>6. n \in P
  <2> HIDE DEF P
  <2>1. 0 \in Int /\ n \in Int
    OBVIOUS
  <2>2. \A m \in 0 .. n : m \in P
    BY <1>4, <1>5, <2>1, IntervalInduction
  <2> QED BY <2>2
<1>7. b \in g[n]
  BY <1>3 DEF edges
<1> QED BY <1>6, <1>7 DEF own

(***************************************************************************)
(* An rpc that comes back is reached from itself: by the edge to the first *)
(* other rpc after it, and from there from record to record.               *)
(***************************************************************************)
LEMMA ReturnsAreCycles ==
    ASSUME NEW rs, NEW trace, NEW n \in Nat, DOMAIN rs \in SUBSET (1 .. n),
           Returns(rs, OfTrace(rs, trace))
    PROVE  \E e \in TraceDag(rs, trace) : Reaches(TraceDag(rs, trace), e[1], e[1], n)
<1> DEFINE own   == OfTrace(rs, trace)
           edges == TraceDag(rs, trace)
<1>0. own \in SUBSET (1 .. n)
  BY DEF OfTrace
<1>1. PICK i \in own, j \in own, k \in own :
             /\ i < j /\ j < k /\ rs[i].rpc_id = rs[k].rpc_id /\ rs[j].rpc_id # rs[i].rpc_id
  BY DEF Returns
<1> DEFINE a      == rs[i].rpc_id
           others == {m \in own : i < m /\ rs[m].rpc_id # a}
           t      == Min(others)
<1>2. others \in SUBSET Nat /\ j \in others
  BY <1>0, <1>1
<1>3. t \in others /\ \A m \in others : t <= m
  <2> HIDE DEF others
  <2> QED BY <1>2, MinOf
<1>4. /\ t \in own /\ i < t /\ t <= j /\ rs[t].rpc_id # a
      /\ \A m \in own : i < m /\ m < t => rs[m].rpc_id = a
  <2>1. t \in own /\ i < t /\ t <= j /\ rs[t].rpc_id # a
    BY <1>2, <1>3
  <2>2. ASSUME NEW m \in own, i < m, m < t PROVE rs[m].rpc_id = a
    <3>1. ~(t <= m)
      BY <1>0, <2>1, <2>2
    <3>2. m \notin others
      BY <1>3, <3>1
    <3> QED BY <2>2, <3>2
  <2> QED BY <2>1, <2>2
<1> HIDE DEF others, t, own, edges
\* Every record but the first has one just before it.
<1>5. ASSUME NEW q \in own, NEW low \in own, low < q
      PROVE  \E p \in own : low <= p /\ p < q /\ \A m \in own : m <= p \/ q <= m
  <2> DEFINE S == {m \in own : m < q}
  <2>1. S \in SUBSET (0 .. n) /\ low \in S
    <3>1. low \in S
      BY <1>5, Zenon
    <3>2. ASSUME NEW m \in S PROVE m \in 0 .. n
      <4>1. m \in own
        OBVIOUS
      <4> QED BY <1>0, <4>1
    <3> QED BY <3>1, <3>2, Zenon
  <2>2. PICK p \in S : \A y \in S : y <= p
    <3> HIDE DEF S
    <3> QED BY <2>1, MaxBelow
  <2>3. \A m \in own : m <= p \/ q <= m
    <3> SUFFICES ASSUME NEW m \in own, ~(q <= m) PROVE m <= p
      OBVIOUS
    <3>1. m < q
      BY <1>0
    <3> QED BY <2>2, <3>1
  <2> QED BY <2>1, <2>2, <2>3
<1>6. /\ \A e \in edges :
            \E x, y \in own : /\ x < y /\ \A m \in own : m <= x \/ y <= m
                              /\ rs[x].rpc_id # rs[y].rpc_id
                              /\ e = <<rs[x].rpc_id, rs[y].rpc_id>>
      /\ \A x, y \in own : /\ x < y /\ \A m \in own : m <= x \/ y <= m
                           /\ rs[x].rpc_id # rs[y].rpc_id
                           => <<rs[x].rpc_id, rs[y].rpc_id>> \in edges
  BY DagEdges DEF own, edges
<1>7. <<a, rs[t].rpc_id>> \in edges
  <2>1. PICK p \in own : i <= p /\ p < t /\ \A m \in own : m <= p \/ t <= m
    BY <1>4, <1>5
  <2>2. rs[p].rpc_id = a
    <3>1. p = i \/ i < p
      BY <1>0, <2>1
    <3> QED BY <1>4, <2>1, <3>1
  <2> QED BY <1>4, <1>6, <2>1, <2>2
<1>8. PICK g : /\ g[0] = Onward(edges, {a})
               /\ \A m \in 1 .. n : g[m] = g[m - 1] \cup Onward(edges, g[m - 1])
               /\ \A c : Reaches(edges, a, c, n) <=> c \in g[n]
  BY ReachUnfolds
<1> HIDE DEF a
<1> DEFINE P == {m \in 0 .. n : \A q \in own : t <= q /\ q <= t + m => rs[q].rpc_id \in g[m]}
<1>9. t \in 1 .. n /\ \A q \in own : q \in 1 .. n
  BY <1>0, <1>4
<1>10. 0 \in P
  <2>1. rs[t].rpc_id \in g[0]
    <3> DEFINE e == <<a, rs[t].rpc_id>>
    <3>1. e \in edges /\ e[1] \in {a} /\ e[2] = rs[t].rpc_id
      BY <1>7
    <3> HIDE DEF e
    <3> QED BY <1>8, <3>1 DEF Onward
  <2>2. \A q \in own : t <= q /\ q <= t + 0 => q = t
    BY <1>9
  <2> QED BY <2>1, <2>2
<1>11. ASSUME NEW m \in 0 + 1 .. n, m - 1 \in P PROVE m \in P
  <2>1. m \in 1 .. n /\ m \in 0 .. n /\ m \in Int
    OBVIOUS
  <2>2. g[m] = g[m - 1] \cup Onward(edges, g[m - 1])
    BY <1>8, <2>1
  <2>3. \A q \in own : t <= q /\ q <= t + (m - 1) => rs[q].rpc_id \in g[m - 1]
    BY <1>11
  <2>4. ASSUME NEW q \in own, t <= q, q <= t + m PROVE rs[q].rpc_id \in g[m]
    <3>1. CASE q <= t + (m - 1)
      BY <2>2, <2>3, <2>4, <3>1
    <3>2. CASE ~(q <= t + (m - 1))
      <4>1. t < q
        BY <1>9, <2>1, <2>4, <3>2
      <4>2. PICK p \in own : t <= p /\ p < q /\ \A r \in own : r <= p \/ q <= r
        BY <1>4, <1>5, <4>1
      <4>3. p <= t + (m - 1)
        BY <1>9, <2>1, <2>4, <4>2
      <4>4. rs[p].rpc_id \in g[m - 1]
        BY <2>3, <4>2, <4>3
      <4>5. CASE rs[p].rpc_id = rs[q].rpc_id
        BY <2>2, <4>4, <4>5
      <4>6. CASE rs[p].rpc_id # rs[q].rpc_id
        <5> DEFINE e == <<rs[p].rpc_id, rs[q].rpc_id>>
        <5>1. e \in edges /\ e[1] \in g[m - 1] /\ e[2] = rs[q].rpc_id
          BY <1>6, <4>2, <4>4, <4>6
        <5> HIDE DEF e
        <5>2. rs[q].rpc_id \in Onward(edges, g[m - 1])
          BY <5>1 DEF Onward
        <5> QED BY <2>2, <5>2
      <4> QED BY <4>5, <4>6
    <3> QED BY <3>1, <3>2
  <2> QED BY <2>1, <2>4
<1>12. n \in P
  <2> HIDE DEF P
  <2>1. 0 \in Int /\ n \in Int /\ n \in 0 .. n
    OBVIOUS
  <2>2. \A m \in 0 .. n : m \in P
    BY <1>10, <1>11, <2>1, IntervalInduction
  <2> QED BY <2>1, <2>2
<1>13. t <= k /\ k <= t + n
  BY <1>1, <1>4, <1>9
<1>14. rs[k].rpc_id \in g[n]
  BY <1>12, <1>13
<1>15. Reaches(edges, a, a, n)
  BY <1>1, <1>8, <1>14 DEF a
<1> DEFINE e == <<a, rs[t].rpc_id>>
<1>16. e \in edges /\ e[1] = a
  BY <1>7
<1> HIDE DEF e
<1> QED BY <1>15, <1>16 DEF edges

(***************************************************************************)
(* The reconstructed dependencies of any trace have a cycle exactly when   *)
(* an rpc comes back after another one (buildDependencyGraph).             *)
(***************************************************************************)
THEOREM CyclesComeFromReturns == TraceSpec => []CyclesAreReturns
<1>1. ASSUME NEW n \in Nat, DOMAIN records = 1 .. n, Len(records) = n PROVE CyclesAreReturns
  <2> SUFFICES ASSUME NEW trace \in Traces(records)
               PROVE  (\E e \in TraceDag(records, trace) :
                          Reaches(TraceDag(records, trace), e[1], e[1], n))
                         <=> Returns(records, OfTrace(records, trace))
    BY <1>1 DEF CyclesAreReturns, Returns
  <2> DEFINE own == OfTrace(records, trace)
             edges == TraceDag(records, trace)
  <2>1. DOMAIN records \in SUBSET (1 .. n) /\ DOMAIN records \in SUBSET Nat
    BY <1>1
  <2>2. ASSUME Returns(records, own) PROVE \E e \in edges : Reaches(edges, e[1], e[1], n)
    BY <2>1, <2>2, ReturnsAreCycles
  <2>3. ASSUME NEW e \in edges, Reaches(edges, e[1], e[1], n), ~Returns(records, own)
        PROVE  FALSE
    <3>1. Precedes(records, own, e[1], e[1])
      BY <2>1, <2>3, PathsAdvance
    <3>2. PICK j \in own, k \in own : e = <<records[j].rpc_id, records[k].rpc_id>>
      BY DagEdges
    <3>3. j < j
      BY <3>1, <3>2 DEF Precedes
    <3>4. j \in Nat
      BY <2>1 DEF OfTrace
    <3> QED BY <3>3, <3>4
  <2> QED BY <2>2, <2>3
<1>2. ReplayInv => CyclesAreReturns
  <2> SUFFICES ASSUME ReplayInv PROVE CyclesAreReturns
    OBVIOUS
  <2>1. Len(records) \in Nat /\ DOMAIN records = 1 .. Len(records)
    BY EventLoopAssumption DEF ReplayInv, WellFormed
  <2> QED BY <1>1, <2>1
<1> QED BY <1>2, ReplayInvariant, PTL

-----------------------------------------------------------------------------
(* The report of waiting times.                                            *)

\* The library operators that OfflineMetrics uses are those used here.
LEMMA SameMin == \A S : OM!Min(S) = Min(S)
BY DEF OM!Min, Min

LEMMA SameMax == \A S : OM!Max(S) = Max(S)
BY DEF OM!Max, Max

LEMMA SameRange == \A f : OM!Range(f) = Range(f)
BY DEF OM!Range, Range

LEMMA SameCardinality == \A S : OM!Cardinality(S) = Cardinality(S)
BY DEF OM!Cardinality, Cardinality, OM!IsFiniteSet, IsFiniteSet

LEMMA SameSum ==
    /\ \A f, S : OM!SumFunctionOnSet(f, S) = SumFunctionOnSet(f, S)
    /\ \A f : OM!SumFunction(f) = SumFunctionOnSet(f, DOMAIN f)
<1>1. \A f, S : OM!SumFunctionOnSet(f, S) = SumFunctionOnSet(f, S)
  BY DEF OM!SumFunctionOnSet, SumFunctionOnSet, OM!FoldFunctionOnSet, FoldFunctionOnSet,
         OM!MapThenFoldSet, MapThenFoldSet
<1> QED BY <1>1 DEF OM!SumFunction

\* A larger share of a whole is at a larger index.
LEMMA ShareGrows ==
    ASSUME NEW n \in Nat, NEW p \in Nat, NEW q \in Nat, p <= q, q < 100
    PROVE  /\ (p * n) \div 100 \in Nat /\ (q * n) \div 100 \in Nat
           /\ (p * n) \div 100 <= (q * n) \div 100
           /\ n > 0 => (q * n) \div 100 < n
<1>1. p * n \in Nat /\ q * n \in Nat /\ p * n <= q * n
  BY Z3
<1>2. q * n <= 99 * n /\ 99 * n \in Nat
  BY Z3
<1> DEFINE a == p * n
           b == q * n
<1> HIDE DEF a, b
<1>3. \A x, y \in Nat : x <= y => x \div 100 \in Nat /\ y \div 100 \in Nat /\ x \div 100 <= y \div 100
  BY Z3
<1>4. n > 0 => b \div 100 < n
  BY <1>2, Z3 DEF b
<1> QED BY <1>1, <1>3, <1>4 DEF a, b

\* The waits up to which more than "index" samples lie.
Reaching(waits, index) ==
    {w \in Range(waits) : Cardinality({k \in DOMAIN waits : waits[k] <= w}) > index}

LEMMA WaitPercentileIs ==
    ASSUME NEW om, NEW p
    PROVE  OM!WaitPercentile(om, p)
               = Min(Reaching(om.wait_times, (p * Len(om.wait_times)) \div 100))
BY SameMin, SameRange, SameCardinality DEF OM!WaitPercentile, Reaching

\* Percentiles rise, and never above the longest wait.
LEMMA PercentilesRise ==
    ASSUME NEW waits \in Seq(Nat), NEW m \in Range(waits), \A w \in Range(waits) : w <= m,
           NEW p \in Nat, NEW q \in Nat, p <= q, q < 100
    PROVE  LET n == Len(waits)
           IN  /\ Min(Reaching(waits, (p * n) \div 100)) <= Min(Reaching(waits, (q * n) \div 100))
               /\ Min(Reaching(waits, (q * n) \div 100)) <= m
<1> DEFINE n == Len(waits)
           i == (p * n) \div 100
           j == (q * n) \div 100
           S == Reaching(waits, i)
           T == Reaching(waits, j)
<1>1. /\ n \in Nat /\ DOMAIN waits = 1 .. n /\ n > 0
      /\ Range(waits) \in SUBSET Nat
  BY DEF Range
<1>2. i \in Nat /\ j \in Nat /\ i <= j /\ j < n
  BY <1>1, ShareGrows
<1> HIDE DEF i, j
<1>3. \A w : {k \in DOMAIN waits : waits[k] <= w} \in SUBSET (1 .. n)
  BY <1>1
<1>4. IsFiniteSet(1 .. n) /\ Cardinality(1 .. n) = n
  BY <1>1, FS_Interval
<1>5. \A w : Cardinality({k \in DOMAIN waits : waits[k] <= w}) \in Nat
  BY <1>3, <1>4, FS_Subset, FS_CardinalityType
<1>6. m \in T
  <2>1. {k \in DOMAIN waits : waits[k] <= m} = 1 .. n
    BY <1>1 DEF Range
  <2>2. Cardinality({k \in DOMAIN waits : waits[k] <= m}) > j
    BY <1>2, <1>4, <2>1
  <2> QED BY <2>2 DEF Reaching
<1>7. T \in SUBSET S /\ S \in SUBSET Nat /\ T \in SUBSET Nat
  <2> SUFFICES ASSUME NEW w \in T PROVE w \in S
    BY <1>1 DEF Reaching
  <2>1. w \in Range(waits) /\ Cardinality({k \in DOMAIN waits : waits[k] <= w}) > j
    BY DEF Reaching
  <2>2. PICK c \in Nat : c = Cardinality({k \in DOMAIN waits : waits[k] <= w})
    BY <1>5
  <2>3. c > i
    BY <1>2, <2>1, <2>2
  <2> QED BY <2>1, <2>2, <2>3 DEF Reaching
<1> HIDE DEF S, T
<1>8. Min(T) \in T /\ \A y \in T : Min(T) <= y
  BY <1>6, <1>7, MinOf
<1>9. Min(S) \in S /\ \A y \in S : Min(S) <= y
  BY <1>6, <1>7, MinOf
<1> QED BY <1>6, <1>7, <1>8, <1>9 DEF S, T, i, j

\* The samples are those the loop counts, and no wait is longer than the longest.
WaitInv ==
    LET waits == report.wait_times
    IN  /\ WaitFields \subseteq DOMAIN report
        /\ waits \in Seq(Nat)
        /\ Len(waits) = offline.waits
        /\ SumFunction(waits) = offline.total_wait_sum
        /\ report.max_wait_seen \in Range(waits) \cup {0}
        /\ \A w \in Range(waits) : w <= report.max_wait_seen

LEMMA WaitsKept ==
    ASSUME WaitInv, Agree(report', report, WaitFields),
           offline'.waits = offline.waits, offline'.total_wait_sum = offline.total_wait_sum
    PROVE  WaitInv'
<1>1. /\ WaitFields \subseteq DOMAIN report'
      /\ report'.wait_times = report.wait_times
      /\ report'.max_wait_seen = report.max_wait_seen
  BY DEF Agree, WaitFields
<1> QED BY <1>1 DEF WaitInv

\* One more sample.
LEMMA WaitsAppend ==
    ASSUME NEW waits \in Seq(Nat), NEW w \in Nat
    PROVE  /\ Append(waits, w) \in Seq(Nat)
           /\ Len(Append(waits, w)) = Len(waits) + 1
           /\ SumFunction(Append(waits, w)) = SumFunction(waits) + w
           /\ Range(Append(waits, w)) = Range(waits) \cup {w}
<1> DEFINE t == Append(waits, w)
           n == Len(waits) + 1
<1>1. /\ t \in Seq(Nat) /\ Len(t) = n /\ DOMAIN t = DOMAIN waits \cup {n} /\ n \notin DOMAIN waits
      /\ t[n] = w /\ \A k \in DOMAIN waits : t[k] = waits[k] /\ waits[k] \in Nat
  OBVIOUS
<1>2. IsFiniteSet(DOMAIN waits)
  <2>1. DOMAIN waits = 1 .. Len(waits) /\ Len(waits) \in Nat
    OBVIOUS
  <2> QED BY <2>1, FS_Interval
<1> HIDE DEF t, n
<1>3. SumFunctionOnSet(t, DOMAIN waits \cup {n}) = SumFunctionOnSet(waits, DOMAIN waits) + t[n]
  <2>1. Summable(waits, DOMAIN waits) /\ t[n] \in Int
    BY <1>1, <1>2 DEF Summable
  <2> QED BY <1>1, <2>1, SumAdd
<1>4. Range(t) = Range(waits) \cup {w}
  BY <1>1 DEF Range
<1> QED BY <1>1, <1>3, <1>4 DEF SumFunction, t, n

LEMMA WaitsRecorded ==
    ASSUME WaitInv, NEW w \in Nat, report' = OM!RecordWaitingTime(report, w),
           offline'.waits = offline.waits + 1,
           offline'.total_wait_sum = offline.total_wait_sum + w
    PROVE  WaitInv'
<1> DEFINE waits == report.wait_times
           m == report.max_wait_seen
<1>1. /\ WaitFields \subseteq DOMAIN report /\ waits \in Seq(Nat)
      /\ Len(waits) = offline.waits /\ SumFunction(waits) = offline.total_wait_sum
      /\ m \in Range(waits) \cup {0} /\ \A v \in Range(waits) : v <= m
  BY DEF WaitInv
<1>2. OM!Larger(w, 0) = w
  BY DEF OM!Larger
<1>3. /\ DOMAIN report' = DOMAIN report
      /\ report'.wait_times = Append(waits, w)
      /\ report'.max_wait_seen = OM!Larger(m, w)
  BY <1>1, <1>2 DEF OM!RecordWaitingTime, WaitFields
<1>4. Range(waits) \in SUBSET Nat
  BY <1>1 DEF Range
<1> HIDE DEF waits, m
<1>5. /\ Append(waits, w) \in Seq(Nat)
      /\ Len(Append(waits, w)) = Len(waits) + 1
      /\ SumFunction(Append(waits, w)) = SumFunction(waits) + w
      /\ Range(Append(waits, w)) = Range(waits) \cup {w}
  BY <1>1, WaitsAppend
<1>6. /\ OM!Larger(m, w) \in Range(waits) \cup {w} \cup {0}
      /\ \A v \in Range(waits) \cup {w} : v <= OM!Larger(m, w)
  BY <1>1, <1>4 DEF OM!Larger
<1> QED BY <1>1, <1>3, <1>5, <1>6 DEF WaitInv

LEMMA WaitStart == TraceInit => WaitInv
<1> SUFFICES ASSUME TraceInit PROVE WaitInv
  OBVIOUS
<1>1. /\ report = OM!OfflineStart /\ offline.waits = 0 /\ offline.total_wait_sum = 0
  BY DEF TraceInit, Init, OfflineInit
<1>2. /\ report.wait_times = <<>> /\ report.max_wait_seen = 0 /\ WaitFields \subseteq DOMAIN report
  BY <1>1 DEF OM!OfflineStart, WaitFields
<1>3. <<>> \in Seq(Nat) /\ Len(<<>>) = 0 /\ DOMAIN <<>> = {}
  OBVIOUS
<1>4. SumFunction(<<>>) = 0 /\ Range(<<>>) = {}
  BY <1>3, SumEmpty DEF SumFunction, Range
<1> QED BY <1>1, <1>2, <1>3, <1>4 DEF WaitInv

\* The Metrics event changes only its own fields of the report.
LEMMA RecordedKeeps ==
    ASSUME NEW om, DecisionFields \subseteq DOMAIN om, NEW v, NEW d
    PROVE  /\ DOMAIN Recorded(om, v, d) = DOMAIN om
           /\ \A f \in DOMAIN om \ (QueueFields \cup DecisionFields \cup DriftFields \cup VFields) :
                 Recorded(om, v, d)[f] = om[f]
<1> DEFINE snapshot == IF tick % SnapshotEvery = 0
                       THEN OM!RecordQueueSnapshot(om, processes) ELSE om
           decided  == OM!RecordDecision(snapshot, last, mode)
           drifted  == OM!RecordDrift(decided, d)
<1>1. DOMAIN snapshot = DOMAIN om /\ \A f \in DOMAIN om \ QueueFields : snapshot[f] = om[f]
  BY FieldsKept
<1>2. Recorded(om, v, d) = OM!RecordLyapunovV(drifted, v)
  BY DEF Recorded
<1> HIDE DEF snapshot
<1>3. /\ DOMAIN decided = DOMAIN om
      /\ \A f \in DOMAIN om \ DecisionFields : decided[f] = snapshot[f]
  BY <1>1, DecisionKeeps
<1> HIDE DEF decided
<1>4. DOMAIN drifted = DOMAIN om /\ \A f \in DOMAIN om \ DriftFields : drifted[f] = decided[f]
  BY <1>3, FieldsKept
<1> HIDE DEF drifted
<1>5. /\ DOMAIN Recorded(om, v, d) = DOMAIN om
      /\ \A f \in DOMAIN om \ VFields : Recorded(om, v, d)[f] = drifted[f]
  BY <1>2, <1>4, FieldsKept
<1> QED BY <1>1, <1>3, <1>4, <1>5

LEMMA WaitStep ==
    ASSUME LoopInv, StreakInv, WaitInv, [TraceNext]_traceLoopVars
    PROVE  WaitInv'
<1>1. /\ Context /\ offline \in OfflineRecord /\ last \in Nat
      /\ WaitFields \subseteq DOMAIN report /\ DecisionFields \subseteq DOMAIN report
  BY ContextTypes DEF LoopInv, OfflineInv, StreakInv, StreaksSound, WaitInv
<1>2. report' = report => Agree(report', report, WaitFields)
  BY <1>1 DEF Agree
<1>3. CASE UNCHANGED <<report, offline>>
  BY <1>2, <1>3, WaitsKept
<1>4. CASE BeginTraceTick
  BY <1>3, <1>4 DEF BeginTraceTick, reportVars
<1>5. ASSUME NEW e \in Event, DecideInMode(e) PROVE WaitInv'
  <2>1. report' = report /\ offline' = offline
    BY <1>5, TraceLoopAssumption DEF DecideInMode, Schedule
  <2> QED BY <1>3, <2>1
<1>6. ASSUME NEW e \in Event, ServeAndRecord(e) PROVE WaitInv'
  <2>1. PICK w \in Nat : offline' = IF Recording THEN RecordWaits(offline, 1, w) ELSE offline
    BY <1>1, <1>6, ServiceTotals DEF ServeAndRecord
  <2>2. CASE Recording
    <3>1. /\ offline'.waits = offline.waits + 1
          /\ offline'.total_wait_sum = offline.total_wait_sum + w
          /\ offline.total_wait_sum \in Nat
      <4>1. 1 \in Nat /\ offline' = RecordWaits(offline, 1, w)
        BY <2>1, <2>2
      <4>2. /\ RecordWaits(offline, 1, w).waits = offline.waits + 1
            /\ RecordWaits(offline, 1, w).total_wait_sum = offline.total_wait_sum + w
        BY <1>1, <4>1, RecordWaitsChanges
      <4>3. offline.total_wait_sum \in Nat
        BY <1>1 DEF OfflineRecord
      <4> QED BY <4>1, <4>2, <4>3
    <3>2. offline'.total_wait_sum - offline.total_wait_sum = w
      BY <3>1
    <3>3. report' = OM!RecordWaitingTime(report, w)
      BY <1>6, <2>2, <3>2 DEF ServeAndRecord
    <3> QED BY <3>1, <3>3, WaitsRecorded
  <2>3. CASE ~Recording
    <3>1. UNCHANGED <<report, offline>>
      BY <1>6, <2>1, <2>3 DEF ServeAndRecord
    <3> QED BY <1>3, <3>1
  <2> QED BY <2>2, <2>3
<1>7. ASSUME NEW e \in Event, MeasureAndRecord(e) PROVE WaitInv'
  <2>1. /\ offline' = IF Recording THEN RecordDecision(offline, last) ELSE offline
        /\ \/ report' = report
           \/ \E v, d : report' = Recorded(report, v, d)
    BY <1>7 DEF MeasureAndRecord, HandleMetrics
  <2>2. offline'.waits = offline.waits /\ offline'.total_wait_sum = offline.total_wait_sum
    BY <1>1, <2>1, RecordDecisionChanges
  <2>3. WaitFields \cap (QueueFields \cup DecisionFields \cup DriftFields \cup VFields) = {}
    BY DEF DecisionFields, StreakFields, ChoiceFields, WaitFields, QueueFields, DriftFields, VFields
  <2>4. ASSUME NEW v, NEW d, report' = Recorded(report, v, d)
        PROVE  Agree(report', report, WaitFields)
    BY <1>1, <2>3, <2>4, RecordedKeeps DEF Agree
  <2> QED BY <1>2, <2>1, <2>2, <2>4, WaitsKept
<1>8. CASE OtherTraceStep /\ UNCHANGED <<inputVars, cursor, reportVars>>
  <2>1. UNCHANGED <<report, offline>>
    BY <1>8 DEF OtherTraceStep, reportVars, HandleArrival, IgnoreLockEvent, IgnoreService, EndTick
  <2> QED BY <1>3, <2>1
<1>9. CASE Refuse \/ Load \/ Stopped \/ UNCHANGED traceLoopVars
  <2>1. UNCHANGED <<report, offline>>
    BY <1>9 DEF Refuse, Load, Stopped, traceLoopVars, reportVars, vars, loopVars
  <2> QED BY <1>3, <2>1
<1> QED BY <1>4, <1>5, <1>6, <1>7, <1>8, <1>9 DEF TraceNext

(***************************************************************************)
(* However many jobs complete, the waiting times of the report are those   *)
(* of the jobs completed after the warm-up: they add up to what the        *)
(* processes waited, and their percentiles rise to the longest of them     *)
(* (recordWaitingTime, compute).                                           *)
(***************************************************************************)
THEOREM WaitReportHolds == TraceSpec => []WaitReportConsistent
<1>1. OfflineInv /\ WaitInv => WaitReportConsistent
  <2> SUFFICES ASSUME OfflineInv, WaitInv, BetweenTicks, tick > WarmupTicks
               PROVE  LET waits == report.wait_times
                      IN  /\ Len(waits) = OM!Completed(processes)
                          /\ SumFunction(waits) = TotalOf("total_waiting_time")
                          /\ waits # <<>> =>
                                 /\ OM!WaitPercentile(report, 50) <= OM!WaitPercentile(report, 95)
                                 /\ OM!WaitPercentile(report, 95) <= OM!WaitPercentile(report, 99)
                                 /\ OM!WaitPercentile(report, 99) <= report.max_wait_seen
                                 /\ report.max_wait_seen \in Range(waits)
    BY DEF WaitReportConsistent
  <2> DEFINE waits == report.wait_times
             m == report.max_wait_seen
  <2>1. /\ waits \in Seq(Nat) /\ m \in Range(waits) \cup {0} /\ \A w \in Range(waits) : w <= m
        /\ Len(waits) = offline.waits /\ SumFunction(waits) = offline.total_wait_sum
    BY DEF WaitInv
  <2>2. /\ offline.waits = TotalOf("completed_jobs")
        /\ offline.total_wait_sum = TotalOf("total_waiting_time")
    BY DEF OfflineInv, Started
  <2>3. OM!Completed(processes) = TotalOf("completed_jobs")
    BY SameSum DEF OM!Completed, TotalOf, SumOver, SumFunction
  <2>4. ASSUME waits # <<>>
        PROVE  /\ OM!WaitPercentile(report, 50) <= OM!WaitPercentile(report, 95)
               /\ OM!WaitPercentile(report, 95) <= OM!WaitPercentile(report, 99)
               /\ OM!WaitPercentile(report, 99) <= m
               /\ m \in Range(waits)
    <3> HIDE DEF waits, m
    <3>1. 1 \in DOMAIN waits /\ waits[1] \in Nat /\ waits[1] \in Range(waits)
      BY <2>1, <2>4 DEF Range
    <3>2. m \in Range(waits)
      BY <2>1, <3>1
    <3>3. \A p, q \in Nat : p <= q /\ q < 100 =>
              LET n == Len(waits)
              IN  /\ Min(Reaching(waits, (p * n) \div 100)) <= Min(Reaching(waits, (q * n) \div 100))
                  /\ Min(Reaching(waits, (q * n) \div 100)) <= m
      BY <2>1, <3>2, PercentilesRise
    <3>4. \A p : OM!WaitPercentile(report, p) = Min(Reaching(waits, (p * Len(waits)) \div 100))
      BY WaitPercentileIs DEF waits
    <3>5. \A p, q \in Nat : p <= q /\ q < 100 =>
              /\ OM!WaitPercentile(report, p) <= OM!WaitPercentile(report, q)
              /\ OM!WaitPercentile(report, q) <= m
      BY <3>3, <3>4
    <3>6. 50 \in Nat /\ 95 \in Nat /\ 99 \in Nat /\ 50 <= 95 /\ 95 <= 99 /\ 95 < 100 /\ 99 < 100
      OBVIOUS
    <3> QED BY <3>2, <3>5, <3>6
  <2> QED BY <2>1, <2>2, <2>3, <2>4
<1>2. StreakInv /\ WaitInv /\ RegistryInv /\ LoopInv /\ [TraceNext]_traceLoopVars
          => StreakInv' /\ WaitInv'
  BY StreakStep, WaitStep DEF RegistryInv
<1>3. TraceInit => StreakInv /\ WaitInv
  BY StreakStart, WaitStart
<1>4. TraceSpec => [](RegistryInv /\ LoopInv)
  BY ReplayInvariant, TraceContext, PTL
<1>5. RegistryInv /\ LoopInv => OfflineInv
  BY DEF LoopInv
<1> QED BY <1>1, <1>2, <1>3, <1>4, <1>5, PTL DEF TraceSpec

-----------------------------------------------------------------------------
(* The report of the queues.                                               *)

\* A histogram: how many samples of each queue length, of those that occur.
IsHistogram(hist) ==
    /\ hist = [q \in DOMAIN hist |-> hist[q]]
    /\ DOMAIN hist \in SUBSET Nat /\ IsFiniteSet(DOMAIN hist)
    /\ \A q \in DOMAIN hist : hist[q] \in Nat \ {0}

\* A weight of the queue lengths, summed over the samples of a histogram.
Weighted(hist, weight) ==
    SumFunctionOnSet([q \in DOMAIN hist |-> weight[q] * hist[q]], DOMAIN hist)

LEMMA BinnedIs ==
    ASSUME NEW hist, IsHistogram(hist), NEW qs \in [1 .. NumProcs -> Nat]
    PROVE  LET U == DOMAIN hist \cup Range(qs)
               b == OM!Binned(hist, qs)
           IN  /\ IsHistogram(b) /\ DOMAIN b = U /\ U \in SUBSET Nat /\ IsFiniteSet(U)
               /\ qs \in [1 .. NumProcs -> U]
               /\ \A u \in U : b[u] = OM!SamplesAt(hist, u)
                                          + Cardinality({i \in 1 .. NumProcs : qs[i] = u})
<1> DEFINE U == DOMAIN hist \cup Range(qs)
           b == OM!Binned(hist, qs)
           of(u) == {i \in 1 .. NumProcs : qs[i] = u}
<1>1. NumProcs \in Nat /\ IsFiniteSet(1 .. NumProcs) /\ DOMAIN qs = 1 .. NumProcs
  BY OnlineMetricsAssumption, FS_Interval
<1>2. b = [u \in U |-> OM!SamplesAt(hist, u) + Cardinality(of(u))]
  BY <1>1, SameRange, SameCardinality DEF OM!Binned
<1>3. Range(qs) = {qs[i] : i \in 1 .. NumProcs}
  BY <1>1 DEF Range
<1>4. U \in SUBSET Nat /\ IsFiniteSet(U)
  <2>1. qs \in Surjection(1 .. NumProcs, Range(qs))
    BY <1>3 DEF Surjection
  <2>2. IsFiniteSet(Range(qs))
    BY <1>1, <2>1, FS_Surjection
  <2>3. Range(qs) \in SUBSET Nat
    BY <1>3
  <2> QED BY <2>2, <2>3, FS_Union DEF IsHistogram
<1>5. qs \in [1 .. NumProcs -> U]
  BY <1>3
<1>6. \A u \in U : IsFiniteSet(of(u)) /\ Cardinality(of(u)) \in Nat
  <2> SUFFICES ASSUME NEW u \in U PROVE IsFiniteSet(of(u)) /\ Cardinality(of(u)) \in Nat
    OBVIOUS
  <2>1. of(u) \in SUBSET (1 .. NumProcs)
    OBVIOUS
  <2> HIDE DEF of
  <2> QED BY <1>1, <2>1, FS_Subset, FS_CardinalityType
<1>7. ASSUME NEW u \in U PROVE OM!SamplesAt(hist, u) + Cardinality(of(u)) \in Nat \ {0}
  <2>1. CASE u \in DOMAIN hist
    <3>1. OM!SamplesAt(hist, u) \in Nat \ {0}
      BY <2>1 DEF OM!SamplesAt, IsHistogram
    <3> HIDE DEF of
    <3> QED BY <1>6, <3>1
  <2>2. CASE u \notin DOMAIN hist
    <3>1. OM!SamplesAt(hist, u) = 0
      BY <2>2 DEF OM!SamplesAt
    <3>2. of(u) # {}
      BY <1>3, <2>2
    <3> HIDE DEF of
    <3>3. Cardinality(of(u)) # 0
      BY <1>6, <3>2, FS_EmptySet
    <3> QED BY <1>6, <3>1, <3>3
  <2> QED BY <2>1, <2>2
<1> HIDE DEF of, U, b
<1>8. DOMAIN b = U /\ \A u \in U : b[u] = OM!SamplesAt(hist, u) + Cardinality(of(u))
  BY <1>2
<1>9. IsHistogram(b)
  BY <1>2, <1>4, <1>7, <1>8 DEF IsHistogram
<1> QED BY <1>4, <1>5, <1>8, <1>9 DEF of, U, b

\* One more sample for each process adds the weights of the sampled lengths.
LEMMA HistogramGrows ==
    ASSUME NEW hist, IsHistogram(hist), NEW qs \in [1 .. NumProcs -> Nat],
           NEW weight \in [Nat -> Int]
    PROVE  /\ Weighted(OM!Binned(hist, qs), weight)
                  = Weighted(hist, weight)
                        + SumFunctionOnSet([i \in 1 .. NumProcs |-> weight[qs[i]]], 1 .. NumProcs)
           /\ Weighted(hist, weight) \in Int
<1> DEFINE D == DOMAIN hist
           U == D \cup Range(qs)
           b == OM!Binned(hist, qs)
           I == 1 .. NumProcs
           before == [u \in U |-> OM!SamplesAt(hist, u)]
           w == [u \in U |-> weight[u]]
           old == [u \in U |-> w[u] * before[u]]
           new == [u \in DOMAIN b |-> weight[u] * b[u]]
           was == [u \in D |-> weight[u] * hist[u]]
<1>1. /\ DOMAIN b = U /\ U \in SUBSET Nat /\ IsFiniteSet(U) /\ qs \in [I -> U]
      /\ \A u \in U : b[u] = OM!SamplesAt(hist, u) + Cardinality({i \in I : qs[i] = u})
  BY BinnedIs
<1>2. NumProcs \in Nat /\ IsFiniteSet(I)
  BY OnlineMetricsAssumption, FS_Interval
<1>3. /\ D \in SUBSET Nat /\ IsFiniteSet(D) /\ D \subseteq U
      /\ \A u \in D : hist[u] \in Nat
  BY DEF IsHistogram
<1>4. \A u \in U : OM!SamplesAt(hist, u) \in Nat
  BY <1>3 DEF OM!SamplesAt
<1> HIDE DEF D, U, b
<1>5. w \in [U -> Int] /\ before \in [U -> Nat]
  BY <1>1, <1>4
<1>6. \A u \in U : new[u] = w[u] * (before[u] + Cardinality({i \in I : qs[i] = u}))
  BY <1>1
<1>7. [i \in I |-> w[qs[i]]] = [i \in I |-> weight[qs[i]]]
  BY <1>1
<1>8. SumFunctionOnSet(new, U) = SumFunctionOnSet(old, U)
                                    + SumFunctionOnSet([i \in I |-> w[qs[i]]], I)
  <2> DEFINE added == [i \in I |-> w[qs[i]]]
  <2>1. Regroups(I, U, qs, w, before, old, added, new)
    <3> HIDE DEF new, w, before, I
    <3> QED BY <1>1, <1>2, <1>5, <1>6 DEF Regroups
  <2> HIDE DEF new, w, before, I, old, added, was
  <2>2. SumFunctionOnSet(new, U) = SumFunctionOnSet(old, U) + SumFunctionOnSet(added, I)
    BY <2>1, SumRegrouped
  <2> QED BY <2>2 DEF added
<1>9. Summable(was, D)
  <2>1. \A u \in D : weight[u] \in Int /\ hist[u] \in Int
    BY <1>3
  <2>2. \A u \in D : weight[u] * hist[u] \in Int
    BY <2>1
  <2> QED BY <1>3, <2>2 DEF Summable
<1>10. \A u \in D : old[u] = was[u]
  <2> SUFFICES ASSUME NEW u \in D PROVE old[u] = was[u]
    OBVIOUS
  <2>1. before[u] = hist[u] /\ w[u] = weight[u] /\ u \in U
    BY <1>3 DEF OM!SamplesAt, D
  <2> QED BY <2>1
<1>11. \A u \in U \ D : old[u] = 0
  <2> SUFFICES ASSUME NEW u \in U \ D PROVE old[u] = 0
    OBVIOUS
  <2>1. before[u] = 0 /\ w[u] \in Int
    BY <1>5 DEF OM!SamplesAt, D
  <2> QED BY <2>1
<1>12. SumFunctionOnSet(old, U) = SumFunctionOnSet(was, D)
  <2> HIDE DEF old, was
  <2>1. SumFunctionOnSet(old, D) = SumFunctionOnSet(was, D) /\ Summable(old, D)
    BY <1>9, <1>10, SumSame DEF Summable
  <2>2. SumFunctionOnSet(old, U) = SumFunctionOnSet(old, D)
    BY <1>1, <1>3, <1>11, <2>1, SumSuperset
  <2> QED BY <2>1, <2>2
<1>13. SumFunctionOnSet(was, D) \in Int
  BY <1>9, SumType
<1> QED BY <1>1, <1>7, <1>8, <1>12, <1>13 DEF Weighted, D, b

\* The queue lengths themselves, their squares, and one for each sample.
Lengths == [q \in Nat |-> q]
Squares == [q \in Nat |-> q * q]
Ones    == [q \in Nat |-> 1]

\* The accumulators of n snapshots: the two sums are those of the histogram, and
\* each process has its own least length, one that occurs, and with the others
\* no more than any that does.
HistSound(om, n) ==
    LET hist == om.queue_hist
        D    == DOMAIN hist
        I    == 1 .. NumProcs
        min  == om.queue_min_per_proc
    IN  /\ QueueFields \subseteq DOMAIN om
        /\ om.queue_samples = n /\ n \in Nat
        /\ IsHistogram(hist)
        /\ Weighted(hist, Ones) = n * NumProcs
        /\ om.queue_sum = Weighted(hist, Lengths)
        /\ om.queue_sum_per_proc \in [I -> Int]
        /\ SumFunctionOnSet(om.queue_sum_per_proc, I) = Weighted(hist, Lengths)
        /\ om.queue_sq_per_proc \in [I -> Int]
        /\ SumFunctionOnSet(om.queue_sq_per_proc, I) = Weighted(hist, Squares)
        /\ om.queue_max \in D \cup {0} /\ \A q \in D : q <= om.queue_max
        /\ min \in [I -> Nat]
        /\ D = {} => \A i \in I : min[i] = NoMin
        /\ D # {} => /\ \A i \in I : min[i] \in D
                     /\ \A q \in D : \E i \in I : min[i] <= q

\* The processes whose queues a snapshot samples, all of them registered.
Sampleable(ps) ==
    /\ NumProcs <= Len(ps) /\ Len(ps) \in Nat
    /\ \A i \in 1 .. NumProcs : ps[i].queue_length \in 0 .. NoMin

SampledLengths(ps) == [i \in 1 .. NumProcs |-> ps[i].queue_length]

\* What one snapshot of the queue lengths qs leaves in the report.
Snapshotted(om, n, qs, r) ==
    LET I == 1 .. NumProcs
    IN  /\ qs \in [I -> Nat] /\ \A i \in I : qs[i] <= NoMin
        /\ DOMAIN r = DOMAIN om
        /\ r.queue_samples = n + 1
        /\ r.queue_hist = OM!Binned(om.queue_hist, qs)
        /\ r.queue_sum = om.queue_sum + SumFunctionOnSet(qs, I)
        /\ r.queue_max = Max(Range(qs) \cup {om.queue_max})
        /\ r.queue_sum_per_proc = [i \in I |-> om.queue_sum_per_proc[i] + qs[i]]
        /\ r.queue_sq_per_proc = [i \in I |-> om.queue_sq_per_proc[i] + qs[i] * qs[i]]
        /\ r.queue_min_per_proc = [i \in I |-> OM!Smaller(om.queue_min_per_proc[i], qs[i])]

LEMMA SnapshotFields ==
    ASSUME NEW om, NEW n, HistSound(om, n), NEW ps, Sampleable(ps)
    PROVE  Snapshotted(om, n, SampledLengths(ps), OM!RecordQueueSnapshot(om, ps))
<1> DEFINE I  == 1 .. NumProcs
           qs == SampledLengths(ps)
<1>1. NumProcs \in Nat /\ NoMin \in Nat /\ 1 .. NumProcs = I
  BY OnlineMetricsAssumption, TraceLoopAssumption
<1>2. OM!SampledQueues(ps) = qs
  <2>1. OM!Smaller(Len(ps), NumProcs) = NumProcs
    BY <1>1 DEF OM!Smaller, Sampleable
  <2> QED BY <2>1 DEF OM!SampledQueues, SampledLengths
<1>3. qs \in [I -> Nat] /\ (\A i \in I : qs[i] <= NoMin) /\ DOMAIN qs = I
  BY <1>1 DEF Sampleable, SampledLengths
<1>4. /\ QueueFields \subseteq DOMAIN om /\ om.queue_samples = n
      /\ om.queue_sum_per_proc \in [I -> Int] /\ om.queue_sq_per_proc \in [I -> Int]
      /\ om.queue_min_per_proc \in [I -> Nat]
  BY DEF HistSound
<1> HIDE DEF qs
<1>5. [i \in I |-> IF i \in DOMAIN qs THEN qs[i] ELSE 0] = qs
  BY <1>3
<1> DEFINE sums(q) == [i \in DOMAIN om.queue_sum_per_proc |-> om.queue_sum_per_proc[i] + q[i]]
           sqs(q)  == [i \in DOMAIN om.queue_sq_per_proc |-> om.queue_sq_per_proc[i] + q[i] * q[i]]
           mins(s, q) == [i \in DOMAIN om.queue_min_per_proc |->
                             IF i \in DOMAIN s THEN OM!Smaller(om.queue_min_per_proc[i], q[i])
                             ELSE om.queue_min_per_proc[i]]
           rec(s, q) == [om EXCEPT
                    !.queue_samples      = om.queue_samples + 1,
                    !.queue_hist         = OM!Binned(om.queue_hist, s),
                    !.queue_sum          = om.queue_sum + OM!SumFunction(s),
                    !.queue_max          = OM!Max(OM!Range(s) \cup {om.queue_max}),
                    !.queue_sum_per_proc = sums(q),
                    !.queue_sq_per_proc  = sqs(q),
                    !.queue_min_per_proc = mins(s, q)]
           r == rec(qs, qs)
<1>6. OM!RecordQueueSnapshot(om, ps) = r
  <2>1. OM!RecordQueueSnapshot(om, ps)
            = rec(OM!SampledQueues(ps),
                  [i \in 1 .. NumProcs |-> IF i \in DOMAIN OM!SampledQueues(ps)
                                           THEN OM!SampledQueues(ps)[i] ELSE 0])
    BY Zenon DEF OM!RecordQueueSnapshot
  <2> HIDE DEF rec
  <2> QED BY <1>2, <1>5, <2>1
<1>7. /\ sums(qs) = [i \in I |-> om.queue_sum_per_proc[i] + qs[i]]
      /\ mins(qs, qs) = [i \in I |-> OM!Smaller(om.queue_min_per_proc[i], qs[i])]
  BY <1>3, <1>4
<1>8. sqs(qs) = [i \in I |-> om.queue_sq_per_proc[i] + qs[i] * qs[i]]
  <2>1. DOMAIN om.queue_sq_per_proc = I
    BY <1>4
  <2> QED BY <2>1
<1> HIDE DEF sums, sqs, mins
<1>9. /\ DOMAIN r = DOMAIN om
      /\ r.queue_samples = n + 1
      /\ r.queue_hist = OM!Binned(om.queue_hist, qs)
      /\ r.queue_sum = om.queue_sum + OM!SumFunction(qs)
      /\ r.queue_max = OM!Max(OM!Range(qs) \cup {om.queue_max})
      /\ r.queue_sum_per_proc = sums(qs)
      /\ r.queue_sq_per_proc = sqs(qs)
      /\ r.queue_min_per_proc = mins(qs, qs)
  BY <1>4 DEF QueueFields
<1>10. OM!SumFunction(qs) = SumFunctionOnSet(qs, I)
  BY <1>3, SameSum
<1>11. OM!Max(OM!Range(qs) \cup {om.queue_max}) = Max(Range(qs) \cup {om.queue_max})
  BY SameMax, SameRange
<1> HIDE DEF rec, I
<1>12. r.queue_sq_per_proc = [i \in I |-> om.queue_sq_per_proc[i] + qs[i] * qs[i]]
  BY <1>8, <1>9, Zenon
<1>13. /\ r.queue_sum_per_proc = [i \in I |-> om.queue_sum_per_proc[i] + qs[i]]
       /\ r.queue_min_per_proc = [i \in I |-> OM!Smaller(om.queue_min_per_proc[i], qs[i])]
       /\ r.queue_sum = om.queue_sum + SumFunctionOnSet(qs, I)
       /\ r.queue_max = Max(Range(qs) \cup {om.queue_max})
  BY <1>7, <1>9, <1>10, <1>11, Zenon
<1>14. Snapshotted(om, n, qs, r)
  <2> HIDE DEF r
  <2> QED BY <1>3, <1>9, <1>12, <1>13, Zenon DEF Snapshotted, I
<1> HIDE DEF r
<1> QED BY <1>6, <1>14 DEF qs

\* The largest element of a finite set of naturals.
LEMMA MaxFinite ==
    ASSUME NEW S \in SUBSET Nat, IsFiniteSet(S), S # {}
    PROVE  Max(S) \in S /\ \A y \in S : y <= Max(S)
<1> DEFINE P == {T \in SUBSET S : T = {} \/ \E a \in T : \A y \in T : y <= a}
<1>1. {} \in P
  OBVIOUS
<1>2. ASSUME NEW T \in P, NEW x \in S \ T PROVE T \cup {x} \in P
  <2>1. CASE T = {}
    BY <2>1
  <2>2. CASE T # {}
    <3>1. PICK a \in T : \A y \in T : y <= a
      BY <2>2
    <3>2. CASE a <= x
      BY <3>1, <3>2
    <3>3. CASE ~(a <= x)
      BY <3>1, <3>3
    <3> QED BY <3>2, <3>3
  <2> QED BY <2>1, <2>2
<1>3. S \in P
  <2> HIDE DEF P
  <2> QED BY <1>1, <1>2, FiniteSetInduction
<1>4. PICK a \in S : \A y \in S : y <= a
  BY <1>3
<1> QED BY <1>4, MaxIs

\* A snapshot keeps the accumulators sound.
LEMMA SnapshotSound ==
    ASSUME NEW om, NEW n, HistSound(om, n), NEW ps, Sampleable(ps)
    PROVE  HistSound(OM!RecordQueueSnapshot(om, ps), n + 1)
<1> DEFINE I    == 1 .. NumProcs
           qs   == SampledLengths(ps)
           r    == OM!RecordQueueSnapshot(om, ps)
           hist == om.queue_hist
           new  == OM!Binned(hist, qs)
           D    == DOMAIN hist
           U    == D \cup Range(qs)
           min  == om.queue_min_per_proc
           max  == om.queue_max
<1>1. /\ NumProcs \in Nat \ {0} /\ IsFiniteSet(I) /\ NoMin \in Nat /\ 1 \in I
      /\ Cardinality(I) = NumProcs
  <2>1. NumProcs \in Nat \ {0} /\ NoMin \in Nat /\ 1 \in I
    BY OnlineMetricsAssumption, TraceLoopAssumption
  <2>2. IsFiniteSet(1 .. NumProcs)
        /\ Cardinality(1 .. NumProcs) = IF 1 > NumProcs THEN 0 ELSE NumProcs - 1 + 1
    BY <2>1, FS_Interval
  <2> QED BY <2>1, <2>2
<1>2. /\ qs \in [I -> Nat] /\ \A i \in I : qs[i] <= NoMin
      /\ DOMAIN r = DOMAIN om
      /\ r.queue_samples = n + 1
      /\ r.queue_hist = new
      /\ r.queue_sum = om.queue_sum + SumFunctionOnSet(qs, I)
      /\ r.queue_max = Max(Range(qs) \cup {max})
      /\ r.queue_sum_per_proc = [i \in I |-> om.queue_sum_per_proc[i] + qs[i]]
      /\ r.queue_sq_per_proc = [i \in I |-> om.queue_sq_per_proc[i] + qs[i] * qs[i]]
      /\ r.queue_min_per_proc = [i \in I |-> OM!Smaller(min[i], qs[i])]
  <2>1. Snapshotted(om, n, qs, r)
    BY SnapshotFields
  <2> HIDE DEF qs, r
  <2> QED BY <2>1 DEF Snapshotted
<1>3. /\ QueueFields \subseteq DOMAIN om
      /\ om.queue_samples = n /\ n \in Nat
      /\ IsHistogram(hist)
      /\ Weighted(hist, Ones) = n * NumProcs
      /\ om.queue_sum = Weighted(hist, Lengths)
      /\ om.queue_sum_per_proc \in [I -> Int]
      /\ SumFunctionOnSet(om.queue_sum_per_proc, I) = Weighted(hist, Lengths)
      /\ om.queue_sq_per_proc \in [I -> Int]
      /\ SumFunctionOnSet(om.queue_sq_per_proc, I) = Weighted(hist, Squares)
      /\ max \in D \cup {0} /\ \A q \in D : q <= max
      /\ min \in [I -> Nat]
      /\ D = {} => \A i \in I : min[i] = NoMin
      /\ D # {} => /\ \A i \in I : min[i] \in D
                   /\ \A q \in D : \E i \in I : min[i] <= q
  BY DEF HistSound
<1> HIDE DEF qs, new, r
<1>4. IsHistogram(new) /\ DOMAIN new = U /\ U \in SUBSET Nat
  BY <1>2, <1>3, BinnedIs DEF new
<1>5. Range(qs) = {qs[i] : i \in I}
  BY <1>2 DEF Range
<1>6. ASSUME NEW weight \in [Nat -> Int]
      PROVE  /\ Weighted(new, weight) = Weighted(hist, weight)
                    + SumFunctionOnSet([i \in I |-> weight[qs[i]]], I)
             /\ Weighted(hist, weight) \in Int
  BY <1>2, <1>3, HistogramGrows DEF new
<1>7. Weighted(new, Ones) = (n + 1) * NumProcs
  <2>1. Ones \in [Nat -> Int] /\ \A i \in I : Ones[qs[i]] = 1
    BY <1>2 DEF Ones
  <2> DEFINE f == [i \in I |-> Ones[qs[i]]]
  <2>2. \A i \in I : f[i] = 1
    BY <2>1
  <2>3. Weighted(new, Ones) = Weighted(hist, Ones) + SumFunctionOnSet(f, I)
    BY <1>6, <2>1
  <2> HIDE DEF f, I
  <2>4. SumFunctionOnSet(f, I) = Cardinality(I) * 1
    BY <1>1, <2>2, SumConstant
  <2>5. Cardinality(I) * 1 = NumProcs
    BY <1>1
  <2> QED BY <1>1, <1>3, <2>3, <2>4, <2>5
<1>8. Summable(qs, I)
  BY <1>1, <1>2 DEF Summable
<1>9. Weighted(new, Lengths) = Weighted(hist, Lengths) + SumFunctionOnSet(qs, I)
  <2>1. Lengths \in [Nat -> Int] /\ [i \in I |-> Lengths[qs[i]]] = qs
    BY <1>2 DEF Lengths
  <2> QED BY <1>6, <2>1
<1>10. SumFunctionOnSet(r.queue_sum_per_proc, I) = Weighted(new, Lengths)
  <2> DEFINE f == om.queue_sum_per_proc
             g == r.queue_sum_per_proc
  <2>1. Summable(f, I)
    BY <1>1, <1>3 DEF Summable
  <2>2. \A i \in I : g[i] = f[i] + qs[i]
    BY <1>2
  <2>3. SumFunctionOnSet(f, I) = Weighted(hist, Lengths)
    BY <1>3
  <2> HIDE DEF f, g, I
  <2>4. SumFunctionOnSet(g, I) = SumFunctionOnSet(f, I) + SumFunctionOnSet(qs, I)
    BY <1>8, <2>1, <2>2, SumPlus
  <2> QED BY <1>9, <2>3, <2>4 DEF g
<1>11. SumFunctionOnSet(r.queue_sq_per_proc, I) = Weighted(new, Squares)
  <2> DEFINE f == om.queue_sq_per_proc
             g == r.queue_sq_per_proc
             h == [i \in I |-> Squares[qs[i]]]
  <2>1. Squares \in [Nat -> Int] /\ \A i \in I : h[i] = qs[i] * qs[i] /\ h[i] \in Int
    <3>1. \A q \in Nat : Squares[q] = q * q /\ q * q \in Int
      BY DEF Squares
    <3>2. Squares \in [Nat -> Int]
      BY <3>1 DEF Squares
    <3>3. \A i \in I : qs[i] \in Nat
      BY <1>2
    <3> QED BY <3>1, <3>2, <3>3
  <2>2. Summable(f, I)
    BY <1>1, <1>3 DEF Summable
  <2>3. \A i \in I : g[i] = f[i] + qs[i] * qs[i]
    BY <1>2
  <2>4. SumFunctionOnSet(f, I) = Weighted(hist, Squares)
    BY <1>3
  <2>5. Weighted(new, Squares) = Weighted(hist, Squares) + SumFunctionOnSet(h, I)
    BY <1>6, <2>1
  <2>6. \A i \in I : g[i] = f[i] + h[i]
    BY <2>1, <2>3
  <2> HIDE DEF f, g, h, I
  <2>7. Summable(h, I)
    BY <1>1, <2>1 DEF Summable
  <2>8. SumFunctionOnSet(g, I) = SumFunctionOnSet(f, I) + SumFunctionOnSet(h, I)
    BY <2>2, <2>6, <2>7, SumPlus
  <2> QED BY <2>4, <2>5, <2>8 DEF g
<1>12. r.queue_max \in U \cup {0} /\ \A q \in U : q <= r.queue_max
  <2> DEFINE S == Range(qs) \cup {max}
  <2>1. S \in SUBSET Nat /\ S # {} /\ IsFiniteSet(Range(qs)) /\ max \in Nat
    <3>1. Range(qs) \in SUBSET U /\ IsFiniteSet(U)
      BY <1>4 DEF IsHistogram
    <3>2. Range(qs) \in SUBSET Nat /\ max \in Nat
      <4>1. D \in SUBSET Nat
        BY <1>3 DEF IsHistogram
      <4> QED BY <1>3, <1>4, <4>1
    <3> QED BY <3>1, <3>2, FS_Subset
  <2>2. IsFiniteSet(S)
    BY <2>1, FS_AddElement
  <2> HIDE DEF S
  <2>3. Max(S) \in S /\ \A q \in S : q <= Max(S)
    BY <2>1, <2>2, MaxFinite
  <2>4. \A q \in D : q <= Max(S)
    <3>1. max \in S /\ max \in Nat /\ Max(S) \in Nat /\ max <= Max(S)
      BY <2>1, <2>3 DEF S
    <3>2. \A q \in D : q \in Nat /\ q <= max
      BY <1>3 DEF IsHistogram
    <3> QED BY <3>1, <3>2
  <2> QED BY <1>2, <1>3, <2>3, <2>4 DEF S
<1>13. /\ r.queue_min_per_proc \in [I -> Nat]
       /\ \A i \in I : r.queue_min_per_proc[i] \in U
       /\ \A q \in U : \E i \in I : r.queue_min_per_proc[i] <= q
  <2> DEFINE g == r.queue_min_per_proc
  <2>1. g = [i \in I |-> IF min[i] < qs[i] THEN min[i] ELSE qs[i]]
    <3> HIDE DEF qs, I
    <3> QED BY <1>2 DEF OM!Smaller
  <2>2. g \in [I -> Nat] /\ \A i \in I : g[i] <= min[i] /\ g[i] <= qs[i] /\ g[i] \in {min[i], qs[i]}
    <3>1. min \in [I -> Nat] /\ qs \in [I -> Nat]
      BY <1>2, <1>3
    <3> HIDE DEF min, qs, I, g
    <3> QED BY <2>1, <3>1
  <2> HIDE DEF g
  <2>3. ASSUME NEW i \in I PROVE g[i] \in U
    <3>1. CASE D = {}
      <4>1. min[i] = NoMin /\ qs[i] <= NoMin
        BY <1>2, <1>3, <3>1
      <4>2. g[i] = qs[i]
        BY <1>1, <1>2, <2>1, <4>1
      <4> QED BY <1>5, <4>2
    <3>2. CASE D # {}
      BY <1>3, <1>5, <2>2, <3>2
    <3> QED BY <3>1, <3>2
  <2>4. ASSUME NEW q \in U PROVE \E i \in I : g[i] <= q
    <3>1. CASE q \in D
      <4>1. PICK i \in I : min[i] <= q
        BY <1>3, <3>1
      <4>2. g[i] <= min[i] /\ g[i] \in Nat /\ min[i] \in Nat /\ q \in Nat
        BY <1>3, <1>4, <2>2
      <4> QED BY <4>1, <4>2
    <3>2. CASE q \in Range(qs)
      <4>1. PICK i \in I : q = qs[i]
        BY <1>5, <3>2
      <4> QED BY <2>2, <4>1
    <3> QED BY <3>1, <3>2
  <2> QED BY <2>2, <2>3, <2>4 DEF g
<1>14. U # {}
  BY <1>1, <1>5
<1>15. /\ r.queue_sum_per_proc \in [I -> Int] /\ r.queue_sq_per_proc \in [I -> Int]
  <2>1. \A i \in I : qs[i] \in Int /\ om.queue_sum_per_proc[i] \in Int /\ om.queue_sq_per_proc[i] \in Int
    <3>1. /\ om.queue_sum_per_proc \in [I -> Int] /\ om.queue_sq_per_proc \in [I -> Int]
          /\ qs \in [I -> Nat]
      BY <1>2, <1>3
    <3>2. Nat \subseteq Int
      OBVIOUS
    <3> HIDE DEF I
    <3> QED BY <3>1, <3>2, Zenon
  <2>2. \A i \in I : qs[i] * qs[i] \in Int
    BY <2>1
  <2>3. \A i \in I : om.queue_sq_per_proc[i] + qs[i] * qs[i] \in Int
    BY <2>1, <2>2
  <2>4. \A i \in I : om.queue_sum_per_proc[i] + qs[i] \in Int
    BY <2>1
  <2> QED BY <1>2, <2>3, <2>4
<1>16. r.queue_sum = Weighted(new, Lengths)
  BY <1>2, <1>3, <1>9
<1> HIDE DEF I, U
<1>17. /\ QueueFields \subseteq DOMAIN r /\ r.queue_samples = n + 1 /\ n + 1 \in Nat
       /\ r.queue_hist = new
  BY <1>2, <1>3
<1> QED BY <1>4, <1>7, <1>10, <1>11, <1>12, <1>13, <1>14, <1>15, <1>16, <1>17 DEF HistSound, I, r

\* The jobs of service s that the statistics were reset upon.
CarriedOf(s) == IF Known(s) THEN carried[indexOf[s]] ELSE 0

\* The configured processes are registered, and what was carried over the reset
\* arrived before it.
CarriedInv ==
    /\ NumProcs <= Len(processes)
    /\ \A s \in Services : CarriedOf(s) <= Cardinality(Due(s, 0, CountStart - 1))

LEMMA CarriedStart == TraceInit => CarriedInv
<1> SUFFICES ASSUME TraceInit PROVE CarriedInv
  OBVIOUS
<1>1. /\ tick = 0 /\ pc = "tick" /\ records = <<>> /\ NumProcs \in Nat
      /\ indexOf = [s \in Services |-> IF s \in InitialServices THEN s + 1 ELSE NoPid]
      /\ processes = [i \in 1 .. NumProcs |-> NewProcess(i - 1)]
      /\ carried = [i \in 1 .. NumProcs |-> 0]
  BY OnlineMetricsAssumption DEF TraceInit, Init
<1>2. Len(processes) = NumProcs
  BY <1>1
<1>3. ASSUME NEW s \in Services PROVE CarriedOf(s) <= Cardinality(Due(s, 0, CountStart - 1))
  <2>1. Due(s, 0, CountStart - 1) = {}
    BY <1>1 DEF Due, OnTime
  <2>2. CarriedOf(s) = 0
    BY <1>1 DEF CarriedOf, Known, InitialServices, NoPid
  <2> QED BY <2>1, <2>2, FS_EmptySet
<1> QED BY <1>1, <1>2, <1>3 DEF CarriedInv

\* The queue of a service holds no more than the arrivals that have been due.
LEMMA QueueWithinDue ==
    ASSUME Context, ReplayInv, ArrivalInv, NEW s \in Services, Known(s)
    PROVE  LET i == indexOf[s]
           IN  /\ i \in DOMAIN processes /\ processes[i].queue_length \in Nat
               /\ carried[i] \in Int
               /\ processes[i].queue_length
                      <= Cardinality(Due(s, CountStart, Reached)) + carried[i]
<1> DEFINE i == indexOf[s]
           p == processes[i]
           c == carried[i]
           d == Due(s, CountStart, Reached)
<1>1. /\ i \in DOMAIN processes /\ processes \in Seq(ProcessRecord)
      /\ carried \in Seq(Int) /\ Len(carried) = Len(processes)
      /\ heap \in [Event -> Nat] /\ Sound(p, c, tick)
  BY DEF Context, RegistryInv, RegistryConsistent, TypeOK, AllSound, IsHeap
<1>2. p \in ProcessRecord /\ c \in Int
  BY <1>1
<1>3. /\ p.arrival_count \in Nat /\ p.completed_jobs \in Nat /\ p.jobs \in Seq(Nat)
      /\ p.arrival_count + c = p.completed_jobs + p.queue_length /\ p.queue_length = Len(p.jobs)
  BY <1>1, <1>2 DEF ProcessRecord, Sound, JobsConsistent, Balanced
<1>4. p.queue_length \in Nat
  BY <1>3
<1>5. p.arrival_count + heap[ArrivalOf(s)] = Cardinality(d) /\ heap[ArrivalOf(s)] \in Nat
  BY <1>1, ArrivalOfTyped DEF ArrivalInv, Counted
<1>6. Cardinality(d) \in Nat
  BY DueFinite
<1>7. p.queue_length <= Cardinality(d) + c
  <2>1. PICK q \in Nat, a \in Nat, b \in Nat, h \in Nat, x \in Nat :
            /\ q = p.queue_length /\ a = p.arrival_count /\ b = p.completed_jobs
            /\ h = heap[ArrivalOf(s)] /\ x = Cardinality(d)
    BY <1>3, <1>4, <1>5, <1>6
  <2>2. a + c = b + q /\ a + h = x
    BY <1>3, <1>5, <2>1
  <2> HIDE DEF p, c, d
  <2>3. q <= x + c
    BY <1>2, <2>2
  <2> QED BY <2>1, <2>3
<1> QED BY <1>1, <1>2, <1>4, <1>7 DEF c, d

\* No queue holds more than the arrivals of the trace.
LEMMA QueueWithinTrace ==
    ASSUME Context, ReplayInv, ArrivalInv, CarriedInv
    PROVE  Sampleable(processes)
<1>1. /\ processes \in Seq(ProcessRecord) /\ Len(processes) \in Nat /\ NumProcs <= Len(processes)
      /\ NumProcs \in Nat /\ tick \in Nat /\ WarmupTicks \in Nat
  BY ContextTypes, OnlineMetricsAssumption, EventLoopAssumption DEF CarriedInv
<1>2. ASSUME NEW i \in 1 .. NumProcs PROVE processes[i].queue_length \in 0 .. NoMin
  <2> DEFINE s == processes[i].id
             a == Due(s, CountStart, Reached)
             b == Due(s, 0, CountStart - 1)
             n == Len(records)
  <2>1. i \in DOMAIN processes /\ s \in Services /\ indexOf[s] = i /\ Known(s)
    BY <1>1 DEF Context, RegistryInv, RegistryConsistent, Known, NoPid
  <2>2. /\ processes[i].queue_length \in Nat /\ carried[i] \in Int
        /\ processes[i].queue_length <= Cardinality(a) + carried[i]
    BY <2>1, QueueWithinDue
  <2>3. carried[i] <= Cardinality(b)
    BY <2>1 DEF CarriedInv, CarriedOf
  <2>4. a \cap b = {}
    <3>1. CountStart \in Nat
      BY <1>1 DEF CountStart
    <3>2. \A k \in OnTime : records[k].tick \in Nat
      BY DEF OnTime, ReplayInv, WellFormed
    <3> QED BY <3>1, <3>2 DEF Due
  <2>5. /\ IsFiniteSet(a) /\ IsFiniteSet(b) /\ Cardinality(a) \in Nat /\ Cardinality(b) \in Nat
    BY DueFinite
  <2>6. n \in Nat /\ n <= MaxBatch /\ MaxBatch \in Nat /\ NoMin \in Nat /\ MaxBatch <= NoMin
    BY EventLoopAssumption, TraceLoopAssumption DEF ReplayInv, WellFormed
  <2>7. a \cup b \in SUBSET (1 .. n)
    BY DEF Due, OnTime, ReplayInv, WellFormed
  <2>8. IsFiniteSet(1 .. n) /\ Cardinality(1 .. n) = n
    <3>1. n \in Int /\ 1 \in Int
      BY <2>6
    <3> HIDE DEF n
    <3>2. IsFiniteSet(1 .. n) /\ Cardinality(1 .. n) = IF 1 > n THEN 0 ELSE n - 1 + 1
      BY <3>1, FS_Interval
    <3> QED BY <2>6, <3>2
  <2> HIDE DEF a, b, n, s
  <2>9. Cardinality(a \cup b) = Cardinality(a) + Cardinality(b)
    BY <2>4, <2>5, FS_Union, FS_EmptySet
  <2>10. Cardinality(a \cup b) <= n
    BY <2>7, <2>8, FS_Subset
  <2> QED BY <2>2, <2>3, <2>5, <2>6, <2>9, <2>10
<1> QED BY <1>1, <1>2 DEF Sampleable

LEMMA CarriedStep ==
    ASSUME Context, Context', ReplayInv, ReplayInv', CursorInv, ArrivalInv, CarriedInv,
           [TraceNext]_traceLoopVars
    PROVE  CarriedInv'
<1>1. /\ tick \in Nat /\ processes \in Seq(ProcessRecord) /\ Len(processes) \in Nat
      /\ carried \in Seq(Int) /\ Len(carried) = Len(processes) /\ NumProcs <= Len(processes)
      /\ indexOf \in [Services -> 0 .. Len(processes)] /\ NumProcs \in Nat
      /\ \A s \in Services : CarriedOf(s) <= Cardinality(Due(s, 0, CountStart - 1))
  BY ContextTypes, OnlineMetricsAssumption DEF Context, RegistryInv, TypeOK, CarriedInv
<1>2. ASSUME Len(processes') = Len(processes), UNCHANGED <<indexOf, carried, records>>,
             CountStart' = CountStart
      PROVE  CarriedInv'
  <2>1. ASSUME NEW s \in Services
        PROVE  CarriedOf(s)' = CarriedOf(s) /\ Due(s, 0, CountStart - 1)' = Due(s, 0, CountStart - 1)
    BY <1>2 DEF CarriedOf, Known, Due, OnTime
  <2> QED BY <1>1, <1>2, <2>1 DEF CarriedInv
<1>3. UNCHANGED <<tick, pc>> => CountStart' = CountStart
  BY DEF CountStart, Started
<1>4. CASE UNCHANGED <<tick, pc, indexOf, processes, carried, records>>
  BY <1>2, <1>3, <1>4
<1>5. ASSUME NEW e \in Event, HandleArrival(e), UNCHANGED records PROVE CarriedInv'
  <2> DEFINE raw == e.pid
             n   == Len(processes)
  <2>1. /\ raw \in Services /\ Register(raw) /\ carried' = Extended(carried, raw, 0)
        /\ UNCHANGED <<tick, pc>>
    BY <1>5, EventTyped DEF HandleArrival, Pop
  <2>2. Len(processes') = Len(carried')
    BY DEF Context, RegistryInv, TypeOK
  <2> HIDE DEF raw
  <2>3. /\ Known(raw) => carried' = carried /\ indexOf' = indexOf
        /\ ~Known(raw) => /\ carried' = Append(carried, 0)
                          /\ indexOf' = [indexOf EXCEPT ![raw] = n + 1]
    BY <2>1 DEF Extended, Register
  <2>4. /\ Len(carried') >= n /\ \A j \in 1 .. n : carried'[j] = carried[j]
        /\ ~Known(raw) => carried'[n + 1] = 0
    BY <1>1, <2>3
  <2>5. ASSUME NEW s \in Services PROVE CarriedOf(s)' = CarriedOf(s)
    <3>1. CASE s = raw /\ ~Known(raw)
      <4>1. indexOf'[s] = n + 1 /\ indexOf[s] = NoPid
        BY <1>1, <2>3, <3>1 DEF Known
      <4> QED BY <1>1, <2>4, <3>1, <4>1 DEF CarriedOf, Known, NoPid
    <3>2. CASE s # raw \/ Known(raw)
      <4>1. indexOf'[s] = indexOf[s]
        BY <1>1, <2>3, <3>2
      <4> QED BY <1>1, <2>4, <4>1 DEF CarriedOf, Known, NoPid
    <3> QED BY <3>1, <3>2
  <2>6. ASSUME NEW s \in Services
        PROVE  Due(s, 0, CountStart - 1)' = Due(s, 0, CountStart - 1)
    BY <1>3, <1>5, <2>1 DEF Due, OnTime
  <2> QED BY <1>1, <2>2, <2>4, <2>5, <2>6 DEF CarriedInv
<1>6. CASE BeginTraceTick /\ tick # WarmupTicks
  <2>1. UNCHANGED <<tick, indexOf, processes, carried, records>>
    BY <1>6 DEF BeginTraceTick, inputVars
  <2>2. CountStart' = CountStart
    BY <1>6, <2>1 DEF CountStart, Started
  <2> QED BY <1>2, <2>1, <2>2
<1>7. CASE BeginTraceTick /\ tick = WarmupTicks
  <2>1. /\ pc = "tick" /\ pc' = "drain" /\ UNCHANGED <<tick, indexOf, records>>
        /\ carried' = [i \in DOMAIN processes |-> processes[i].queue_length]
        /\ processes' = [i \in DOMAIN processes |-> WarmupReset(processes[i])]
    BY <1>7 DEF BeginTraceTick, inputVars
  <2>2. /\ CountStart = 0 /\ CountStart' = tick /\ Reached = tick - 1
    BY <1>1, <1>7, <2>1 DEF CountStart, Started, Reached
  <2>3. ASSUME NEW s \in Services
        PROVE  CarriedOf(s)' <= Cardinality(Due(s, 0, CountStart - 1))'
    <3> DEFINE d == Due(s, 0, tick - 1)
    <3>1. Due(s, 0, CountStart - 1)' = d /\ Due(s, CountStart, Reached) = d
      BY <2>1, <2>2 DEF Due, OnTime
    <3>2. Cardinality(d) \in Nat
      BY DueFinite
    <3>3. CASE Known(s)
      <4> DEFINE i == indexOf[s]
      <4>1. /\ i \in DOMAIN processes /\ processes[i].queue_length \in Nat
            /\ carried[i] \in Int
            /\ processes[i].queue_length <= Cardinality(Due(s, CountStart, Reached)) + carried[i]
        BY <3>3, QueueWithinDue
      <4>2. CarriedOf(s) = carried[i] /\ CarriedOf(s)' = processes[i].queue_length
        BY <2>1, <3>3, <4>1 DEF CarriedOf, Known
      <4>3. carried[i] <= 0
        <5>1. Due(s, 0, CountStart - 1) = {}
          <6>1. \A k \in OnTime : records[k].tick \in Nat
            BY DEF OnTime, ReplayInv, WellFormed
          <6> QED BY <2>2, <6>1 DEF Due
        <5>2. Cardinality(Due(s, 0, CountStart - 1)) = 0
          BY <5>1, FS_EmptySet
        <5> QED BY <1>1, <4>2, <5>2
      <4> HIDE DEF d, i
      <4> QED BY <3>1, <3>2, <4>1, <4>2, <4>3
    <3>4. CASE ~Known(s)
      <4>1. CarriedOf(s)' = 0
        BY <2>1, <3>4 DEF CarriedOf, Known
      <4> HIDE DEF d
      <4> QED BY <3>1, <3>2, <4>1
    <3> QED BY <3>3, <3>4
  <2>4. Len(processes') = Len(processes)
    BY <1>1, <2>1
  <2> QED BY <1>1, <2>3, <2>4 DEF CarriedInv
<1>8. CASE EndTick /\ UNCHANGED inputVars
  <2>1. /\ pc = "drain" /\ pc' # "drain" /\ tick' = tick + 1
        /\ UNCHANGED <<records, processes, indexOf, carried>>
    BY <1>8 DEF EndTick, inputVars
  <2>2. CountStart' = CountStart
    BY <1>1, <2>1, EventLoopAssumption DEF CountStart, Started
  <2> QED BY <1>2, <2>1, <2>2
<1>9. CASE Load
  <2>1. /\ UNCHANGED <<tick, pc, carried, processes, indexOf>>
        /\ tick = 0 /\ pc = "tick" /\ records = <<>>
    BY <1>9 DEF Load, vars, loopVars, history, CursorInv, ReplayInv
  <2>2. CountStart = 0 /\ CountStart' = 0
    BY <2>1, EventLoopAssumption DEF CountStart, Started
  <2>3. ASSUME NEW s \in Services
        PROVE  Due(s, 0, CountStart - 1) = {} /\ Due(s, 0, CountStart - 1)' = {}
    <3>1. \A k \in DOMAIN records' : records'[k].tick \in Nat
      BY DEF ReplayInv, WellFormed
    <3> QED BY <2>1, <2>2, <3>1 DEF Due, OnTime
  <2>4. \A s \in Services : CarriedOf(s)' = CarriedOf(s)
    BY <2>1 DEF CarriedOf, Known
  <2> QED BY <1>1, <2>1, <2>3, <2>4 DEF CarriedInv
<1>10. ASSUME NEW e \in Event, DecideInMode(e) PROVE CarriedInv'
  BY <1>4, <1>10, TraceLoopAssumption DEF DecideInMode, Schedule, history, inputVars
<1>11. ASSUME NEW e \in Event, ServeAndRecord(e) PROVE CarriedInv'
  <2>1. /\ UNCHANGED <<tick, pc, indexOf, carried, records>>
        /\ \E f : processes' = [processes EXCEPT ![indexOf[e.pid]] = f]
    BY <1>11 DEF ServeAndRecord, HandleService, inputVars
  <2>2. Len(processes') = Len(processes)
    BY <1>1, <2>1
  <2> QED BY <1>2, <1>3, <2>1, <2>2
<1>12. ASSUME NEW e \in Event, MeasureAndRecord(e) PROVE CarriedInv'
  <2>1. /\ UNCHANGED <<tick, pc, indexOf, carried, records>>
        /\ processes' = [i \in DOMAIN processes |->
                            IF i = last THEN processes[i] ELSE TickIdle(processes[i])]
    BY <1>12 DEF MeasureAndRecord, HandleMetrics, history, inputVars
  <2>2. Len(processes') = Len(processes)
    BY <1>1, <2>1
  <2> QED BY <1>2, <1>3, <2>1, <2>2
<1>13. CASE OtherTraceStep /\ ~EndTick /\ UNCHANGED <<inputVars, cursor, reportVars>>
  <2>1. CASE \E e \in Event : IgnoreLockEvent(e) \/ IgnoreService(e)
    BY <1>4, <1>13, <2>1 DEF IgnoreLockEvent, IgnoreService, inputVars, history
  <2> QED BY <1>5, <1>13, <2>1 DEF OtherTraceStep, inputVars
<1>14. CASE Refuse \/ Stopped \/ UNCHANGED traceLoopVars
  BY <1>4, <1>14 DEF Refuse, Stopped, traceLoopVars, vars, loopVars, history, inputVars
<1> QED BY <1>6, <1>7, <1>8, <1>9, <1>10, <1>11, <1>12, <1>13, <1>14 DEF TraceNext, OtherTraceStep

\* The snapshot ticks up to the last tick that has been measured.
SnapshotTicks(b) == {t \in WarmupTicks .. b : t % SnapshotEvery = 0}

LastMeasured == IF Measured THEN tick ELSE tick - 1

QueueInv == HistSound(report, Cardinality(SnapshotTicks(LastMeasured)))

LEMMA SnapshotTicksGrow ==
    ASSUME NEW t \in Nat
    PROVE  /\ IsFiniteSet(SnapshotTicks(t - 1)) /\ Cardinality(SnapshotTicks(t - 1)) \in Nat
           /\ t >= WarmupTicks /\ t % SnapshotEvery = 0
                 => Cardinality(SnapshotTicks(t)) = Cardinality(SnapshotTicks(t - 1)) + 1
           /\ ~(t >= WarmupTicks /\ t % SnapshotEvery = 0)
                 => SnapshotTicks(t) = SnapshotTicks(t - 1)
<1>1. WarmupTicks \in Nat /\ SnapshotEvery \in Nat \ {0}
  BY EventLoopAssumption, TraceLoopAssumption
<1> DEFINE S == SnapshotTicks(t - 1)
<1>2. IsFiniteSet(S) /\ Cardinality(S) \in Nat /\ t \notin S
  <2>1. IsFiniteSet(WarmupTicks .. t - 1) /\ S \in SUBSET (WarmupTicks .. t - 1)
    BY <1>1, FS_Interval DEF SnapshotTicks
  <2>2. t \notin WarmupTicks .. t - 1
    BY <1>1
  <2> HIDE DEF S
  <2> QED BY <2>1, <2>2, FS_Subset, FS_CardinalityType
<1>3. SnapshotTicks(t) = IF t >= WarmupTicks /\ t % SnapshotEvery = 0 THEN S \cup {t} ELSE S
  <2>1. \A u : u \in WarmupTicks .. t <=> u \in WarmupTicks .. t - 1 \/ (u = t /\ t >= WarmupTicks)
    BY <1>1
  <2> QED BY <2>1 DEF SnapshotTicks
<1> HIDE DEF S
<1>4. Cardinality(S \cup {t}) = Cardinality(S) + 1
  BY <1>2, FS_AddElement
<1> QED BY <1>2, <1>3, <1>4 DEF S

LEMMA HistAgree ==
    ASSUME NEW om, NEW r, NEW n, HistSound(om, n), Agree(r, om, QueueFields)
    PROVE  HistSound(r, n)
<1>1. /\ QueueFields \subseteq DOMAIN r
      /\ r.queue_samples = om.queue_samples /\ r.queue_hist = om.queue_hist
      /\ r.queue_sum = om.queue_sum /\ r.queue_max = om.queue_max
      /\ r.queue_sum_per_proc = om.queue_sum_per_proc
      /\ r.queue_sq_per_proc = om.queue_sq_per_proc
      /\ r.queue_min_per_proc = om.queue_min_per_proc
  BY DEF Agree, QueueFields
<1> QED BY <1>1 DEF HistSound

\* The Metrics event samples the queues exactly at a snapshot tick.
LEMMA RecordedQueues ==
    ASSUME NEW om, DecisionFields \subseteq DOMAIN om, QueueFields \subseteq DOMAIN om, NEW v, NEW d
    PROVE  Agree(Recorded(om, v, d),
                 IF tick % SnapshotEvery = 0 THEN OM!RecordQueueSnapshot(om, processes) ELSE om,
                 QueueFields)
<1> DEFINE snapshot == IF tick % SnapshotEvery = 0
                       THEN OM!RecordQueueSnapshot(om, processes) ELSE om
           decided  == OM!RecordDecision(snapshot, last, mode)
           drifted  == OM!RecordDrift(decided, d)
<1>1. DOMAIN snapshot = DOMAIN om
  BY FieldsKept
<1>2. Recorded(om, v, d) = OM!RecordLyapunovV(drifted, v)
  BY DEF Recorded
<1> HIDE DEF snapshot
<1>3. /\ DOMAIN decided = DOMAIN om
      /\ \A f \in DOMAIN om \ DecisionFields : decided[f] = snapshot[f]
  BY <1>1, DecisionKeeps
<1> HIDE DEF decided
<1>4. DOMAIN drifted = DOMAIN om /\ \A f \in DOMAIN om \ DriftFields : drifted[f] = decided[f]
  BY <1>3, FieldsKept
<1> HIDE DEF drifted
<1>5. /\ DOMAIN Recorded(om, v, d) = DOMAIN om
      /\ \A f \in DOMAIN om \ VFields : Recorded(om, v, d)[f] = drifted[f]
  BY <1>2, <1>4, FieldsKept
<1>6. QueueFields \cap (DecisionFields \cup DriftFields \cup VFields) = {}
  BY DEF DecisionFields, StreakFields, ChoiceFields, QueueFields, DriftFields, VFields
<1> QED BY <1>3, <1>4, <1>5, <1>6 DEF Agree, snapshot

LEMMA QueueStart == TraceInit => QueueInv
<1> SUFFICES ASSUME TraceInit PROVE QueueInv
  OBVIOUS
<1> DEFINE I == 1 .. NumProcs
           om == OM!OfflineStart
<1>1. /\ report = om /\ tick = 0 /\ pc = "tick" /\ NumProcs \in Nat /\ NoMin \in Nat
      /\ WarmupTicks \in Nat /\ IsFiniteSet(I)
  BY OnlineMetricsAssumption, TraceLoopAssumption, EventLoopAssumption, FS_Interval
     DEF TraceInit, Init
<1>2. Cardinality(SnapshotTicks(LastMeasured)) = 0
  <2>1. SnapshotTicks(LastMeasured) = {}
    BY <1>1 DEF SnapshotTicks, LastMeasured, Measured
  <2> QED BY <2>1, FS_EmptySet
<1>3. /\ QueueFields \subseteq DOMAIN om /\ om.queue_samples = 0 /\ om.queue_hist = <<>>
      /\ om.queue_sum = 0 /\ om.queue_max = 0
      /\ om.queue_sum_per_proc = [i \in I |-> 0]
      /\ om.queue_sq_per_proc = [i \in I |-> 0]
      /\ om.queue_min_per_proc = [i \in I |-> NoMin]
  BY DEF OM!OfflineStart, QueueFields, OM!PerProc
<1>4. DOMAIN <<>> = {}
  OBVIOUS
<1>5. IsHistogram(<<>>)
  BY <1>4, FS_EmptySet DEF IsHistogram
<1>6. \A weight : Weighted(<<>>, weight) = 0
  BY <1>4, SumEmpty DEF Weighted
<1>7. SumFunctionOnSet([i \in I |-> 0], I) = 0
  <2> DEFINE f == [i \in I |-> 0]
  <2>1. \A i \in I : f[i] = 0
    OBVIOUS
  <2> HIDE DEF f, I
  <2>2. SumFunctionOnSet(f, I) = 0
    BY <1>1, <2>1, SumZero
  <2> QED BY <2>2 DEF f
<1>8. 0 * NumProcs = 0
  BY <1>1
<1> HIDE DEF om
<1> QED BY <1>1, <1>2, <1>3, <1>4, <1>5, <1>6, <1>7, <1>8 DEF QueueInv, HistSound

LEMMA QueueStep ==
    ASSUME LoopInv, ReplayInv, ArrivalInv, CarriedInv, StreakInv, QueueInv,
           [TraceNext]_traceLoopVars
    PROVE  QueueInv'
<1>1. /\ Context /\ DrainInv /\ tick \in Nat /\ last \in Nat
      /\ QueueFields \subseteq DOMAIN report /\ DecisionFields \subseteq DOMAIN report
      /\ Sampleable(processes)
  BY ContextTypes, QueueWithinTrace DEF LoopInv, StreakInv, StreaksSound, QueueInv, HistSound
<1>2. ASSUME Agree(report', report, QueueFields), LastMeasured' = LastMeasured PROVE QueueInv'
  BY <1>2, HistAgree DEF QueueInv, SnapshotTicks
<1>3. report' = report => Agree(report', report, QueueFields)
  BY <1>1 DEF Agree
<1>4. CASE UNCHANGED <<report, tick, pc, heap>>
  BY <1>2, <1>3, <1>4 DEF LastMeasured, Measured
<1>5. ASSUME MetricsPending, MetricsPending', tick' = tick PROVE LastMeasured' = LastMeasured
  BY <1>5, EventTyped DEF LastMeasured, Measured, MetricsPending, IsEmpty
<1>6. CASE BeginTraceTick
  <2>1. BeginTick
    BY <1>1, <1>6, BeginTraceTickBegins DEF Context, RegistryInv
  <2>2. MetricsPending' /\ pc = "tick" /\ tick' = tick /\ report' = report
    BY <1>1, <1>6, <2>1, BeginTickDrain DEF BeginTraceTick, reportVars
  <2>3. ~Measured /\ ~Measured'
    BY <2>2, EventTyped DEF Measured, MetricsPending, IsEmpty
  <2>4. LastMeasured' = LastMeasured
    BY <2>2, <2>3 DEF LastMeasured
  <2> QED BY <1>2, <1>3, <2>2, <2>4
<1>7. ASSUME NEW e \in Event, DecideInMode(e) PROVE QueueInv'
  <2>1. HandleSchedule(e) /\ tick' = tick /\ report' = report
    BY <1>7 DEF DecideInMode, HandleSchedule, Schedule
  <2> QED BY <1>1, <1>2, <1>3, <1>5, <2>1, HandlerDrain
<1>8. ASSUME NEW e \in Event, ServeAndRecord(e) PROVE QueueInv'
  <2>1. HandleService(e) /\ tick' = tick
    BY <1>8 DEF ServeAndRecord, HandleService
  <2>2. ASSUME NEW w, report' = OM!RecordWaitingTime(report, w)
        PROVE  Agree(report', report, QueueFields)
    <3>1. QueueFields \cap WaitFields = {}
      BY DEF QueueFields, WaitFields
    <3> QED BY <1>1, <2>2, <3>1, FieldsKept DEF Agree
  <2>3. Agree(report', report, QueueFields)
    BY <1>3, <1>8, <2>2 DEF ServeAndRecord
  <2> QED BY <1>1, <1>2, <1>5, <2>1, <2>3, HandlerDrain
<1>9. ASSUME NEW e \in Event, MeasureAndRecord(e) PROVE QueueInv'
  <2> DEFINE n == Cardinality(SnapshotTicks(tick - 1))
  <2>1. /\ HandleMetrics(e) /\ tick' = tick
        /\ Recording => \E v, d : report' = Recorded(report, v, d)
        /\ ~Recording => report' = report
    BY <1>9 DEF MeasureAndRecord, HandleMetrics
  <2>2. MetricsPending /\ Measured'
    BY <1>1, <2>1, MetricsDrain
  <2>3. ~Measured
    BY <2>2, EventTyped DEF Measured, MetricsPending, IsEmpty
  <2>4. LastMeasured = tick - 1 /\ LastMeasured' = tick
    BY <2>1, <2>2, <2>3 DEF LastMeasured
  <2>5. HistSound(report, n)
    BY <2>4 DEF QueueInv
  <2>6. SUFFICES HistSound(report', Cardinality(SnapshotTicks(tick)))
    BY <2>4 DEF QueueInv, SnapshotTicks
  <2>7. WarmupTicks \in Nat /\ (Recording <=> tick >= WarmupTicks)
    BY EventLoopAssumption DEF Recording
  <2>8. CASE ~Recording
    <3>1. SnapshotTicks(tick) = SnapshotTicks(tick - 1)
      BY <1>1, <2>7, <2>8, SnapshotTicksGrow
    <3> QED BY <2>1, <2>5, <2>8, <3>1
  <2>9. CASE Recording
    <3>1. PICK v, d : report' = Recorded(report, v, d)
      BY <2>1, <2>9
    <3> DEFINE snapshot == IF tick % SnapshotEvery = 0
                           THEN OM!RecordQueueSnapshot(report, processes) ELSE report
    <3>2. Agree(report', snapshot, QueueFields)
      BY <1>1, <3>1, RecordedQueues
    <3>3. HistSound(snapshot, Cardinality(SnapshotTicks(tick)))
      <4>1. CASE tick % SnapshotEvery = 0
        <5>1. Cardinality(SnapshotTicks(tick)) = n + 1
          BY <1>1, <2>7, <2>9, <4>1, SnapshotTicksGrow
        <5>2. HistSound(OM!RecordQueueSnapshot(report, processes), n + 1)
          BY <1>1, <2>5, SnapshotSound
        <5> QED BY <4>1, <5>1, <5>2
      <4>2. CASE tick % SnapshotEvery # 0
        <5>1. SnapshotTicks(tick) = SnapshotTicks(tick - 1)
          BY <1>1, <4>2, SnapshotTicksGrow
        <5> QED BY <2>5, <4>2, <5>1
      <4> QED BY <4>1, <4>2
    <3> HIDE DEF snapshot
    <3> QED BY <3>2, <3>3, HistAgree
  <2> QED BY <2>8, <2>9
<1>10. CASE EndTick /\ UNCHANGED reportVars
  <2>1. Measured /\ pc' # "drain" /\ tick' = tick + 1 /\ report' = report
    BY <1>10, EndTickDrain DEF EndTick, reportVars
  <2>2. ~Measured' /\ tick' - 1 = tick
    BY <1>1, <2>1 DEF Measured
  <2>3. LastMeasured' = LastMeasured
    BY <2>1, <2>2 DEF LastMeasured
  <2> QED BY <1>2, <1>3, <2>1, <2>3
<1>11. ASSUME NEW e \in Event, HandleArrival(e) \/ IgnoreLockEvent(e) \/ IgnoreService(e),
              UNCHANGED reportVars
       PROVE  QueueInv'
  <2>1. tick' = tick /\ report' = report
    BY <1>11 DEF HandleArrival, IgnoreLockEvent, IgnoreService, reportVars
  <2> QED BY <1>1, <1>2, <1>3, <1>5, <1>11, <2>1, HandlerDrain
<1>12. CASE Refuse \/ Load \/ Stopped \/ UNCHANGED traceLoopVars
  BY <1>4, <1>12 DEF Refuse, Load, Stopped, traceLoopVars, reportVars, vars, loopVars
<1> QED BY <1>6, <1>7, <1>8, <1>9, <1>10, <1>11, <1>12 DEF TraceNext, OtherTraceStep

\* What the report says of its histogram.
LEMMA HistogramReport ==
    ASSUME NEW om, NEW n, HistSound(om, n)
    PROVE  LET hist == om.queue_hist
               total == OM!TotalSamples(om)
           IN  /\ total \in Nat
               /\ SumFunctionOnSet(hist, DOMAIN hist) = total
               /\ DOMAIN hist = {} => total = 0
               /\ Weighted(hist, Lengths)
                      = SumFunction([q \in DOMAIN hist |-> q * hist[q]])
               /\ Weighted(hist, Squares)
                      = SumFunction([q \in DOMAIN hist |-> q * q * hist[q]])
<1> DEFINE hist == om.queue_hist
           D == DOMAIN hist
           f == [q \in D |-> Ones[q] * hist[q]]
<1>1. /\ om.queue_samples = n /\ n \in Nat /\ NumProcs \in Nat
      /\ IsHistogram(hist) /\ Weighted(hist, Ones) = n * NumProcs
  BY OnlineMetricsAssumption DEF HistSound
<1>2. D \in SUBSET Nat /\ IsFiniteSet(D) /\ \A q \in D : hist[q] \in Nat
  BY <1>1 DEF IsHistogram
<1>3. OM!TotalSamples(om) = Weighted(hist, Ones) /\ OM!TotalSamples(om) \in Nat
  BY <1>1 DEF OM!TotalSamples
<1>4. Weighted(hist, Ones) = SumFunctionOnSet(hist, D)
  <2>1. Summable(hist, D)
    BY <1>2 DEF Summable
  <2>2. \A q \in D : f[q] = hist[q]
    <3>1. \A q \in D : Ones[q] = 1 /\ hist[q] \in Int
      BY <1>2 DEF Ones
    <3> QED BY <3>1
  <2> HIDE DEF f, D
  <2>3. SumFunctionOnSet(f, D) = SumFunctionOnSet(hist, D)
    BY <2>1, <2>2, SumSame
  <2> QED BY <2>3 DEF f, D, Weighted
<1>5. D = {} => SumFunctionOnSet(hist, D) = 0
  BY SumEmpty
<1>6. Weighted(hist, Lengths) = SumFunction([q \in D |-> q * hist[q]])
  <2>1. \A q \in D : Lengths[q] = q
    BY <1>2 DEF Lengths
  <2>2. [q \in D |-> Lengths[q] * hist[q]] = [q \in D |-> q * hist[q]]
    <3> HIDE DEF D
    <3> QED BY <2>1, Zenon
  <2> QED BY <2>2, Zenon DEF Weighted, SumFunction
<1>7. Weighted(hist, Squares) = SumFunction([q \in D |-> q * q * hist[q]])
  <2>1. \A q \in D : Squares[q] = q * q
    BY <1>2 DEF Squares
  <2>2. [q \in D |-> Squares[q] * hist[q]] = [q \in D |-> q * q * hist[q]]
    <3> HIDE DEF D
    <3> QED BY <2>1, Zenon
  <2> QED BY <2>2, Zenon DEF Weighted, SumFunction
<1> HIDE DEF D
<1> QED BY <1>3, <1>4, <1>5, <1>6, <1>7, Zenon DEF D

\* The extremes of the report are those of its samples.
LEMMA QueueExtremes ==
    ASSUME NEW om, NEW n, HistSound(om, n), OM!TotalSamples(om) > 0
    PROVE  LET D == DOMAIN om.queue_hist
           IN  /\ D # {} /\ D \in SUBSET Nat
               /\ OM!QueueMin(om) = Min(D) /\ Min(D) \in D /\ \A q \in D : Min(D) <= q
               /\ om.queue_max = Max(D \cup {0})
<1> DEFINE D == DOMAIN om.queue_hist
           I == 1 .. NumProcs
           min == om.queue_min_per_proc
           R == Range(min)
<1>1. D # {} /\ D \in SUBSET Nat
  BY HistogramReport DEF HistSound, IsHistogram
<1>2. /\ om.queue_max \in D \cup {0} /\ \A q \in D : q <= om.queue_max
      /\ min \in [I -> Nat] /\ \A i \in I : min[i] \in D
      /\ \A q \in D : \E i \in I : min[i] <= q
      /\ NumProcs \in Nat \ {0}
  BY <1>1, OnlineMetricsAssumption DEF HistSound
<1>3. OM!QueueMin(om) = Min(R)
  BY SameMin, SameRange DEF OM!QueueMin
<1>4. R \in SUBSET D /\ R # {} /\ \A q \in D : \E r \in R : r <= q
  <2>1. R = {min[i] : i \in I}
    BY <1>2 DEF Range
  <2>2. 1 \in I
    BY <1>2
  <2> HIDE DEF R, I
  <2> QED BY <1>2, <2>1, <2>2
<1> HIDE DEF D, R
<1>5. Min(D) \in D /\ \A q \in D : Min(D) <= q
  BY <1>1, MinOf
<1>6. Min(R) \in R /\ \A q \in R : Min(R) <= q
  BY <1>1, <1>4, MinOf
<1>7. Min(R) = Min(D)
  <2>1. PICK r \in R : r <= Min(D)
    BY <1>4, <1>5
  <2>2. Min(R) <= r /\ Min(D) <= Min(R) /\ Min(R) \in Nat /\ Min(D) \in Nat /\ r \in Nat
    BY <1>1, <1>4, <1>5, <1>6, <2>1
  <2> QED BY <2>1, <2>2
<1>8. om.queue_max = Max(D \cup {0})
  <2> DEFINE S == D \cup {0}
             a == om.queue_max
  <2>1. a \in S /\ a \in Nat
    <3>1. a \in S
      BY <1>2, Zenon DEF D
    <3>2. D \cup {0} \in SUBSET Nat
      BY <1>1
    <3> HIDE DEF a
    <3> QED BY <3>1, <3>2
  <2>2. S \in SUBSET Int
    BY <1>1 DEF D
  <2>3. \A y \in S : y <= a
    <3> HIDE DEF a
    <3>1. \A q \in D : q <= a
      BY <1>2 DEF D, a
    <3> QED BY <2>1, <3>1
  <2> HIDE DEF S, a
  <2> QED BY <2>1, <2>2, <2>3, MaxIs DEF S, a
<1> QED BY <1>1, <1>3, <1>5, <1>7, <1>8 DEF D

\* The lengths at which a share of the samples has been counted.
Counting(om, p) ==
    {q \in 0 .. om.queue_max : OM!SamplesUpTo(om.queue_hist, q) >= (p * OM!TotalSamples(om)) \div 100}

LEMMA CountingIs ==
    ASSUME NEW om, NEW n, HistSound(om, n), NEW p \in Nat, p < 100
    PROVE  /\ OM!HistogramPercentile(om, p) = Min(Counting(om, p))
           /\ Counting(om, p) \in SUBSET Nat /\ Counting(om, p) # {}
           /\ om.queue_max \in Nat
           /\ \A q : OM!SamplesUpTo(om.queue_hist, q) \in Nat
<1> DEFINE hist == om.queue_hist
           D == DOMAIN hist
           m == om.queue_max
           total == OM!TotalSamples(om)
<1>1. OM!HistogramPercentile(om, p) = Min(Counting(om, p))
  BY SameMin DEF OM!HistogramPercentile, Counting
<1>2. /\ D \in SUBSET Nat /\ IsFiniteSet(D) /\ \A q \in D : hist[q] \in Nat
      /\ m \in Nat /\ \A q \in D : q <= m
  BY DEF HistSound, IsHistogram
<1>3. total \in Nat /\ SumFunctionOnSet(hist, D) = total
  BY HistogramReport
<1>4. \A q : OM!SamplesUpTo(hist, q) = SumFunctionOnSet(hist, {r \in D : r <= q})
  BY SameSum DEF OM!SamplesUpTo
<1>5. ASSUME NEW q PROVE OM!SamplesUpTo(hist, q) \in Nat
  <2> DEFINE S == {r \in D : r <= q}
  <2>1. S \in SUBSET D
    OBVIOUS
  <2> HIDE DEF S, D
  <2>2. IsFiniteSet(S) /\ \A r \in S : hist[r] \in Nat
    BY <1>2, <2>1, FS_Subset
  <2>3. SumFunctionOnSet(hist, S) \in Nat
    BY <2>2, SumNatural
  <2> QED BY <1>4, <2>3 DEF S, D
<1>6. OM!SamplesUpTo(hist, m) = total
  <2>1. {r \in D : r <= m} = D
    BY <1>2
  <2> QED BY <1>3, <1>4, <2>1
<1>7. (p * total) \div 100 <= total
  <2>1. CASE total = 0
    <3>1. p * total = 0
      BY <2>1
    <3> QED BY <2>1, <3>1
  <2>2. CASE total > 0
    <3> HIDE DEF total
    <3>1. (p * total) \div 100 \in Nat /\ (p * total) \div 100 < total
      BY <1>3, <2>2, ShareGrows
    <3> QED BY <1>3, <3>1
  <2> QED BY <1>3, <2>1, <2>2
<1>8. m \in 0 .. m
  BY <1>2
<1>9. m \in Counting(om, p)
  <2> HIDE DEF total, m
  <2>1. OM!SamplesUpTo(hist, m) >= (p * total) \div 100
    <3> DEFINE t == (p * total) \div 100
    <3>1. t \in Int
      <4>1. p * total \in Nat
        BY <1>3
      <4> DEFINE x == p * total
      <4> HIDE DEF x
      <4>2. x \div 100 \in Int
        BY <4>1 DEF x
      <4> QED BY <4>2 DEF x
    <3> HIDE DEF t
    <3>2. total >= t
      BY <1>3, <1>7, <3>1 DEF t
    <3> QED BY <1>6, <3>2 DEF t
  <2> QED BY <1>8, <2>1, Zenon DEF Counting, m, total
<1>10. Counting(om, p) \in SUBSET Nat
  BY <1>2 DEF Counting
<1> QED BY <1>1, <1>2, <1>5, <1>9, <1>10

\* From two samples on the percentiles of the queues lie between their extremes.
LEMMA QueuePercentiles ==
    ASSUME NEW om, NEW n, HistSound(om, n), OM!TotalSamples(om) > 1
    PROVE  /\ OM!QueueMin(om) <= OM!HistogramPercentile(om, 50)
           /\ OM!HistogramPercentile(om, 50) <= OM!HistogramPercentile(om, 95)
           /\ OM!HistogramPercentile(om, 99) <= om.queue_max
<1> DEFINE hist == om.queue_hist
           D == DOMAIN hist
           total == OM!TotalSamples(om)
           a == OM!HistogramPercentile(om, 50)
           b == OM!HistogramPercentile(om, 95)
           c == OM!HistogramPercentile(om, 99)
           up(q) == OM!SamplesUpTo(hist, q)
<1>1. total \in Nat /\ total > 1
  BY HistogramReport
<1>2. ASSUME NEW p \in {50, 95, 99}
      PROVE  LET x == OM!HistogramPercentile(om, p)
             IN  /\ x \in Counting(om, p) /\ x \in Nat
                 /\ \A y \in Counting(om, p) : x <= y
  <2>1. p \in Nat /\ p < 100
    OBVIOUS
  <2>2. /\ OM!HistogramPercentile(om, p) = Min(Counting(om, p))
        /\ Counting(om, p) \in SUBSET Nat /\ Counting(om, p) # {}
    BY <2>1, CountingIs
  <2>3. /\ Min(Counting(om, p)) \in Counting(om, p)
        /\ \A y \in Counting(om, p) : Min(Counting(om, p)) <= y
    BY <2>2, MinOf
  <2> QED BY <2>2, <2>3
<1>3. om.queue_max \in Nat /\ \A q : up(q) \in Nat
  <2>1. 50 \in Nat /\ 50 < 100
    OBVIOUS
  <2> QED BY <2>1, CountingIs
<1>4. c <= om.queue_max
  BY <1>2 DEF Counting
<1>5. a <= b
  <2>1. b \in 0 .. om.queue_max /\ up(b) >= (95 * total) \div 100
    BY <1>2 DEF Counting
  <2> HIDE DEF total, b, up
  <2>2. /\ (50 * total) \div 100 \in Nat /\ (95 * total) \div 100 \in Nat
        /\ (50 * total) \div 100 <= (95 * total) \div 100
    <3>1. 50 \in Nat /\ 95 \in Nat /\ 50 <= 95 /\ 95 < 100
      OBVIOUS
    <3> QED BY <1>1, <3>1, ShareGrows
  <2>3. up(b) >= (50 * total) \div 100
    BY <1>3, <2>1, <2>2 DEF up
  <2>4. b \in Counting(om, 50)
    BY <2>1, <2>3 DEF Counting, total, up
  <2> QED BY <1>2, <2>4
<1>6. OM!QueueMin(om) <= a
  <2>1. /\ D \in SUBSET Nat /\ OM!QueueMin(om) \in D
        /\ \A q \in D : OM!QueueMin(om) <= q
    <3>1. total > 0
      BY <1>1
    <3> QED BY <3>1, QueueExtremes
  <2>2. a \in Nat /\ up(a) >= (50 * total) \div 100
    BY <1>2 DEF Counting
  <2>3. SUFFICES ASSUME a < OM!QueueMin(om) PROVE FALSE
    BY <2>1, <2>2
  <2>4. {r \in D : r <= a} = {}
    <3> DEFINE least == OM!QueueMin(om)
    <3> HIDE DEF a, D, least
    <3>1. least \in Nat /\ a \in Nat /\ a < least /\ \A r \in D : r \in Nat /\ least <= r
      BY <2>1, <2>2, <2>3 DEF least
    <3> QED BY <3>1
  <2>5. up(a) = 0
    <3>1. up(a) = SumFunctionOnSet(hist, {r \in D : r <= a})
      BY SameSum DEF OM!SamplesUpTo
    <3> HIDE DEF a, D, up
    <3> QED BY <2>4, <3>1, SumEmpty
  <2> HIDE DEF total
  <2>6. (50 * total) \div 100 >= 1
    BY <1>1
  <2>7. (50 * total) \div 100 \in Int
    BY <1>1
  <2> QED BY <2>2, <2>5, <2>6, <2>7
<1> QED BY <1>4, <1>5, <1>6

(***************************************************************************)
(* However long the run, the histogram, the sums and the extremes of the   *)
(* queue snapshots describe the same samples, one for each configured      *)
(* process and snapshot tick, and the percentiles lie between the          *)
(* extremes; the least length is exact because no queue outgrows the       *)
(* trace, and so none the value each minimum starts from                   *)
(* (recordQueueSnapshot, histogramPercentile).                             *)
(***************************************************************************)
THEOREM QueueReportHolds == TraceSpec => []QueueReportConsistent
<1>1. TraceInit => CarriedInv /\ StreakInv /\ QueueInv
  BY CarriedStart, StreakStart, QueueStart
<1>2. (/\ LoopInv /\ LoopInv' /\ ReplayInv /\ ReplayInv' /\ CursorInv /\ ArrivalInv /\ CarriedInv
       /\ StreakInv /\ QueueInv /\ RegistryInv /\ [TraceNext]_traceLoopVars)
          => CarriedInv' /\ StreakInv' /\ QueueInv'
  <2> SUFFICES ASSUME LoopInv, LoopInv', ReplayInv, ReplayInv', CursorInv, ArrivalInv, CarriedInv,
                      StreakInv, QueueInv, RegistryInv, [TraceNext]_traceLoopVars
               PROVE  CarriedInv' /\ StreakInv' /\ QueueInv'
    OBVIOUS
  <2>1. CarriedInv'
    BY CarriedStep DEF LoopInv
  <2>2. StreakInv'
    BY StreakStep DEF RegistryInv
  <2>3. QueueInv'
    BY QueueStep
  <2> QED BY <2>1, <2>2, <2>3
<1>3. LoopInv /\ QueueInv => QueueReportConsistent
  <2> SUFFICES ASSUME LoopInv, QueueInv PROVE QueueReportConsistent
    OBVIOUS
  <2> DEFINE hist == report.queue_hist
             D == DOMAIN hist
             n == Cardinality(SnapshotTicks(LastMeasured))
             I == 1 .. NumProcs
             above == {q \in D : hist[q] > 0}
             ticks == {t \in WarmupTicks .. tick : t % SnapshotEvery = 0}
             sums == report.queue_sum_per_proc
             sqs == report.queue_sq_per_proc
  <2>1. HistSound(report, n)
    BY DEF QueueInv
  <2>2. /\ report.queue_samples = n /\ IsHistogram(hist)
        /\ report.queue_sum = Weighted(hist, Lengths)
        /\ sums \in [I -> Int] /\ SumFunctionOnSet(sums, I) = Weighted(hist, Lengths)
        /\ sqs \in [I -> Int] /\ SumFunctionOnSet(sqs, I) = Weighted(hist, Squares)
    BY <2>1 DEF HistSound
  <2>3. /\ SumFunctionOnSet(hist, D) = OM!TotalSamples(report)
        /\ Weighted(hist, Lengths) = SumFunction([q \in D |-> q * hist[q]])
        /\ Weighted(hist, Squares) = SumFunction([q \in D |-> q * q * hist[q]])
    BY <2>1, HistogramReport
  <2>4. SumFunction(sums) = Weighted(hist, Lengths) /\ SumFunction(sqs) = Weighted(hist, Squares)
    <3>1. DOMAIN sums = I /\ DOMAIN sqs = I
      BY <2>2
    <3> QED BY <2>2, <3>1 DEF SumFunction
  <2>5. BetweenTicks => report.queue_samples = Cardinality(ticks \ {tick})
    <3> SUFFICES ASSUME BetweenTicks PROVE n = Cardinality(ticks \ {tick})
      BY <2>2
    <3>1. LastMeasured = tick - 1
      BY DEF BetweenTicks, LastMeasured, Measured
    <3>2. tick \in Nat /\ WarmupTicks \in Nat
      BY ContextTypes, EventLoopAssumption DEF LoopInv
    <3>3. SnapshotTicks(tick - 1) = ticks \ {tick}
      BY <3>2 DEF SnapshotTicks
    <3> QED BY <3>1, <3>3
  <2>6. above = D
    BY <2>2 DEF IsHistogram
  <2>7. ASSUME OM!TotalSamples(report) > 0
        PROVE  OM!QueueMin(report) = Min(above) /\ report.queue_max = Max(above \cup {0})
    <3>1. OM!QueueMin(report) = Min(D) /\ report.queue_max = Max(D \cup {0})
      BY <2>1, <2>7, QueueExtremes
    <3> QED BY <2>6, <3>1
  <2>8. ASSUME OM!TotalSamples(report) > 1
        PROVE  /\ OM!QueueMin(report) <= OM!HistogramPercentile(report, 50)
               /\ OM!HistogramPercentile(report, 50) <= OM!HistogramPercentile(report, 95)
               /\ OM!HistogramPercentile(report, 99) <= report.queue_max
    BY <2>1, <2>8, QueuePercentiles
  <2>9. SumFunction(hist) = OM!TotalSamples(report)
    BY <2>3 DEF SumFunction
  <2>10. /\ report.queue_sum = SumFunction([q \in D |-> q * hist[q]])
         /\ SumFunction(sums) = report.queue_sum
         /\ SumFunction(sqs) = SumFunction([q \in D |-> q * q * hist[q]])
    BY <2>2, <2>3, <2>4, Zenon
  <2> HIDE DEF n, above, ticks, sums, sqs
  <2> QED BY <2>5, <2>7, <2>8, <2>9, <2>10, Zenon DEF QueueReportConsistent, above, ticks, sums, sqs
<1>4. TraceSpec => [](RegistryInv /\ LoopInv /\ ReplayInv)
  BY ReplayInvariant, TraceContext, PTL
<1> QED BY <1>1, <1>2, <1>3, <1>4, ArrivalInvariant, PTL DEF TraceSpec

-----------------------------------------------------------------------------
(* The derived figures.                                                    *)

\* Jain's index of typed processes, of which there is one.
LEMMA JainInRange ==
    ASSUME NEW ps \in Seq(ProcessRecord), ps # <<>>
    PROVE  LET jain == OM!JainIndex(ps)
               jobs == {ps[i].completed_jobs : i \in DOMAIN ps}
           IN  /\ jain[1] = 0 <=> OM!Completed(ps) = 0
               /\ jain[1] > 0 =>
                      /\ jain[1] <= jain[2]
                      /\ jain[2] <= Len(ps) * jain[1]
                      /\ jain[1] = jain[2] <=> Cardinality(jobs) = 1
<1> DEFINE D == DOMAIN ps
           ones == [i \in D |-> 1]
           f == [i \in D |-> ps[i].completed_jobs]
           g == [i \in D |-> ps[i].completed_jobs * ps[i].completed_jobs]
           a == SumFunctionOnSet(f, D)
           b == SumFunctionOnSet(g, D)
           n == Len(ps)
           jobs == {ps[i].completed_jobs : i \in DOMAIN ps}
<1>1. D = 1 .. n /\ n \in Nat \ {0} /\ IsFiniteSet(D) /\ Cardinality(D) = n
  <2>1. D = 1 .. n /\ n \in Nat \ {0}
    OBVIOUS
  <2>2. IsFiniteSet(1 .. n) /\ Cardinality(1 .. n) = n
    BY <2>1, FS_Interval
  <2> QED BY <2>1, <2>2
<1>2. \A i \in D : f[i] \in Nat
  <2> SUFFICES ASSUME NEW i \in D PROVE f[i] \in Nat
    OBVIOUS
  <2>1. ps[i] \in ProcessRecord
    OBVIOUS
  <2> QED BY <2>1 DEF ProcessRecord
<1>3. /\ OM!Completed(ps) = a
      /\ OM!JainIndex(ps) = IF b = 0 THEN <<0, 1>> ELSE <<a * a, n * b>>
  <2>1. OM!Completed(ps) = a
    BY SameSum DEF OM!Completed
  <2>2. OM!SumFunction(g) = b
    BY SameSum
  <2> HIDE DEF a, b
  <2> QED BY <2>1, <2>2 DEF OM!JainIndex
<1>4. \A i \in D : ones[i] = 1 /\ g[i] = f[i] * f[i]
  OBVIOUS
<1>5. SumFunctionOnSet(ones, D) = n
  <2>1. 1 \in Int /\ \A i \in D : ones[i] = 1
    BY <1>4
  <2> HIDE DEF ones, D, n
  <2>2. SumFunctionOnSet(ones, D) = Cardinality(D) * 1
    BY <1>1, <2>1, SumConstant
  <2> QED BY <1>1, <2>2
<1>6. jobs = {f[i] : i \in D}
  OBVIOUS
<1> HIDE DEF D, ones, f, g, n, jobs
<1>7. Moments(ones, f, f, g, D)
  <2> SUFFICES ASSUME NEW k \in D
               PROVE  /\ ones[k] \in Nat \ {0} /\ f[k] \in Int
                      /\ f[k] = ones[k] * f[k] /\ g[k] = ones[k] * (f[k] * f[k])
    BY <1>1 DEF Moments
  <2>1. PICK x \in Nat : x = f[k]
    BY <1>2
  <2>2. PICK y \in Nat : y = x * x
    OBVIOUS
  <2>3. g[k] = y /\ ones[k] = 1
    BY <1>4, <2>1, <2>2
  <2> QED BY <2>1, <2>2, <2>3
<1>8. a \in Nat /\ b \in Nat
  <2>1. \A i \in D : g[i] \in Nat
    BY <1>2, <1>4
  <2> QED BY <1>1, <1>2, <2>1, SumNatural
<1> HIDE DEF a, b
<1>9. n * b - a * a \in Nat /\ (n * b - a * a = 0 <=> \A j, k \in D : f[j] = f[k])
  BY <1>5, <1>7, VarianceNatural DEF Variance, a, b
<1>10. b <= a * a
  BY <1>1, <1>2, <1>4, SquaresBelow DEF a, b
<1>11. PICK s \in Nat : s = a * a
  BY <1>8
<1>12. PICK t \in Nat : t = n * b
  BY <1>1, <1>8
<1>13. n * b <= n * s
  <2>1. \A m, x, y \in Nat : x <= y => m * x <= m * y
    BY Z3
  <2> QED BY <1>1, <1>8, <1>10, <1>11, <2>1
<1>14. (\A j, k \in D : f[j] = f[k]) <=> Cardinality(jobs) = 1
  <2>1. PICK i \in D : TRUE
    BY <1>1
  <2>2. f[i] \in jobs /\ jobs # {}
    BY <1>6
  <2>3. ASSUME \A j, k \in D : f[j] = f[k] PROVE Cardinality(jobs) = 1
    <3>1. jobs = {f[i]}
      BY <1>6, <2>1, <2>3
    <3> QED BY <3>1, FS_Singleton
  <2>4. ASSUME Cardinality(jobs) = 1 PROVE \A j, k \in D : f[j] = f[k]
    <3>1. IsFiniteSet(jobs)
      <4>1. f \in Surjection(D, jobs)
        BY <1>6 DEF Surjection, f
      <4> QED BY <1>1, <4>1, FS_Surjection
    <3>2. PICK x : jobs = {x}
      BY <2>4, <3>1, FS_Singleton
    <3> QED BY <1>6, <3>2
  <2> QED BY <2>3, <2>4
<1>15. n * s = Len(ps) * (a * a)
  BY <1>11 DEF n
<1>16. b = 0 <=> a = 0
  <2>1. b = 0 => n * b = 0
    BY <1>1
  <2>2. a = 0 <=> a * a = 0
    BY <1>8, Z3
  <2> QED BY <1>8, <1>9, <1>10, <1>11, <1>12, <2>1, <2>2
<1> DEFINE jain == OM!JainIndex(ps)
<1>17. jain[1] = IF b = 0 THEN 0 ELSE s
  BY <1>3, <1>11
<1>18. b # 0 => jain[2] = t
  BY <1>3, <1>12
<1>19. s = 0 <=> a = 0
  BY <1>8, <1>11, Z3
<1> HIDE DEF jain
<1>20. jain[1] = 0 <=> a = 0
  BY <1>16, <1>17, <1>19
<1>21. ASSUME jain[1] > 0
       PROVE  /\ jain[1] <= jain[2] /\ jain[2] <= n * jain[1]
              /\ jain[1] = jain[2] <=> Cardinality(jobs) = 1
  <2>1. jain[1] = s /\ jain[2] = t
    BY <1>17, <1>18, <1>21
  <2> QED BY <1>9, <1>11, <1>12, <1>13, <1>14, <2>1
<1> QED BY <1>3, <1>20, <1>21 DEF jain, jobs, n

\* The variance of the queue lengths sampled is not negative.
LEMMA QueueVarianceNatural ==
    ASSUME NEW om, NEW n, HistSound(om, n)
    PROVE  LET var == OM!QueueVariance(om)
           IN  var[2] * var[2] <= var[1] * var[3]
<1> DEFINE hist == om.queue_hist
           D == DOMAIN hist
           p == [q \in D |-> Lengths[q] * hist[q]]
           s == [q \in D |-> Squares[q] * hist[q]]
           sqs == om.queue_sq_per_proc
           I == 1 .. NumProcs
           total == OM!TotalSamples(om)
           a == Weighted(hist, Lengths)
           b == Weighted(hist, Squares)
<1>1. /\ IsHistogram(hist) /\ om.queue_sum = a
      /\ sqs \in [I -> Int] /\ SumFunctionOnSet(sqs, I) = b
  BY DEF HistSound
<1>2. SumFunctionOnSet(hist, D) = total /\ total \in Nat
  BY HistogramReport
<1>3. OM!QueueVariance(om) = <<b, a, total>>
  <2>1. DOMAIN sqs = I
    BY <1>1
  <2>2. OM!SumFunction(sqs) = b
    BY <1>1, <2>1, SameSum
  <2> HIDE DEF a, b, total, sqs
  <2> QED BY <1>1, <2>2 DEF OM!QueueVariance, total, sqs
<1>4. /\ IsFiniteSet(D) /\ \A q \in D : q \in Nat /\ hist[q] \in Nat \ {0}
  BY <1>1 DEF IsHistogram
<1>5. a = SumFunctionOnSet(p, D) /\ b = SumFunctionOnSet(s, D)
  BY DEF Weighted
<1>6. \A q \in D : p[q] = Lengths[q] * hist[q] /\ s[q] = Squares[q] * hist[q]
  OBVIOUS
<1>7. \A q \in D : Lengths[q] = q /\ Squares[q] = q * q
  BY <1>4 DEF Lengths, Squares
<1> HIDE DEF hist, D, p, s, a, b, total
<1>8. Moments(hist, Lengths, p, s, D)
  <2> SUFFICES ASSUME NEW k \in D
               PROVE  /\ hist[k] \in Nat \ {0} /\ Lengths[k] \in Int
                      /\ p[k] = hist[k] * Lengths[k] /\ s[k] = hist[k] * (Lengths[k] * Lengths[k])
    BY <1>4 DEF Moments
  <2>1. k \in Nat /\ Lengths[k] = k /\ Squares[k] = k * k
    BY <1>4, <1>7
  <2>2. PICK h \in Nat \ {0} : h = hist[k]
    BY <1>4
  <2>3. p[k] = k * h /\ s[k] = (k * k) * h
    BY <1>6, <2>1, <2>2
  <2>4. k * h = h * k /\ (k * k) * h = h * (k * k)
    BY <2>1, <2>2, Z3
  <2> QED BY <2>1, <2>2, <2>3, <2>4
<1>9. total * b - a * a \in Nat
  BY <1>2, <1>5, <1>8, VarianceNatural DEF Variance
<1>10. a \in Int /\ b \in Int
  <2>1. \A q \in D : p[q] \in Int /\ s[q] \in Int
    BY <1>4, <1>6, <1>7
  <2> QED BY <1>4, <1>5, <2>1, SumType DEF Summable
<1>11. a * a <= b * total
  BY <1>2, <1>9, <1>10, Z3
<1> QED BY <1>3, <1>11

\* What a Metrics event records of V.
LEMMA RecordedPotential ==
    ASSUME VFields \cup DecisionFields \subseteq DOMAIN report, NEW v, NEW d,
           report' = Recorded(report, v, d)
    PROVE  /\ report'.sum_lyapunov_v = report.sum_lyapunov_v + v
           /\ report'.max_lyapunov_v = OM!Larger(report.max_lyapunov_v, v)
<1> DEFINE snapshot == IF tick % SnapshotEvery = 0
                       THEN OM!RecordQueueSnapshot(report, processes) ELSE report
           decided  == OM!RecordDecision(snapshot, last, mode)
           c == OM!RecordDrift(decided, d)
<1>1. report' = OM!RecordLyapunovV(c, v)
  BY DEF Recorded
<1>2. VFields \cap (QueueFields \cup DecisionFields \cup DriftFields) = {}
  BY DEF VFields, QueueFields, DecisionFields, StreakFields, ChoiceFields, DriftFields
<1>3. DOMAIN snapshot = DOMAIN report /\ \A f \in VFields : snapshot[f] = report[f]
  BY <1>2, FieldsKept
<1> HIDE DEF snapshot
<1>4. DOMAIN decided = DOMAIN report /\ \A f \in VFields : decided[f] = report[f]
  <2>1. /\ DOMAIN decided = DOMAIN snapshot
        /\ \A f \in DOMAIN snapshot \ DecisionFields : decided[f] = snapshot[f]
    BY <1>3, DecisionKeeps
  <2> QED BY <1>2, <1>3, <2>1
<1> HIDE DEF decided
<1>5. DOMAIN c = DOMAIN report /\ \A f \in VFields : c[f] = report[f]
  <2>1. DOMAIN c = DOMAIN decided /\ \A f \in DOMAIN decided \ DriftFields : c[f] = decided[f]
    BY FieldsKept
  <2> QED BY <1>2, <1>4, <2>1
<1> HIDE DEF c
<1>6. /\ VFields \subseteq DOMAIN c
      /\ c.sum_lyapunov_v = report.sum_lyapunov_v /\ c.max_lyapunov_v = report.max_lyapunov_v
  BY <1>5 DEF VFields
<1> QED BY <1>1, <1>6 DEF OM!RecordLyapunovV, VFields

-----------------------------------------------------------------------------
(* The throughput.                                                         *)

\* A Service event on the heap that will complete a job if it is the next one.
Awaited == \E s \in Services, cx \in BOOLEAN :
               /\ heap[ServiceEvent(s, cx)] > 0
               /\ Known(s) /\ processes[indexOf[s]].queue_length > 0

\* No decision is recorded that has completed nothing: between a decision and the
\* Metrics event that records it, a job has been or will be completed.
ServedInv ==
    /\ ~Started => report.decision_count = 0
    /\ report.decision_count <= offline.waits
    /\ Started /\ MetricsPending /\ last # NoPid /\ heap[ScheduleEvent] = 0
           => report.decision_count < offline.waits \/ Awaited

LEMMA ServedStart == TraceInit => ServedInv
<1> SUFFICES ASSUME TraceInit PROVE ServedInv
  OBVIOUS
<1>1. report.decision_count = 0 /\ offline.waits = 0 /\ pc = "tick"
  BY DEF TraceInit, Init, OM!OfflineStart, OfflineInit
<1> QED BY <1>1 DEF ServedInv, MetricsPending

\* What a Metrics event records of the decision.
LEMMA RecordedDecision ==
    ASSUME StreaksSound(report), NEW v, NEW d, report' = Recorded(report, v, d)
    PROVE  report'.decision_count = report.decision_count + (IF last = NoPid THEN 0 ELSE 1)
<1> DEFINE snapshot == IF tick % SnapshotEvery = 0
                       THEN OM!RecordQueueSnapshot(report, processes) ELSE report
           decided  == OM!RecordDecision(snapshot, last, mode)
           c == OM!RecordDrift(decided, d)
           n == report.decision_count
<1>1. report' = OM!RecordLyapunovV(c, v)
  BY DEF Recorded
<1>2. DecisionFields \cap (QueueFields \cup VFields \cup DriftFields) = {}
  BY DEF VFields, QueueFields, DecisionFields, StreakFields, ChoiceFields, DriftFields
<1>3. DecisionFields \subseteq DOMAIN report /\ "decision_count" \in DecisionFields /\ n \in Nat
  BY DEF StreaksSound, DecisionFields, ChoiceFields
<1>4. DOMAIN snapshot = DOMAIN report /\ snapshot.decision_count = n
  BY <1>2, <1>3, FieldsKept
<1> HIDE DEF snapshot, n
<1>5. /\ DOMAIN decided = DOMAIN snapshot
      /\ decided.decision_count = n + (IF last = NoPid THEN 0 ELSE 1)
  <2> DEFINE x == Chosen(snapshot, last, mode)
  <2>1. /\ DOMAIN decided = DOMAIN snapshot
        /\ last = OM!Nobody => decided = snapshot
    BY <1>3, <1>4, DecisionChanges
  <2>2. CASE last = OM!Nobody
    BY <1>3, <1>4, <2>1, <2>2 DEF OM!Nobody, NoPid
  <2>3. CASE last # OM!Nobody
    <3>1. decided = OM!Streaks(x, mode)
      BY <2>3 DEF OM!RecordDecision, Chosen
    <3>2. DOMAIN x = DOMAIN snapshot /\ x.decision_count = n + 1
      BY <1>3, <1>4, ChosenChanges
    <3> HIDE DEF x
    <3>3. OM!Streaks(x, mode).decision_count = x.decision_count
      BY <1>3, <1>4, <3>2 DEF OM!Streaks
    <3> QED BY <2>1, <2>3, <3>1, <3>2, <3>3 DEF OM!Nobody, NoPid
  <2> QED BY <2>2, <2>3
<1> HIDE DEF decided
<1>6. DOMAIN c = DOMAIN report /\ c.decision_count = decided.decision_count
  BY <1>2, <1>3, <1>4, <1>5, FieldsKept
<1> HIDE DEF c
<1>7. report'.decision_count = c.decision_count
  BY <1>1, <1>2, <1>3, <1>6, FieldsKept
<1> QED BY <1>5, <1>6, <1>7 DEF n

\* Arrivals take no job away.
LEMMA ArrivalAwaits ==
    ASSUME Context, NEW e \in Event, HandleArrival(e), Awaited
    PROVE  Awaited'
<1> PICK s \in Services, cx \in BOOLEAN :
             /\ heap[ServiceEvent(s, cx)] > 0
             /\ Known(s) /\ processes[indexOf[s]].queue_length > 0
  BY DEF Awaited
<1> DEFINE raw == e.pid
           ps  == Extended(processes, raw, NewProcess(raw))
           i   == indexOf'[raw]
           j   == indexOf[s]
<1>1. /\ raw \in Services /\ Register(raw) /\ e.type = "Arrival"
      /\ heap' = Popped(heap, e)
      /\ processes' = [ps EXCEPT ![i] = Arrival(@, tick)]
  BY EventTyped DEF HandleArrival, Pop
<1>2. processes \in Seq(ProcessRecord) /\ j \in DOMAIN processes
  BY DEF Context, RegistryInv, TypeOK, RegistryConsistent
<1>3. ps \in Seq(ProcessRecord) /\ ps[j] = processes[j] /\ j \in DOMAIN ps
  <2>1. NewProcess(raw) \in ProcessRecord
    BY <1>1, NewProcessTyped, EventQueueAssumption
  <2> QED BY <1>2, <2>1 DEF Extended
<1>4. indexOf'[s] = j /\ Known(s)'
  <2>1. indexOf \in [Services -> 0 .. Len(processes)] /\ j # NoPid
    BY DEF Context, RegistryInv, TypeOK, Known
  <2>2. indexOf'[s] = j
    <3>1. CASE Known(raw)
      BY <1>1, <3>1 DEF Register
    <3>2. CASE ~Known(raw)
      <4>1. s # raw
        BY <3>2
      <4> QED BY <1>1, <2>1, <3>2, <4>1 DEF Register
    <3> QED BY <3>1, <3>2
  <2> QED BY <2>1, <2>2 DEF Known
<1>5. processes'[j].queue_length > 0
  <2>1. ps[j] \in ProcessRecord
    BY <1>3
  <2>2. PICK q \in Int : q = ps[j].queue_length /\ q > 0
    BY <1>3, <2>1 DEF ProcessRecord
  <2>3. Arrival(ps[j], tick).queue_length = q + 1
    BY <2>1, <2>2 DEF Arrival, ProcessRecord
  <2> HIDE DEF ps, i
  <2>4. processes'[j] = IF j = i THEN Arrival(ps[j], tick) ELSE ps[j]
    BY <1>1, <1>3
  <2> QED BY <2>2, <2>3, <2>4
<1>6. heap'[ServiceEvent(s, cx)] > 0
  <2>1. heap \in [Event -> Nat] /\ ServiceEvent(s, cx) \in Event /\ ServiceEvent(s, cx) # e
    BY <1>1, EventTyped, TypesOfPipelineEvents DEF Context, RegistryInv, TypeOK, IsHeap
  <2> QED BY <1>1, <2>1 DEF Popped
<1> QED BY <1>4, <1>5, <1>6 DEF Awaited

\* A handler that pops e and leaves the processes alone keeps what is awaited,
\* unless e is it.
LEMMA PoppedAwaits ==
    ASSUME Context, NEW e \in Event, NEW type, Pop(e, type), heap' = Popped(heap, e),
           UNCHANGED <<processes, indexOf>>, Awaited,
           type = "Service" => ~Serviceable(e)
    PROVE  Awaited'
<1> PICK s \in Services, cx \in BOOLEAN :
             /\ heap[ServiceEvent(s, cx)] > 0
             /\ Known(s) /\ processes[indexOf[s]].queue_length > 0
  BY DEF Awaited
<1> DEFINE f == ServiceEvent(s, cx)
<1>1. f \in Event /\ f.type = "Service" /\ f.pid = s
  BY EventTyped, TypesOfPipelineEvents
<1>2. f # e
  BY <1>1, TraceLoopAssumption DEF Pop, Serviceable
<1> HIDE DEF f
<1>3. heap'[f] > 0
  BY <1>1, <1>2 DEF f, Popped, Context, RegistryInv, TypeOK, IsHeap
<1> QED BY <1>3 DEF f, Awaited, Known

LEMMA ServedStep ==
    ASSUME LoopInv, ReplayInv, StreakInv, ServedInv, [TraceNext]_traceLoopVars
    PROVE  ServedInv'
<1>1. /\ Context /\ DrainInv /\ tick \in Nat /\ WarmupTicks \in Nat /\ ~LockMode
      /\ DecisionFields \subseteq DOMAIN report /\ report.decision_count \in Nat
      /\ offline \in OfflineRecord /\ offline.waits \in Nat
      /\ heap \in [Event -> Nat]
      /\ ~Started => report.decision_count = 0
      /\ report.decision_count <= offline.waits
  <2>1. Context /\ DrainInv /\ tick \in Nat /\ WarmupTicks \in Nat /\ ~LockMode
    BY ContextTypes, EventLoopAssumption, TraceLoopAssumption DEF LoopInv
  <2>2. DecisionFields \subseteq DOMAIN report /\ report.decision_count \in Nat
    BY DEF StreakInv, StreaksSound, DecisionFields, ChoiceFields
  <2>3. offline \in OfflineRecord /\ offline.waits \in Nat
    BY DEF LoopInv, OfflineInv, OfflineRecord
  <2>4. heap \in [Event -> Nat]
    BY <2>1 DEF Context, RegistryInv, TypeOK, IsHeap
  <2> QED BY <2>1, <2>2, <2>3, <2>4 DEF ServedInv
<1>2. CASE UNCHANGED <<report, offline, tick, pc, heap, last, processes, indexOf>>
  BY <1>2 DEF ServedInv, Started, MetricsPending, Awaited, Known
<1>3. ASSUME report'.decision_count = report.decision_count, offline'.waits = offline.waits,
             Started' => Started \/ report.decision_count = 0,
             ~Started' => ~Started,
             Started' /\ MetricsPending' /\ last' # NoPid /\ heap'[ScheduleEvent] = 0
                 => report.decision_count < offline.waits \/ Awaited'
      PROVE  ServedInv'
  BY <1>1, <1>3 DEF ServedInv
<1>4. CASE BeginTraceTick
  <2>1. BeginTick
    BY <1>1, <1>4, BeginTraceTickBegins DEF Context, RegistryInv
  <2>2. pc = "tick" /\ pc' = "drain" /\ UNCHANGED <<tick, report, offline, last>>
    BY <1>4 DEF BeginTraceTick, reportVars
  <2>3. heap'[ScheduleEvent] > 0
    <3>1. PICK batch \in Batches :
              heap' = Push(Push(PushAll(heap, batch), ScheduleEvent), MetricsEvent)
      BY <2>1 DEF BeginTick
    <3>2. PushAll(heap, batch) \in [Event -> Nat]
      BY <1>1, PushAllTyped DEF IsHeap, Batches
    <3> QED BY <3>1, <3>2, EventTyped DEF Push
  <2>4. ~Started' => ~Started
    BY <1>1, <2>2 DEF Started
  <2>5. ~(heap'[ScheduleEvent] = 0)
    BY <2>3
  <2>6. Started' => Started \/ report.decision_count = 0
    BY <1>1
  <2> QED BY <1>3, <2>2, <2>4, <2>5, <2>6
<1>5. ASSUME NEW e \in Event, DecideInMode(e) PROVE ServedInv'
  <2> PICK i \in Decisions : Schedule(e, i)
    BY <1>5 DEF DecideInMode
  <2>1. /\ UNCHANGED <<tick, pc, report, processes, indexOf, offline>> /\ last' = i
        /\ Pop(e, "Schedule")
    BY <1>1, <1>5 DEF DecideInMode, Schedule
  <2>2. PICK cx \in BOOLEAN : heap' = HeapAfterSchedule(e, i, cx)
    BY DEF Schedule
  <2>3. Started' = Started
    BY <2>1 DEF Started
  <2>4. ASSUME last' # NoPid PROVE Awaited'
    <3>1. i \in DOMAIN processes /\ processes[i].queue_length > 0
      BY <2>1, <2>4 DEF Decisions, Candidates
    <3>2. PICK raw \in Services : raw = processes[i].id /\ indexOf[raw] = i
      BY <1>1, <3>1 DEF Context, RegistryInv, RegistryConsistent
    <3> DEFINE f == ServiceEvent(raw, cx)
    <3>3. f \in Event
      BY <3>2, EventTyped
    <3>4. heap' = Push(Popped(heap, e), f)
      BY <2>1, <2>2, <2>4, <3>2 DEF HeapAfterSchedule
    <3>5. Popped(heap, e) \in [Event -> Nat]
      BY <1>1, <2>1, PoppedHeap
    <3> HIDE DEF f
    <3>6. heap'[f] > 0
      BY <3>3, <3>4, <3>5 DEF Push
    <3>7. Known(raw)' /\ indexOf'[raw] = i /\ processes'[i].queue_length > 0
      BY <2>1, <2>4, <3>1, <3>2 DEF Known
    <3> QED BY <3>2, <3>6, <3>7 DEF Awaited, f
  <2> QED BY <1>3, <2>1, <2>3, <2>4
<1>6. ASSUME NEW e \in Event, ServeAndRecord(e) PROVE ServedInv'
  <2>1. HandleService(e) /\ pc = "drain" /\ UNCHANGED <<tick, pc>>
    BY <1>6 DEF ServeAndRecord, HandleService, Pop
  <2>2. ASSUME NEW w, report' = OM!RecordWaitingTime(report, w)
        PROVE  report'.decision_count = report.decision_count
    <3>1. DecisionFields \cap WaitFields = {} /\ "decision_count" \in DecisionFields
      BY DEF DecisionFields, StreakFields, ChoiceFields, WaitFields
    <3> QED BY <1>1, <2>2, <3>1, FieldsKept
  <2>3. report'.decision_count = report.decision_count
    BY <1>6, <2>2 DEF ServeAndRecord
  <2>4. Started' = Started /\ (Recording <=> Started)
    BY <1>1, <2>1 DEF Started, Recording
  <2>5. PICK w \in Nat : offline' = IF Recording THEN RecordWaits(offline, 1, w) ELSE offline
    BY <1>1, <2>1, ServiceTotals
  <2>6. CASE Recording
    <3>1. offline'.waits = offline.waits + 1
      BY <1>1, <2>5, <2>6, RecordWaitsChanges
    <3>2. report'.decision_count < offline'.waits /\ report'.decision_count <= offline'.waits
      BY <1>1, <2>3, <3>1
    <3> QED BY <2>4, <2>6, <3>2 DEF ServedInv
  <2>7. CASE ~Recording
    BY <1>1, <2>3, <2>4, <2>5, <2>7 DEF ServedInv
  <2> QED BY <2>6, <2>7
<1>7. ASSUME NEW e \in Event, MeasureAndRecord(e) PROVE ServedInv'
  <2>1. /\ HandleMetrics(e) /\ Pop(e, "Metrics") /\ heap' = Popped(heap, e)
        /\ pc = "drain" /\ UNCHANGED <<tick, pc, last>>
    BY <1>7 DEF MeasureAndRecord, HandleMetrics, Pop
  <2>2. MetricsPending /\ Measured' /\ ~MetricsPending'
    BY <1>1, <2>1, MetricsDrain
  <2>3. Started' = Started /\ (Recording <=> Started)
    BY <1>1, <2>1 DEF Started, Recording
  <2>4. CASE ~Recording
    <3>1. report' = report /\ offline' = offline
      BY <1>7, <2>1, <2>4 DEF MeasureAndRecord, HandleMetrics
    <3> QED BY <1>3, <2>2, <2>3, <3>1
  <2>5. CASE Recording
    <3>1. report' = Recorded(report, online'.current_v, online'.drift)
      BY <1>7, <2>5 DEF MeasureAndRecord
    <3>2. report'.decision_count = report.decision_count + (IF last = NoPid THEN 0 ELSE 1)
      BY <3>1, RecordedDecision DEF StreakInv
    <3>3. offline'.waits = offline.waits
      <4>1. offline' = RecordDecision(offline, last) /\ last \in Nat
        BY <1>1, <2>1, <2>5, ContextTypes DEF HandleMetrics
      <4> QED BY <1>1, <4>1, RecordDecisionChanges
    <3>4. \A f \in Event : f.type # "Metrics" => heap[f] = 0
      <4>1. \A f \in Event : heap'[f] = 0 /\ heap'[f] = IF f = e THEN heap[e] - 1 ELSE heap[f]
        BY <1>1, <2>1, <2>2, PoppedHeap DEF Measured, IsEmpty
      <4> QED BY <2>1, <4>1 DEF Pop
    <3>5. heap[ScheduleEvent] = 0 /\ ~Awaited
      <4>1. heap[ScheduleEvent] = 0
        BY <3>4, EventTyped, TypesOfPipelineEvents
      <4>2. ASSUME NEW s \in Services, NEW cx \in BOOLEAN PROVE heap[ServiceEvent(s, cx)] = 0
        BY <3>4, EventTyped, TypesOfPipelineEvents
      <4> QED BY <4>1, <4>2 DEF Awaited
    <3>6. last # NoPid => report.decision_count < offline.waits
      BY <2>2, <2>3, <2>5, <3>5 DEF ServedInv
    <3>7. report'.decision_count <= offline'.waits
      BY <1>1, <3>2, <3>3, <3>6
    <3> QED BY <2>2, <2>3, <2>5, <3>7 DEF ServedInv
  <2> QED BY <2>4, <2>5
<1>8. CASE EndTick /\ UNCHANGED reportVars
  <2>1. /\ pc = "drain" /\ pc' # "drain" /\ tick' = tick + 1
        /\ ~MetricsPending' /\ UNCHANGED <<report, offline>>
    BY <1>8, EndTickDrain DEF EndTick, reportVars, MetricsPending
  <2>2. Started' = Started
    BY <1>1, <2>1 DEF Started
  <2> QED BY <1>3, <2>1, <2>2
<1>9. ASSUME NEW e \in Event, HandleArrival(e), UNCHANGED reportVars PROVE ServedInv'
  <2>1. /\ Pop(e, "Arrival") /\ heap' = Popped(heap, e) /\ pc = "drain"
        /\ UNCHANGED <<tick, pc, last, offline, report>>
    BY <1>9 DEF HandleArrival, reportVars, Pop
  <2>2. MetricsPending
    BY <1>1, <1>9, HandlerDrain
  <2>3. heap'[ScheduleEvent] = heap[ScheduleEvent]
    BY <1>1, <2>1, PoppedHeap, EventTyped, TypesOfPipelineEvents
  <2>4. Awaited => Awaited'
    BY <1>1, <1>9, ArrivalAwaits
  <2>5. Started' = Started
    BY <2>1 DEF Started
  <2> QED BY <1>3, <2>1, <2>2, <2>3, <2>4, <2>5 DEF ServedInv
<1>10. ASSUME NEW e \in Event, IgnoreLockEvent(e) \/ IgnoreService(e), UNCHANGED reportVars
       PROVE  ServedInv'
  <2>1. PICK type \in {"LockAcquire", "LockRelease", "Service"} :
            Pop(e, type) /\ (type = "Service" => ~Serviceable(e))
    BY <1>10 DEF IgnoreLockEvent, IgnoreService
  <2>2. /\ heap' = Popped(heap, e) /\ pc = "drain"
        /\ UNCHANGED <<tick, pc, last, offline, report, processes, indexOf>>
    BY <1>10 DEF IgnoreLockEvent, IgnoreService, reportVars, Pop
  <2>3. MetricsPending
    BY <1>1, <1>10, HandlerDrain
  <2>4. heap'[ScheduleEvent] = heap[ScheduleEvent]
    BY <1>1, <2>1, <2>2, PoppedHeap, EventTyped, TypesOfPipelineEvents
  <2>5. Awaited => Awaited'
    BY <1>1, <2>1, <2>2, PoppedAwaits
  <2>6. Started' = Started
    BY <2>2 DEF Started
  <2> QED BY <1>3, <2>2, <2>3, <2>4, <2>5, <2>6 DEF ServedInv
<1>11. CASE Refuse \/ Load \/ Stopped \/ UNCHANGED traceLoopVars
  BY <1>2, <1>11 DEF Refuse, Load, Stopped, traceLoopVars, reportVars, vars, loopVars
<1> QED BY <1>4, <1>5, <1>6, <1>7, <1>8, <1>9, <1>10, <1>11 DEF TraceNext, OtherTraceStep
-----------------------------------------------------------------------------
(* Idle ticks: a decision that is not valid leaves nothing unreported.     *)

\* After an idle decision no job is queued, and none comes before the tick is over.
IdleInv ==
    pc = "drain" /\ last = NoPid /\ heap[ScheduleEvent] = 0 =>
        /\ \A e \in Event : e.type = "Arrival" => heap[e] = 0
        /\ \A i \in DOMAIN processes : processes[i].queue_length = 0

\* As long as no decision is recorded every V(t) was zero, and a job can have been
\* completed only by a decision that is still to be recorded in this tick.
DefaultInv ==
    report.decision_count = 0 =>
        /\ report.sum_lyapunov_v = 0 /\ report.max_lyapunov_v = 0
        /\ offline.waits > 0 => MetricsPending /\ last # NoPid /\ heap[ScheduleEvent] = 0

LEMMA DefaultStart == TraceInit => IdleInv /\ DefaultInv
<1> SUFFICES ASSUME TraceInit PROVE IdleInv /\ DefaultInv
  OBVIOUS
<1>1. /\ pc = "tick" /\ offline.waits = 0
      /\ report.sum_lyapunov_v = 0 /\ report.max_lyapunov_v = 0
  BY DEF TraceInit, Init, OM!OfflineStart, OfflineInit
<1> QED BY <1>1 DEF IdleInv, DefaultInv

\* Service and Metrics events come after the Schedule event.
LEMMA ScheduledBefore ==
    ASSUME Context, NEW e \in Event, NEW type \in {"Service", "Metrics"}, Pop(e, type)
    PROVE  heap[ScheduleEvent] = 0
<1>1. /\ e.type = type /\ heap \in [Event -> Nat]
      /\ \A f \in Event : heap[f] > 0 => Rank(e.type) <= Rank(f.type)
  BY ContextTypes DEF Pop, Tops
<1>2. ScheduleEvent \in Event /\ ScheduleEvent.type = "Schedule"
  BY EventTyped, TypesOfPipelineEvents
<1>3. ~(Rank(type) <= Rank("Schedule"))
  BY DEF Rank
<1> QED BY <1>1, <1>2, <1>3

\* The queues after a Metrics event are as long as before.
LEMMA MeasuredQueues ==
    ASSUME Context, NEW e \in Event, HandleMetrics(e)
    PROVE  /\ DOMAIN processes' = DOMAIN processes
           /\ \A i \in DOMAIN processes : processes'[i].queue_length = processes[i].queue_length
<1>1. processes' = [i \in DOMAIN processes |->
                       IF i = last THEN processes[i] ELSE TickIdle(processes[i])]
  BY DEF HandleMetrics
<1>2. ASSUME NEW i \in DOMAIN processes
      PROVE  TickIdle(processes[i]).queue_length = processes[i].queue_length
  <2>1. processes[i] \in ProcessRecord
    BY ContextTypes
  <2> QED BY <2>1 DEF TickIdle, ProcessRecord
<1> QED BY <1>1, <1>2

LEMMA IdleStep ==
    ASSUME LoopInv, ReplayInv, IdleInv, [TraceNext]_traceLoopVars PROVE IdleInv'
<1>1. /\ Context /\ DrainInv /\ ~LockMode /\ heap \in [Event -> Nat]
      /\ processes \in Seq(ProcessRecord)
  BY ContextTypes, TraceLoopAssumption DEF LoopInv
<1>2. CASE UNCHANGED <<pc, last, heap, processes>>
  BY <1>2 DEF IdleInv
\* A handler of another event than the Schedule event that leaves the queues alone.
<1>3. ASSUME NEW e \in Event, NEW type, Pop(e, type), type # "Schedule",
             heap' = Popped(heap, e), UNCHANGED <<pc, last>>,
             DOMAIN processes' = DOMAIN processes,
             \A i \in DOMAIN processes : processes'[i].queue_length = processes[i].queue_length
      PROVE  IdleInv'
  <2>1. /\ heap'[ScheduleEvent] = heap[ScheduleEvent]
        /\ \A f \in Event : heap'[f] = IF f = e THEN heap[e] - 1 ELSE heap[f]
        /\ heap[e] > 0 /\ heap[e] \in Nat /\ e.type = type
    BY <1>1, <1>3, PoppedHeap, EventTyped, TypesOfPipelineEvents
  <2> QED BY <1>1, <1>3, <2>1 DEF IdleInv
<1>4. CASE BeginTraceTick
  <2>1. BeginTick
    BY <1>1, <1>4, BeginTraceTickBegins DEF Context, RegistryInv
  <2>2. PICK batch \in Batches :
            heap' = Push(Push(PushAll(heap, batch), ScheduleEvent), MetricsEvent)
    BY <2>1 DEF BeginTick
  <2>3. PushAll(heap, batch) \in [Event -> Nat]
    BY <1>1, PushAllTyped DEF IsHeap, Batches
  <2>4. heap'[ScheduleEvent] > 0
    BY <2>2, <2>3, EventTyped DEF Push
  <2>5. ~(heap'[ScheduleEvent] = 0)
    BY <2>4
  <2> QED BY <2>5 DEF IdleInv
<1>5. ASSUME NEW e \in Event, DecideInMode(e) PROVE IdleInv'
  <2> PICK i \in Decisions : Schedule(e, i)
    BY <1>5 DEF DecideInMode
  <2>1. /\ UNCHANGED <<pc, processes>> /\ last' = i /\ Pop(e, "Schedule")
    BY <1>1 DEF Schedule
  <2>2. CASE i # NoPid
    BY <2>1, <2>2 DEF IdleInv
  <2>3. CASE i = NoPid
    <3>1. heap' = Popped(heap, e)
      BY <2>3 DEF Schedule, HeapAfterSchedule
    <3>2. ASSUME NEW f \in Event, f.type = "Arrival" PROVE heap'[f] = 0
      <4>1. /\ e.type = "Schedule" /\ f # e
            /\ heap[f] > 0 => Rank(e.type) <= Rank(f.type)
        BY <2>1, <3>2 DEF Pop, Tops
      <4>2. ~(Rank("Schedule") <= Rank("Arrival"))
        BY DEF Rank
      <4>3. heap[f] = 0
        BY <1>1, <3>2, <4>1, <4>2
      <4> QED BY <1>1, <2>1, <3>1, <4>1, <4>3, PoppedHeap
    <3>3. Candidates = {}
      <4>1. i \notin DOMAIN processes
        BY <1>1, <2>3 DEF NoPid
      <4> QED BY <1>1, <4>1 DEF Decisions, Candidates
    <3>4. ASSUME NEW j \in DOMAIN processes PROVE processes[j].queue_length = 0
      <4>1. ~(processes[j].queue_length > 0)
        BY <3>3 DEF Candidates
      <4>2. processes[j].jobs \in Seq(Nat)
        <5>1. processes[j] \in ProcessRecord
          BY <1>1
        <5> QED BY <5>1 DEF ProcessRecord
      <4>3. processes[j].queue_length = Len(processes[j].jobs)
        BY <1>1 DEF Context, AllSound, Sound, JobsConsistent
      <4> QED BY <4>1, <4>2, <4>3
    <3> QED BY <2>1, <3>2, <3>4 DEF IdleInv
  <2> QED BY <2>2, <2>3
<1>6. ASSUME NEW e \in Event, ServeAndRecord(e) PROVE IdleInv'
  <2>1. HandleService(e) /\ Pop(e, "Service") /\ pc = "drain" /\ last' = last
    BY <1>6 DEF ServeAndRecord, HandleService, Pop
  <2>2. e.pid \in Services /\ Known(e.pid) /\ processes[indexOf[e.pid]].queue_length > 0
    BY <2>1, EventTyped DEF HandleService, Serviceable, Pop
  <2>3. indexOf[e.pid] \in DOMAIN processes
    BY <1>1, <2>2 DEF Context, RegistryInv, RegistryConsistent
  <2>4. heap[ScheduleEvent] = 0
    BY <1>1, <2>1, ScheduledBefore
  <2>5. last # NoPid
    BY <2>1, <2>2, <2>3, <2>4 DEF IdleInv
  <2> QED BY <2>1, <2>5 DEF IdleInv
<1>7. ASSUME NEW e \in Event, MeasureAndRecord(e) PROVE IdleInv'
  <2>1. /\ HandleMetrics(e) /\ Pop(e, "Metrics") /\ heap' = Popped(heap, e)
        /\ UNCHANGED <<pc, last>>
    BY <1>7 DEF MeasureAndRecord, HandleMetrics
  <2> QED BY <1>1, <1>3, <2>1, MeasuredQueues
<1>8. CASE EndTick
  BY <1>8, EndTickDrain DEF IdleInv
<1>9. ASSUME NEW e \in Event, HandleArrival(e) PROVE IdleInv'
  <2>1. /\ Pop(e, "Arrival") /\ heap' = Popped(heap, e) /\ pc = "drain"
        /\ UNCHANGED <<pc, last>>
    BY <1>9 DEF HandleArrival, Pop
  <2>2. /\ heap'[ScheduleEvent] = heap[ScheduleEvent] /\ heap[e] > 0 /\ e.type = "Arrival"
    BY <1>1, <2>1, PoppedHeap, EventTyped, TypesOfPipelineEvents
  <2>3. ~(heap[e] = 0)
    BY <2>2
  <2> QED BY <2>1, <2>2, <2>3 DEF IdleInv
<1>10. ASSUME NEW e \in Event, IgnoreLockEvent(e) \/ IgnoreService(e) PROVE IdleInv'
  <2>1. PICK type \in {"LockAcquire", "LockRelease", "Service"} : Pop(e, type)
    BY <1>10 DEF IgnoreLockEvent, IgnoreService
  <2>2. heap' = Popped(heap, e) /\ UNCHANGED <<pc, last, processes>>
    BY <1>10 DEF IgnoreLockEvent, IgnoreService
  <2> QED BY <1>3, <2>1, <2>2
<1>11. CASE Refuse \/ Load \/ Stopped \/ UNCHANGED traceLoopVars
  BY <1>2, <1>11 DEF Refuse, Load, Stopped, traceLoopVars, vars, loopVars
<1> QED BY <1>4, <1>5, <1>6, <1>7, <1>8, <1>9, <1>10, <1>11 DEF TraceNext, OtherTraceStep

\* With all queues empty V is zero.
LEMMA PotentialZero ==
    ASSUME processes \in Seq(ProcessRecord),
           \A i \in DOMAIN processes : processes[i].queue_length = 0
    PROVE  LyapunovV(processes) = 0
<1> DEFINE v == [i \in DOMAIN processes |-> processes[i].queue_length * processes[i].queue_length]
           D == {i \in DOMAIN processes : i <= NumProcs}
<1>1. IsFiniteSet(D)
  <2>1. DOMAIN processes = 1 .. Len(processes) /\ Len(processes) \in Nat
    OBVIOUS
  <2>2. D \in SUBSET (1 .. Len(processes)) /\ IsFiniteSet(1 .. Len(processes))
    BY <2>1, FS_Interval
  <2> HIDE DEF D
  <2> QED BY <2>2, FS_Subset
<1>2. \A i \in D : v[i] = 0
  OBVIOUS
<1> HIDE DEF v, D
<1>3. SumFunctionOnSet(v, D) = 0
  BY <1>1, <1>2, SumZero
<1> QED BY <1>3 DEF LyapunovV, v, D

LEMMA DefaultStep ==
    ASSUME LoopInv, SampleInv, StreakInv, IdleInv, DefaultInv, [TraceNext]_traceLoopVars
    PROVE  DefaultInv'
<1>1. /\ Context /\ DrainInv /\ ~LockMode /\ heap \in [Event -> Nat]
      /\ processes \in Seq(ProcessRecord) /\ tick \in Nat /\ WarmupTicks \in Nat
      /\ VFields \cup DecisionFields \subseteq DOMAIN report
      /\ report.decision_count \in Nat
      /\ offline \in OfflineRecord /\ offline.waits \in Nat
  <2>1. /\ Context /\ DrainInv /\ ~LockMode /\ heap \in [Event -> Nat]
        /\ processes \in Seq(ProcessRecord) /\ tick \in Nat /\ WarmupTicks \in Nat
    BY ContextTypes, EventLoopAssumption, TraceLoopAssumption DEF LoopInv
  <2>2. /\ VFields \cup DecisionFields \subseteq DOMAIN report
        /\ report.decision_count \in Nat
    BY DEF StreakInv, StreaksSound, DecisionFields, ChoiceFields, SampleInv, SampleFields
  <2>3. offline \in OfflineRecord /\ offline.waits \in Nat
    BY DEF LoopInv, OfflineInv, OfflineRecord
  <2> QED BY <2>1, <2>2, <2>3
\* A step that changes none of the figures.
<1>2. ASSUME report'.decision_count = report.decision_count,
             report'.sum_lyapunov_v = report.sum_lyapunov_v,
             report'.max_lyapunov_v = report.max_lyapunov_v,
             report.decision_count = 0 /\ offline'.waits > 0 =>
                 MetricsPending' /\ last' # NoPid /\ heap'[ScheduleEvent] = 0
      PROVE  DefaultInv'
  BY <1>2 DEF DefaultInv
<1>3. CASE UNCHANGED <<report, offline, last, heap, pc>>
  BY <1>2, <1>3 DEF DefaultInv, MetricsPending
\* A handler that leaves the Schedule event and the figures alone.
<1>4. ASSUME NEW e \in Event, NEW type, Pop(e, type), type # "Schedule",
             heap' = Popped(heap, e), UNCHANGED <<report, offline, last>>, MetricsPending'
      PROVE  DefaultInv'
  <2>1. heap'[ScheduleEvent] = heap[ScheduleEvent]
    BY <1>1, <1>4, PoppedHeap, EventTyped, TypesOfPipelineEvents
  <2> QED BY <1>2, <1>4, <2>1 DEF DefaultInv
<1>5. CASE BeginTraceTick
  <2>1. pc = "tick" /\ UNCHANGED <<report, offline>>
    BY <1>5 DEF BeginTraceTick, reportVars
  <2> QED BY <1>2, <2>1 DEF DefaultInv, MetricsPending
<1>6. ASSUME NEW e \in Event, DecideInMode(e) PROVE DefaultInv'
  <2>1. Pop(e, "Schedule") /\ UNCHANGED <<report, offline>>
    BY <1>1, <1>6 DEF DecideInMode, Schedule
  <2>2. e = ScheduleEvent
    BY <2>1 DEF Pop, Event, ScheduleEvent
  <2>3. ~(heap[ScheduleEvent] = 0)
    BY <1>1, <2>1, <2>2, PoppedHeap
  <2> QED BY <1>2, <2>1, <2>3 DEF DefaultInv
<1>7. ASSUME NEW e \in Event, ServeAndRecord(e) PROVE DefaultInv'
  <2>1. /\ HandleService(e) /\ Pop(e, "Service") /\ pc = "drain" /\ last' = last
        /\ heap' = Popped(heap, e)
    BY <1>7 DEF ServeAndRecord, HandleService, Pop
  <2>2. heap[ScheduleEvent] = 0 /\ heap'[ScheduleEvent] = heap[ScheduleEvent]
    BY <1>1, <2>1, ScheduledBefore, PoppedHeap, EventTyped, TypesOfPipelineEvents
  <2>3. last # NoPid
    <3>1. e.pid \in Services /\ Known(e.pid) /\ processes[indexOf[e.pid]].queue_length > 0
      BY <2>1, EventTyped DEF HandleService, Serviceable, Pop
    <3>2. indexOf[e.pid] \in DOMAIN processes
      BY <1>1, <3>1 DEF Context, RegistryInv, RegistryConsistent
    <3> QED BY <2>1, <2>2, <3>1, <3>2 DEF IdleInv
  <2>4. MetricsPending'
    BY <1>1, <2>1, HandlerDrain
  <2>5. ASSUME NEW w, report' = OM!RecordWaitingTime(report, w)
        PROVE  \A f \in VFields \cup DecisionFields : report'[f] = report[f]
    <3>1. (VFields \cup DecisionFields) \cap WaitFields = {}
      BY DEF VFields, DecisionFields, StreakFields, ChoiceFields, WaitFields
    <3> QED BY <1>1, <2>5, <3>1, FieldsKept
  <2>6. \A f \in VFields \cup DecisionFields : report'[f] = report[f]
    BY <1>7, <2>5 DEF ServeAndRecord
  <2>7. /\ report'.decision_count = report.decision_count
        /\ report'.sum_lyapunov_v = report.sum_lyapunov_v
        /\ report'.max_lyapunov_v = report.max_lyapunov_v
    BY <2>6 DEF VFields, DecisionFields, ChoiceFields
  <2> QED BY <1>2, <2>1, <2>2, <2>3, <2>4, <2>7
<1>8. ASSUME NEW e \in Event, MeasureAndRecord(e) PROVE DefaultInv'
  <2>1. HandleMetrics(e) /\ Pop(e, "Metrics") /\ pc = "drain" /\ last' = last
    BY <1>8 DEF MeasureAndRecord, HandleMetrics, Pop
  <2>2. CASE ~Recording
    <3>1. UNCHANGED <<report, offline>>
      BY <1>8, <2>1, <2>2 DEF MeasureAndRecord, HandleMetrics
    <3>2. offline.waits = 0
      BY <1>1, <2>1, <2>2 DEF LoopInv, OfflineInv, Started, Recording
    <3> QED BY <1>2, <3>1, <3>2 DEF DefaultInv
  <2>3. CASE Recording
    <3>1. PICK v \in Int : v = LyapunovV(processes)
      BY <1>1, LyapunovTyped
    <3>2. online'.current_v = v
      BY <2>1, <3>1 DEF HandleMetrics, OnlineUpdate
    <3>3. report' = Recorded(report, v, online'.drift)
      BY <1>8, <2>3, <3>2 DEF MeasureAndRecord
    <3>4. /\ report'.sum_lyapunov_v = report.sum_lyapunov_v + v
          /\ report'.max_lyapunov_v = OM!Larger(report.max_lyapunov_v, v)
      BY <1>1, <3>3, RecordedPotential
    <3>5. report'.decision_count = report.decision_count + (IF last = NoPid THEN 0 ELSE 1)
      BY <3>3, RecordedDecision DEF StreakInv
    <3>6. offline'.waits = offline.waits
      <4>1. offline' = RecordDecision(offline, last) /\ last \in Nat
        BY <1>1, <2>1, <2>3, ContextTypes DEF HandleMetrics
      <4> QED BY <1>1, <4>1, RecordDecisionChanges
    <3> SUFFICES ASSUME report'.decision_count = 0 PROVE DefaultInv'
      BY DEF DefaultInv
    <3>7. last = NoPid /\ report.decision_count = 0
      BY <1>1, <3>5
    <3>8. heap[ScheduleEvent] = 0
      BY <1>1, <2>1, ScheduledBefore
    <3>9. v = 0
      BY <1>1, <2>1, <3>1, <3>7, <3>8, PotentialZero DEF IdleInv
    <3>10. report.sum_lyapunov_v = 0 /\ report.max_lyapunov_v = 0 /\ ~(offline.waits > 0)
      BY <3>7 DEF DefaultInv
    <3>11. report'.sum_lyapunov_v = 0 /\ report'.max_lyapunov_v = 0
      BY <3>4, <3>9, <3>10 DEF OM!Larger
    <3> QED BY <3>6, <3>10, <3>11 DEF DefaultInv
  <2> QED BY <2>2, <2>3
<1>9. CASE EndTick /\ UNCHANGED reportVars
  <2>1. ~MetricsPending /\ UNCHANGED <<report, offline>>
    BY <1>9, EndTickDrain DEF EndTick, reportVars
  <2> QED BY <1>2, <2>1 DEF DefaultInv
<1>10. ASSUME NEW e \in Event, HandleArrival(e) \/ IgnoreLockEvent(e) \/ IgnoreService(e),
              UNCHANGED reportVars
       PROVE  DefaultInv'
  <2>1. PICK type \in {"Arrival", "LockAcquire", "LockRelease", "Service"} : Pop(e, type)
    BY <1>10 DEF HandleArrival, IgnoreLockEvent, IgnoreService
  <2>2. heap' = Popped(heap, e) /\ UNCHANGED <<report, offline, last>>
    BY <1>10 DEF HandleArrival, IgnoreLockEvent, IgnoreService, reportVars
  <2>3. MetricsPending'
    BY <1>1, <1>10, HandlerDrain
  <2> QED BY <1>4, <2>1, <2>2, <2>3
<1>11. CASE Refuse \/ Load \/ Stopped \/ UNCHANGED traceLoopVars
  BY <1>3, <1>11 DEF Refuse, Load, Stopped, traceLoopVars, reportVars, vars, loopVars
<1> QED BY <1>5, <1>6, <1>7, <1>8, <1>9, <1>10, <1>11 DEF TraceNext, OtherTraceStep

(***************************************************************************)
(* The guards and the clamp of compute() hide nothing, in every state of a *)
(* replay: without a valid decision every V(t) was zero, after the warm-up *)
(* Jain's index is left at 0 exactly when no decision was recorded, above  *)
(* that it lies in its range, and the variance is not negative.            *)
(***************************************************************************)
THEOREM NothingHidden == TraceSpec => []DefaultsHideNothing
<1>1. TraceInit => /\ CarriedInv /\ StreakInv /\ SampleInv /\ QueueInv
                   /\ ServedInv /\ IdleInv /\ DefaultInv
  BY CarriedStart, StreakStart, SampleStart, QueueStart, ServedStart, DefaultStart
<1>2. (/\ LoopInv /\ LoopInv' /\ ReplayInv /\ ReplayInv' /\ CursorInv /\ ArrivalInv /\ CarriedInv
       /\ StreakInv /\ SampleInv /\ QueueInv /\ ServedInv /\ IdleInv /\ DefaultInv /\ RegistryInv
       /\ [TraceNext]_traceLoopVars)
          => /\ CarriedInv' /\ StreakInv' /\ SampleInv' /\ QueueInv'
             /\ ServedInv' /\ IdleInv' /\ DefaultInv'
  <2> SUFFICES ASSUME LoopInv, LoopInv', ReplayInv, ReplayInv', CursorInv, ArrivalInv, CarriedInv,
                      StreakInv, SampleInv, QueueInv, ServedInv, IdleInv, DefaultInv, RegistryInv,
                      [TraceNext]_traceLoopVars
               PROVE  /\ CarriedInv' /\ StreakInv' /\ SampleInv' /\ QueueInv'
                      /\ ServedInv' /\ IdleInv' /\ DefaultInv'
    OBVIOUS
  <2>1. CarriedInv'
    BY CarriedStep DEF LoopInv
  <2>2. StreakInv'
    BY StreakStep DEF RegistryInv
  <2>3. SampleInv'
    BY SampleStep DEF LoopInv
  <2>4. QueueInv'
    BY QueueStep
  <2>5. ServedInv' /\ IdleInv' /\ DefaultInv'
    BY ServedStep, IdleStep, DefaultStep
  <2> QED BY <2>1, <2>2, <2>3, <2>4, <2>5
<1>3. LoopInv /\ CarriedInv /\ StreakInv /\ QueueInv /\ ServedInv /\ DefaultInv
          => DefaultsHideNothing
  <2> SUFFICES ASSUME LoopInv, CarriedInv, StreakInv, QueueInv, ServedInv, DefaultInv
               PROVE  DefaultsHideNothing
    OBVIOUS
  <2> DEFINE jain == OM!JainIndex(processes)
             jobs == {processes[i].completed_jobs : i \in DOMAIN processes}
             var  == OM!QueueVariance(report)
             rate == OM!TotalThroughput(processes, Ticks)
             count == report.decision_count
             total == OM!Completed(processes)
  <2>1. /\ jain[1] = 0 <=> total = 0
        /\ jain[1] > 0 => /\ jain[1] <= jain[2] /\ jain[2] <= Len(processes) * jain[1]
                          /\ jain[1] = jain[2] <=> Cardinality(jobs) = 1
    <3>1. processes \in Seq(ProcessRecord) /\ processes # <<>>
      BY ContextTypes, OnlineMetricsAssumption DEF LoopInv, CarriedInv
    <3> QED BY <3>1, JainInRange
  <2>2. var[2] * var[2] <= var[1] * var[3]
    BY QueueVarianceNatural DEF QueueInv
  <2>3. count \in Nat
    BY DEF StreakInv, StreaksSound, DecisionFields, ChoiceFields
  <2>4. OM!AvgLyapunovV(report, Ticks)[1] = report.sum_lyapunov_v
    BY <2>3 DEF OM!AvgLyapunovV, DefaultInv
  <2>5. count = 0 => report.max_lyapunov_v = 0
    BY DEF DefaultInv
  <2>6. ASSUME BetweenTicks, tick > WarmupTicks
        PROVE  (jain[1] = 0 <=> count = 0) /\ count <= rate[1]
    <3>1. total = TotalOf("completed_jobs") /\ rate[1] = total
      BY SameSum DEF OM!TotalThroughput, OM!Completed, TotalOf, SumOver, SumFunction
    <3>2. offline.waits = total /\ total \in Nat /\ count <= offline.waits
      BY <2>6, <3>1, ContextTypes, TotalSums
         DEF LoopInv, OfflineInv, OfflineRecord, ServedInv, Started, TotalOf, Counters
    <3>3. count = 0 => ~(offline.waits > 0)
      BY <2>6 DEF DefaultInv, MetricsPending, BetweenTicks
    <3> HIDE DEF jain, total, rate, count
    <3> QED BY <2>1, <2>3, <3>1, <3>2, <3>3
  <2> HIDE DEF jain, jobs, var, rate, count
  <2> QED BY <2>1, <2>2, <2>4, <2>5, <2>6, Zenon
          DEF DefaultsHideNothing, jain, jobs, var, rate, count
<1>4. TraceSpec => [](RegistryInv /\ LoopInv /\ ReplayInv)
  BY ReplayInvariant, TraceContext, PTL
<1> QED BY <1>1, <1>2, <1>3, <1>4, ArrivalInvariant, PTL DEF TraceSpec

-----------------------------------------------------------------------------
(* The generated topologies.                                               *)

LEMMA FanTyped == Fan \in Nat \ {0}
BY TraceLoopAssumption

LEMMA CallFields ==
    \A t, trace, rpc, source, destination :
        LET c == Call(t, trace, rpc, source, destination)
        IN  /\ c.tick = t /\ c.trace_id = trace /\ c.rpc_id = rpc
            /\ c.source_service = source /\ c.destination_service = destination
            /\ c.trace_flags = 0 /\ c.type = 1
BY DEF Call

LEMMA LockStepFields ==
    \A t, trace, rpc, service, type :
        LET c == LockStep(t, trace, rpc, service, type)
        IN  /\ c.tick = t /\ c.trace_id = trace /\ c.rpc_id = rpc
            /\ c.source_service = service /\ c.destination_service = service
            /\ c.trace_flags = 99 /\ c.type = type
BY DEF LockStep

\* The calls of a trace whose caller is not external.
LEMMA GraphIs ==
    ASSUME NEW rs
    PROVE  ServiceGraph(rs) =
               {<<rs[k].source_service, rs[k].destination_service>> :
                   k \in {j \in DOMAIN rs : rs[j].source_service # 0}}
BY DEF ServiceGraph, Range

LEMMA FanOutGraph == ServiceGraph(FanOut(0, 1, Fan)) = {}
<1> DEFINE rs == FanOut(0, 1, Fan)
<1>1. DOMAIN rs = 1 .. Fan /\ \A k \in 1 .. Fan : rs[k] = Call(0, 1, k, 0, k)
  BY DEF FanOut
<1> HIDE DEF rs
<1>2. \A k \in DOMAIN rs : rs[k].source_service = 0
  BY <1>1, CallFields
<1> QED BY <1>2, GraphIs DEF rs

LEMMA FanInGraph == ServiceGraph(FanIn(0, 1, Fan)) = {<<i, 0>> : i \in 1 .. Fan}
<1> DEFINE rs == FanIn(0, 1, Fan)
<1>1. DOMAIN rs = 1 .. Fan /\ \A k \in 1 .. Fan : rs[k] = Call(0, 1, k, k, 0)
  BY DEF FanIn
<1> HIDE DEF rs
<1>2. \A k \in 1 .. Fan : rs[k].source_service = k /\ rs[k].destination_service = 0
  BY <1>1, CallFields
<1>3. {j \in DOMAIN rs : rs[j].source_service # 0} = 1 .. Fan
  BY <1>1, <1>2
<1>4. ServiceGraph(rs) = {<<rs[k].source_service, rs[k].destination_service>> : k \in 1 .. Fan}
  BY <1>3, GraphIs
<1> QED BY <1>2, <1>4 DEF rs

LEMMA ChainGraph == ServiceGraph(LongChain(0, 1)) = {<<i, i + 1>> : i \in 1 .. 4}
<1> DEFINE rs == LongChain(0, 1)
<1>1. DOMAIN rs = 1 .. 5 /\ \A k \in 1 .. 5 : rs[k] = Call(0, 1, k, k - 1, k)
  BY DEF LongChain
<1> HIDE DEF rs
<1>2. \A k \in 1 .. 5 : rs[k].source_service = k - 1 /\ rs[k].destination_service = k
  BY <1>1, CallFields
<1>3. {j \in DOMAIN rs : rs[j].source_service # 0} = 2 .. 5
  BY <1>1, <1>2
<1>4. ServiceGraph(rs) = {<<rs[k].source_service, rs[k].destination_service>> : k \in 2 .. 5}
  BY <1>3, GraphIs
<1>5. ServiceGraph(rs) = {<<k - 1, k>> : k \in 2 .. 5}
  BY <1>2, <1>4
<1>6. \A i \in 1 .. 4 : i + 1 \in 2 .. 5 /\ (i + 1) - 1 = i
  OBVIOUS
<1>7. \A k \in 2 .. 5 : k - 1 \in 1 .. 4 /\ (k - 1) + 1 = k
  OBVIOUS
<1> QED BY <1>5, <1>6, <1>7, Zenon DEF rs

LEMMA DiamondGraph == ServiceGraph(Diamond(0, 1)) = {<<1, 3>>, <<2, 3>>}
<1> DEFINE rs == Diamond(0, 1)
<1>1. /\ DOMAIN rs = {1, 2, 3, 4}
      /\ rs[1] = Call(0, 1, 1, 0, 1) /\ rs[2] = Call(0, 1, 2, 0, 2)
      /\ rs[3] = Call(0, 1, 3, 1, 3) /\ rs[4] = Call(0, 1, 4, 2, 3)
  <2>1. 1 .. 4 = {1, 2, 3, 4}
    OBVIOUS
  <2> QED BY <2>1 DEF Diamond
<1> HIDE DEF rs
<1>2. /\ rs[1].source_service = 0 /\ rs[2].source_service = 0
      /\ rs[3].source_service = 1 /\ rs[3].destination_service = 3
      /\ rs[4].source_service = 2 /\ rs[4].destination_service = 3
  BY <1>1, CallFields
<1>3. {j \in DOMAIN rs : rs[j].source_service # 0} = {3, 4}
  BY <1>1, <1>2
<1>4. ServiceGraph(rs) = {<<rs[k].source_service, rs[k].destination_service>> : k \in {3, 4}}
  BY <1>3, GraphIs
<1> QED BY <1>2, <1>4 DEF rs

\* Calls made in parallel are chained.
LEMMA FanOutDag == TraceDag(FanOut(0, 1, Fan), 1) = {<<i, i + 1>> : i \in 1 .. Fan - 1}
<1> DEFINE rs == FanOut(0, 1, Fan)
           pairs == {q \in Consecutive(OfTrace(rs, 1)) : rs[q[1]].rpc_id # rs[q[2]].rpc_id}
<1>1. DOMAIN rs = 1 .. Fan /\ \A k \in 1 .. Fan : rs[k] = Call(0, 1, k, 0, k)
  BY DEF FanOut
<1> HIDE DEF rs
<1>2. \A k \in 1 .. Fan : rs[k].rpc_id = k /\ rs[k].trace_id = 1
  BY <1>1, CallFields
<1>3. OfTrace(rs, 1) = 1 .. Fan /\ Fan \in Nat
  BY <1>1, <1>2, FanTyped DEF OfTrace
<1>4. ASSUME NEW i \in 1 .. Fan - 1 PROVE <<i, i + 1>> \in pairs
  <2>1. i \in 1 .. Fan /\ i + 1 \in 1 .. Fan /\ i # i + 1
    BY <1>3
  <2>2. \A m \in 1 .. Fan : m <= i \/ i + 1 <= m
    OBVIOUS
  <2>3. <<i, i + 1>> \in Consecutive(1 .. Fan)
    BY <2>1, <2>2 DEF Consecutive
  <2> QED BY <1>2, <1>3, <2>1, <2>3
<1>5. ASSUME NEW q \in pairs
      PROVE  /\ q[1] \in 1 .. Fan - 1 /\ q = <<q[1], q[1] + 1>>
             /\ rs[q[1]].rpc_id = q[1] /\ rs[q[2]].rpc_id = q[1] + 1
  <2>1. /\ q \in (1 .. Fan) \X (1 .. Fan) /\ q[1] < q[2]
        /\ \A m \in 1 .. Fan : m <= q[1] \/ q[2] <= m
    BY <1>3 DEF Consecutive
  <2>2. PICK i \in 1 .. Fan, j \in 1 .. Fan : q = <<i, j>>
    BY <2>1
  <2>3. i < j /\ i + 1 \in 1 .. Fan
    BY <1>3, <2>1, <2>2
  <2>4. j = i + 1
    BY <2>1, <2>2, <2>3
  <2> QED BY <1>2, <1>3, <2>2, <2>3, <2>4
<1>6. TraceDag(rs, 1) = {<<rs[p[1]].rpc_id, rs[p[2]].rpc_id>> : p \in pairs}
  BY DEF TraceDag
<1> HIDE DEF pairs
<1>7. ASSUME NEW i \in 1 .. Fan - 1 PROVE <<i, i + 1>> \in TraceDag(rs, 1)
  <2> DEFINE p == <<i, i + 1>>
  <2>1. p \in pairs /\ p[1] = i
    BY <1>4
  <2>2. <<rs[p[1]].rpc_id, rs[p[2]].rpc_id>> = <<i, i + 1>>
    BY <1>5, <2>1
  <2> HIDE DEF p
  <2> QED BY <1>6, <2>1, <2>2
<1>8. ASSUME NEW x \in TraceDag(rs, 1) PROVE \E i \in 1 .. Fan - 1 : x = <<i, i + 1>>
  <2>1. PICK p \in pairs : x = <<rs[p[1]].rpc_id, rs[p[2]].rpc_id>>
    BY <1>6
  <2> QED BY <1>5, <2>1
<1> QED BY <1>7, <1>8 DEF rs

Convoy == LockConvoy(0, 1, Fan)

\* The three records of service i: it acquires the lock, works and releases.
LEMMA ConvoyRecords ==
    /\ DOMAIN Convoy = 1 .. 3 * Fan /\ Len(Convoy) = 3 * Fan /\ Len(Convoy) \in Nat
    /\ \A i \in 1 .. Fan :
           /\ /\ Convoy[3 * i - 2].type = 2 /\ Convoy[3 * i - 2].rpc_id = i
              /\ Convoy[3 * i - 2].trace_flags = 99 /\ Convoy[3 * i - 2].destination_service = i
           /\ Convoy[3 * i - 1].type = 1 /\ Convoy[3 * i - 1].destination_service = i
           /\ /\ Convoy[3 * i].type = 3 /\ Convoy[3 * i].rpc_id = i * 1000
              /\ Convoy[3 * i].trace_flags = 99 /\ Convoy[3 * i].destination_service = i
<1>1. Fan \in Nat
  BY FanTyped
<1>2. DOMAIN Convoy = 1 .. 3 * Fan /\ Len(Convoy) = 3 * Fan /\ Len(Convoy) \in Nat
  <2>1. DOMAIN Convoy = 1 .. 3 * Fan
    BY DEF Convoy, LockConvoy
  <2>2. PICK n \in Nat : n = 3 * Fan
    BY <1>1
  <2>3. Convoy \in Seq({Convoy[k] : k \in 1 .. n})
    <3>1. Convoy = [k \in 1 .. n |-> Convoy[k]]
      BY <2>2 DEF Convoy, LockConvoy
    <3> HIDE DEF Convoy
    <3>2. Convoy \in [1 .. n -> {Convoy[k] : k \in 1 .. n}]
      BY <3>1
    <3> QED BY <3>2
  <2>4. Len(Convoy) = n
    BY <2>1, <2>2, <2>3
  <2> QED BY <2>1, <2>2, <2>4
<1> DEFINE w(i) == [Call(0, 1, i * 100, i, i) EXCEPT !.latency = 50]
           a(i) == LockStep(0, 1, i, i, 2)
           b(i) == LockStep(0 + 50, 1, i * 1000, i, 3)
<1>3. \A k \in 1 .. 3 * Fan :
          Convoy[k] = CASE k % 3 = 1 -> a((k + 2) \div 3)
                        [] k % 3 = 2 -> w((k + 2) \div 3)
                        [] k % 3 = 0 -> b((k + 2) \div 3)
  BY Zenon DEF Convoy, LockConvoy
<1>4. \A i : /\ w(i).type = 1 /\ w(i).destination_service = i
             /\ a(i).type = 2 /\ a(i).rpc_id = i
             /\ a(i).trace_flags = 99 /\ a(i).destination_service = i
             /\ b(i).type = 3 /\ b(i).rpc_id = i * 1000
             /\ b(i).trace_flags = 99 /\ b(i).destination_service = i
  <2>1. \A i : w(i).type = 1 /\ w(i).destination_service = i
    BY DEF Call
  <2> HIDE DEF w
  <2>2. \A i : /\ a(i).type = 2 /\ a(i).rpc_id = i
               /\ a(i).trace_flags = 99 /\ a(i).destination_service = i
    BY LockStepFields
  <2>3. \A i : /\ b(i).type = 3 /\ b(i).rpc_id = i * 1000
               /\ b(i).trace_flags = 99 /\ b(i).destination_service = i
    <3> SUFFICES ASSUME NEW i
                 PROVE  /\ b(i).type = 3 /\ b(i).rpc_id = i * 1000
                        /\ b(i).trace_flags = 99 /\ b(i).destination_service = i
      OBVIOUS
    <3> DEFINE rpc == i * 1000
    <3> HIDE DEF rpc
    <3>1. b(i) = LockStep(0 + 50, 1, rpc, i, 3)
      BY DEF rpc
    <3> HIDE DEF b
    <3> QED BY <3>1, LockStepFields DEF rpc
  <2> HIDE DEF a, b
  <2> SUFFICES ASSUME NEW i
               PROVE  /\ w(i).type = 1 /\ w(i).destination_service = i
                      /\ a(i).type = 2 /\ a(i).rpc_id = i
                      /\ a(i).trace_flags = 99 /\ a(i).destination_service = i
                      /\ b(i).type = 3 /\ b(i).rpc_id = i * 1000
                      /\ b(i).trace_flags = 99 /\ b(i).destination_service = i
    OBVIOUS
  <2>4. w(i).type = 1 /\ w(i).destination_service = i
    BY <2>1
  <2>5. /\ a(i).type = 2 /\ a(i).rpc_id = i
        /\ a(i).trace_flags = 99 /\ a(i).destination_service = i
    BY <2>2
  <2>6. /\ b(i).type = 3 /\ b(i).rpc_id = i * 1000
        /\ b(i).trace_flags = 99 /\ b(i).destination_service = i
    BY <2>3
  <2> QED BY <2>4, <2>5, <2>6
<1> HIDE DEF w, a, b
<1>5. ASSUME NEW i \in 1 .. Fan
      PROVE  Convoy[3 * i - 2] = a(i) /\ Convoy[3 * i - 1] = w(i) /\ Convoy[3 * i] = b(i)
  <2> DEFINE x == 3 * i - 2
             y == 3 * i - 1
             z == 3 * i
  <2>1. /\ x \in 1 .. 3 * Fan /\ x % 3 = 1 /\ (x + 2) \div 3 = i
        /\ y \in 1 .. 3 * Fan /\ y % 3 = 2 /\ (y + 2) \div 3 = i
        /\ z \in 1 .. 3 * Fan /\ z % 3 = 0 /\ (z + 2) \div 3 = i
    BY <1>1
  <2> HIDE DEF x, y, z
  <2>2. Convoy[x] = a(i)
    BY <1>3, <2>1
  <2>3. Convoy[y] = w(i)
    BY <1>3, <2>1
  <2>4. Convoy[z] = b(i)
    BY <1>3, <2>1
  <2> QED BY <2>2, <2>3, <2>4 DEF x, y, z
<1> QED BY <1>2, <1>4, <1>5

\* There are no others.
LEMMA ConvoyPositions ==
    \A k \in 1 .. 3 * Fan : \E i \in 1 .. Fan : k = 3 * i - 2 \/ k = 3 * i - 1 \/ k = 3 * i
<1> SUFFICES ASSUME NEW k \in 1 .. 3 * Fan
             PROVE  \E i \in 1 .. Fan : k = 3 * i - 2 \/ k = 3 * i - 1 \/ k = 3 * i
  OBVIOUS
<1>1. Fan \in Nat
  BY FanTyped
<1> DEFINE i == (k + 2) \div 3
<1>2. i \in 1 .. Fan /\ (k = 3 * i - 2 \/ k = 3 * i - 1 \/ k = 3 * i)
  BY <1>1
<1> QED BY <1>2

LEMMA ConvoyLocks == LockGraph(Convoy) = {99} \X (1 .. Fan)
<1> DEFINE cs == Convoy
<1>1. LockGraph(cs) = {<<cs[k].trace_flags, cs[k].destination_service>> :
                          k \in {j \in DOMAIN cs : cs[j].type \in {2, 3}}}
  BY DEF LockGraph, Range
<1>2. Fan \in Nat /\ DOMAIN cs = 1 .. 3 * Fan
  BY FanTyped, ConvoyRecords
<1>3. ASSUME NEW i \in 1 .. Fan PROVE <<99, i>> \in LockGraph(cs)
  <2>1. /\ 3 * i \in DOMAIN cs /\ cs[3 * i].type = 3
        /\ cs[3 * i].trace_flags = 99 /\ cs[3 * i].destination_service = i
    BY <1>2, ConvoyRecords
  <2> QED BY <1>1, <2>1
<1>4. ASSUME NEW x \in LockGraph(cs) PROVE x \in {99} \X (1 .. Fan)
  <2>1. PICK k \in DOMAIN cs : /\ cs[k].type \in {2, 3}
                               /\ x = <<cs[k].trace_flags, cs[k].destination_service>>
    BY <1>1
  <2>2. PICK i \in 1 .. Fan : k = 3 * i - 2 \/ k = 3 * i - 1 \/ k = 3 * i
    BY <1>2, <2>1, ConvoyPositions
  <2>3. cs[k].trace_flags = 99 /\ cs[k].destination_service = i
    BY <2>1, <2>2, ConvoyRecords
  <2> QED BY <2>1, <2>3
<1> HIDE DEF cs
<1> QED BY <1>3, <1>4 DEF cs

LEMMA ConvoyArrivals == \A i \in 1 .. Fan : ArrivalsOf(Convoy, i) = 1
<1> SUFFICES ASSUME NEW i \in 1 .. Fan PROVE ArrivalsOf(Convoy, i) = 1
  OBVIOUS
<1> DEFINE cs == Convoy
           S == {k \in DOMAIN cs : cs[k].type = 1 /\ cs[k].destination_service = i}
<1>1. Fan \in Nat /\ DOMAIN cs = 1 .. 3 * Fan
  BY FanTyped, ConvoyRecords
<1>2. 3 * i - 1 \in S
  BY <1>1, ConvoyRecords
<1>3. ASSUME NEW k \in S PROVE k = 3 * i - 1
  <2>1. k \in 1 .. 3 * Fan /\ cs[k].type = 1 /\ cs[k].destination_service = i
    BY <1>1
  <2>2. PICK j \in 1 .. Fan : k = 3 * j - 2 \/ k = 3 * j - 1 \/ k = 3 * j
    BY <2>1, ConvoyPositions
  <2>3. cs[k].destination_service = j /\ (k = 3 * j - 1 \/ cs[k].type # 1)
    BY <2>2, ConvoyRecords
  <2> QED BY <2>1, <2>3
<1> HIDE DEF S
<1>4. S = {3 * i - 1}
  BY <1>2, <1>3
<1>5. Cardinality(S) = 1
  BY <1>4, FS_Singleton
<1> QED BY <1>5 DEF ArrivalsOf, S

\* What is known of the ledger after k records of the convoy.
ConvoyLedger(s, k) ==
    /\ {"locks", "orphans", "past_end"} \subseteq DOMAIN s
    /\ \A r \in DOMAIN s.locks : r \in Nat /\ 3 * r <= k + 2
    /\ s.orphans = {3 * i : i \in {j \in 1 .. Fan : 3 * j <= k}}
    /\ k >= 3 => s.past_end

\* A service acquires the lock for the rpc i.
LEMMA ConvoyAcquire ==
    ASSUME NEW s, NEW i \in 1 .. Fan, ConvoyLedger(s, 3 * i - 3)
    PROVE  ConvoyLedger(Noted(Convoy, s, 3 * i - 2), 3 * i - 2)
<1>1. Fan \in Nat /\ i \in Nat
  BY FanTyped
<1>2. PICK rec : rec = Convoy[3 * i - 2]
  OBVIOUS
<1>3. rec.type = 2 /\ rec.rpc_id = i
  BY <1>2, ConvoyRecords
<1> DEFINE X == HeldBy(s, i) \cup {rec.trace_flags}
           next == [s EXCEPT !.locks = WithLocks(s, i, X)]
<1>4. Noted(Convoy, s, 3 * i - 2) = next
  <2>1. PICK k : k = 3 * i - 2
    OBVIOUS
  <2>2. Noted(Convoy, s, k) = NoteAcquire(s, rec)
    <3>1. Convoy[k].type = 2 /\ 2 # 3 /\ rec = Convoy[k]
      BY <1>2, <1>3, <2>1
    <3> QED BY <3>1, Zenon DEF Noted
  <2>3. NoteAcquire(s, rec) = next
    BY <1>3, Zenon DEF NoteAcquire
  <2> QED BY <2>1, <2>2, <2>3
<1>5. /\ {"locks", "orphans", "past_end"} \subseteq DOMAIN s
      /\ \A r \in DOMAIN s.locks : r \in Nat /\ 3 * r <= 3 * i - 3 + 2
      /\ s.orphans = {3 * j : j \in {j \in 1 .. Fan : 3 * j <= 3 * i - 3}}
      /\ 3 * i - 3 >= 3 => s.past_end
  BY DEF ConvoyLedger
<1>6. OnlyLocksSet(next, s, i, X)
  BY <1>5, LocksAfter
<1> HIDE DEF next, X
<1>7. /\ DOMAIN next = DOMAIN s /\ DOMAIN next.locks = DOMAIN s.locks \cup {i}
      /\ next.orphans = s.orphans /\ next.past_end = s.past_end
  BY <1>5, <1>6 DEF OnlyLocksSet
<1>8. {j \in 1 .. Fan : 3 * j <= 3 * i - 3} = {j \in 1 .. Fan : 3 * j <= 3 * i - 2}
  BY <1>1
<1>9. \A r \in DOMAIN next.locks : r \in Nat /\ 3 * r <= 3 * i - 2 + 2
  BY <1>1, <1>5, <1>7
<1>10. 3 * i - 2 >= 3 => next.past_end
  BY <1>1, <1>5, <1>7
<1>11. next.orphans = {3 * j : j \in {j \in 1 .. Fan : 3 * j <= 3 * i - 2}}
  BY <1>5, <1>7, <1>8
<1>12. ConvoyLedger(next, 3 * i - 2)
  BY <1>5, <1>7, <1>9, <1>10, <1>11 DEF ConvoyLedger
<1> QED BY <1>4, <1>12

\* The work itself touches no lock.
LEMMA ConvoyWork ==
    ASSUME NEW s, NEW i \in 1 .. Fan, ConvoyLedger(s, 3 * i - 2)
    PROVE  ConvoyLedger(Noted(Convoy, s, 3 * i - 1), 3 * i - 1)
<1>1. Fan \in Nat /\ i \in Nat
  BY FanTyped
<1>2. Convoy[3 * i - 1].type = 1
  BY ConvoyRecords
<1>3. Noted(Convoy, s, 3 * i - 1) = s
  <2>1. Convoy[3 * i - 1].type # 2 /\ Convoy[3 * i - 1].type # 3
    BY <1>2
  <2> QED BY <2>1, Zenon DEF Noted
<1>4. /\ {"locks", "orphans", "past_end"} \subseteq DOMAIN s
      /\ \A r \in DOMAIN s.locks : r \in Nat /\ 3 * r <= 3 * i - 2 + 2
      /\ s.orphans = {3 * j : j \in {j \in 1 .. Fan : 3 * j <= 3 * i - 2}}
      /\ 3 * i - 2 >= 3 => s.past_end
  BY DEF ConvoyLedger
<1>5. {j \in 1 .. Fan : 3 * j <= 3 * i - 2} = {j \in 1 .. Fan : 3 * j <= 3 * i - 1}
  BY <1>1
<1>6. \A r \in DOMAIN s.locks : r \in Nat /\ 3 * r <= 3 * i - 1 + 2
  BY <1>1, <1>4
<1>7. 3 * i - 1 >= 3 => s.past_end
  BY <1>1, <1>4
<1>8. s.orphans = {3 * j : j \in {j \in 1 .. Fan : 3 * j <= 3 * i - 1}}
  BY <1>4, <1>5
<1>9. ConvoyLedger(s, 3 * i - 1)
  BY <1>4, <1>6, <1>7, <1>8 DEF ConvoyLedger
<1> QED BY <1>3, <1>9

\* The release is of the rpc i * 1000, which no acquire so far has named.
LEMMA ConvoyRelease ==
    ASSUME NEW s, NEW i \in 1 .. Fan, ConvoyLedger(s, 3 * i - 1)
    PROVE  ConvoyLedger(Noted(Convoy, s, 3 * i), 3 * i)
<1>1. Fan \in Nat /\ i \in Nat \ {0}
  BY FanTyped
<1>2. PICK rec : rec = Convoy[3 * i]
  OBVIOUS
<1>3. rec.type = 3 /\ rec.rpc_id = i * 1000
  BY <1>2, ConvoyRecords
<1>4. /\ {"locks", "orphans", "past_end"} \subseteq DOMAIN s
      /\ \A r \in DOMAIN s.locks : r \in Nat /\ 3 * r <= 3 * i - 1 + 2
      /\ s.orphans = {3 * j : j \in {j \in 1 .. Fan : 3 * j <= 3 * i - 1}}
  BY DEF ConvoyLedger
<1>5. rec.rpc_id \notin DOMAIN s.locks
  BY <1>1, <1>3, <1>4
<1> DEFINE next == [s EXCEPT !.orphans = @ \cup {3 * i},
                             !.past_end = @ \/ rec.rpc_id \notin DOMAIN s.locks]
<1>6. Noted(Convoy, s, 3 * i) = NoteRelease(s, rec, 3 * i)
  <2>1. Convoy[3 * i].type = 3 /\ 3 # 2
    BY <1>2, <1>3
  <2> QED BY <1>2, <2>1, Zenon DEF Noted
<1>7. NoteRelease(s, rec, 3 * i) = next
  BY <1>5, Zenon DEF NoteRelease, HeldBy
<1>8. /\ DOMAIN next = DOMAIN s /\ next.locks = s.locks
      /\ next.orphans = s.orphans \cup {3 * i} /\ next.past_end
  BY <1>4, <1>5
<1> HIDE DEF next
<1>9. {j \in 1 .. Fan : 3 * j <= 3 * i} = {j \in 1 .. Fan : 3 * j <= 3 * i - 1} \cup {i}
  BY <1>1
<1>10. next.orphans = {3 * j : j \in {j \in 1 .. Fan : 3 * j <= 3 * i}}
  BY <1>4, <1>8, <1>9
<1>11. \A r \in DOMAIN next.locks : r \in Nat /\ 3 * r <= 3 * i + 2
  BY <1>1, <1>4, <1>8
<1>12. ConvoyLedger(next, 3 * i)
  BY <1>4, <1>8, <1>10, <1>11 DEF ConvoyLedger
<1> QED BY <1>6, <1>7, <1>12

\* So every release of the convoy is an orphan, and reads past the end.
LEMMA ConvoyValidated ==
    /\ Validated(Convoy).orphans = {3 * i : i \in 1 .. Fan}
    /\ Validated(Convoy).past_end
<1>1. PICK n \in Nat : n = 3 * Fan /\ n >= 3
  BY FanTyped
<1>2. Len(Convoy) \in Nat /\ Len(Convoy) = n /\ DOMAIN Convoy = 1 .. Len(Convoy)
  BY <1>1, ConvoyRecords
<1>3. PICK ledger : /\ Validated(Convoy) = ledger[n]
                    /\ \A k \in 0 .. n : ledger[k] = IF k = 0 THEN EmptyLedger
                                                    ELSE Noted(Convoy, ledger[k - 1], k)
  BY <1>2, LedgerUnfolds
<1> DEFINE P == {k \in 0 .. n : ConvoyLedger(ledger[k], k)}
<1>4. 0 \in P
  <2>1. ledger[0] = EmptyLedger /\ 0 \in 0 .. n
    BY <1>3
  <2>2. {j \in 1 .. Fan : 3 * j <= 0} = {}
    BY FanTyped
  <2>3. ConvoyLedger(EmptyLedger, 0)
    BY <2>2 DEF ConvoyLedger, EmptyLedger
  <2> QED BY <2>1, <2>3
<1>5. ASSUME NEW k \in 0 + 1 .. n, k - 1 \in P PROVE k \in P
  <2>1. k \in 1 .. n /\ k \in 0 .. n /\ k # 0 /\ k \in 1 .. 3 * Fan
    BY <1>1
  <2>2. PICK i \in 1 .. Fan : k = 3 * i - 2 \/ k = 3 * i - 1 \/ k = 3 * i
    BY <2>1, ConvoyPositions
  <2>3. ConvoyLedger(ledger[k - 1], k - 1)
    BY <1>5
  <2>4. i \in Nat
    BY FanTyped
  <2>5. CASE k = 3 * i - 2
    <3>1. k - 1 = 3 * i - 3
      BY <2>4, <2>5
    <3>2. ConvoyLedger(Noted(Convoy, ledger[k - 1], k), k)
      BY <2>3, <2>5, <3>1, ConvoyAcquire
    <3> QED BY <1>3, <2>1, <3>2
  <2>6. CASE k = 3 * i - 1
    <3>1. k - 1 = 3 * i - 2
      BY <2>4, <2>6
    <3>2. ConvoyLedger(Noted(Convoy, ledger[k - 1], k), k)
      BY <2>3, <2>6, <3>1, ConvoyWork
    <3> QED BY <1>3, <2>1, <3>2
  <2>7. CASE k = 3 * i
    <3>1. k - 1 = 3 * i - 1
      BY <2>4, <2>7
    <3>2. ConvoyLedger(Noted(Convoy, ledger[k - 1], k), k)
      BY <2>3, <2>7, <3>1, ConvoyRelease
    <3> QED BY <1>3, <2>1, <3>2
  <2> QED BY <2>2, <2>5, <2>6, <2>7
<1>6. n \in P
  <2> HIDE DEF P
  <2>1. 0 \in Int /\ n \in Int /\ 0 <= n
    OBVIOUS
  <2>2. \A k \in 0 .. n : k \in P
    BY <1>4, <1>5, <2>1, IntervalInduction
  <2> QED BY <2>2
<1>7. ConvoyLedger(Validated(Convoy), n)
  BY <1>3, <1>6
<1>8. {j \in 1 .. Fan : 3 * j <= n} = 1 .. Fan
  BY <1>1, FanTyped
<1> QED BY <1>1, <1>7, <1>8 DEF ConvoyLedger

\* A trace in time order ends with its last tick.
LEMMA SortedSpan ==
    ASSUME NEW rs, WellFormed(rs), rs # <<>>,
           \A k \in 1 .. Len(rs), j \in 1 .. Len(rs) : j <= k => rs[j].tick <= rs[k].tick
    PROVE  Duration(rs) = Max({r.tick : r \in Range(rs)}) - Min({r.tick : r \in Range(rs)})
<1> DEFINE n == Len(rs)
           S == {r.tick : r \in Range(rs)}
<1>1. /\ n \in Nat /\ DOMAIN rs = 1 .. n /\ rs \in Seq(Range(rs))
      /\ \A k \in 1 .. n : rs[k].tick \in Nat
  BY EventLoopAssumption DEF WellFormed, Sequenced
<1>2. n \in 1 .. n /\ 1 \in 1 .. n
  BY <1>1
<1>3. S = {rs[k].tick : k \in 1 .. n}
  BY <1>1 DEF Range
<1>4. Head(rs) = rs[1] /\ Last(rs) = rs[n]
  BY <1>1 DEF Last
<1>5. Duration(rs) = rs[n].tick - rs[1].tick
  BY <1>4, Zenon DEF Duration
<1> HIDE DEF S
<1>6. /\ S \in SUBSET Int /\ rs[n].tick \in S /\ rs[1].tick \in S
      /\ \A y \in S : y <= rs[n].tick /\ rs[1].tick <= y
  <2>1. ASSUME NEW y \in S PROVE y \in Int /\ y <= rs[n].tick /\ rs[1].tick <= y
    <3>1. PICK k \in 1 .. n : y = rs[k].tick
      BY <1>3
    <3>2. k <= n /\ 1 <= k
      BY <1>1
    <3>3. rs[k].tick <= rs[n].tick /\ rs[1].tick <= rs[k].tick
      BY <1>2, <3>2
    <3> QED BY <1>1, <3>1, <3>3
  <2>2. rs[n].tick \in S /\ rs[1].tick \in S
    BY <1>2, <1>3
  <2> QED BY <2>1, <2>2
<1>7. Max(S) = rs[n].tick
  BY <1>6, MaxIs
<1>8. Min(S) = rs[1].tick
  BY <1>6, MinIs
<1> QED BY <1>5, <1>7, <1>8 DEF S

(***************************************************************************)
(* For any number of services in the topologies of GraphWorkload and any   *)
(* trace: the reconstructed call graphs leave out the calls of service 0,  *)
(* parallel calls are chained one after another, every release of a lock   *)
(* convoy is reported as an orphan and reads past the end of the table of  *)
(* locks, and a trace in time order lasts from its first to its last tick. *)
(***************************************************************************)
THEOREM TopologiesAreRead == TraceSpec => []TopologiesAsRead
<1>1. ReplayInv => TopologiesAsRead
  <2> SUFFICES ASSUME ReplayInv PROVE TopologiesAsRead
    OBVIOUS
  <2>1. WellFormed(records)
    BY DEF ReplayInv
  <2>2. /\ LockGraph(LockConvoy(0, 1, Fan)) = {99} \X (1 .. Fan)
        /\ Validated(LockConvoy(0, 1, Fan)).orphans = {3 * i : i \in 1 .. Fan}
        /\ Validated(LockConvoy(0, 1, Fan)).past_end
        /\ \A i \in 1 .. Fan : ArrivalsOf(LockConvoy(0, 1, Fan), i) = 1
    BY ConvoyLocks, ConvoyValidated, ConvoyArrivals DEF Convoy
  <2>3. ASSUME OnTime = DOMAIN records, records # <<>>
        PROVE  Duration(records) = Max({r.tick : r \in Range(records)})
                                       - Min({r.tick : r \in Range(records)})
    <3>1. DOMAIN records = 1 .. Len(records) /\ Len(records) \in Nat
      BY <2>1, EventLoopAssumption DEF WellFormed
    <3>2. ASSUME NEW k \in 1 .. Len(records), NEW j \in 1 .. Len(records), j <= k
          PROVE  records[j].tick <= records[k].tick
      <4>1. k \in OnTime /\ j \in 1 .. k
        BY <2>3, <3>1, <3>2
      <4> QED BY <4>1 DEF OnTime
    <3> QED BY <2>1, <2>3, <3>2, SortedSpan
  <2> QED BY <2>2, <2>3, FanOutGraph, FanInGraph, ChainGraph, DiamondGraph, FanOutDag
          DEF TopologiesAsRead
<1> QED BY <1>1, ReplayInvariant, PTL
=============================================================================
