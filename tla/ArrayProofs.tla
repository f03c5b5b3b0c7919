----------------------------- MODULE ArrayProofs -----------------------------
(***************************************************************************)
(* What the operations of Window.c and Buffer.c, the two circular arrays,  *)
(* return and preserve.                                                    *)
(***************************************************************************)
EXTENDS Window, Buffer, NumberProofs

-----------------------------------------------------------------------------
(* Sequence numbers.                                                       *)

LEMMA Add32Type ==
    ASSUME NEW a \in Nat, NEW b \in Nat
    PROVE  Add32(a, b) \in SeqNum
BY PacketAssumption DEF Add32, SeqNum

\* A slot of an array of s entries.
LEMMA SlotType ==
    ASSUME NEW s \in Nat \ {0}, NEW seq \in SeqNum
    PROVE  seq % s \in 0 .. s - 1
BY PacketAssumption DEF SeqNum

\* As long as no number passes the end of the sequence space, Add32 is +.
LEMMA Add32NoWrap ==
    ASSUME NEW a \in Nat, NEW b \in Nat, a + b < SeqSpace
    PROVE  Add32(a, b) = a + b
BY PacketAssumption DEF Add32

-----------------------------------------------------------------------------
(* Types of the window.                                                    *)

LEMMA WindowInitType ==
    ASSUME NEW D, Nil \in D, NEW size \in Nat, NEW start \in SeqNum
    PROVE  IsWindow(window_init(size, start), D)
BY Add32Type, PacketAssumption DEF IsWindow, window_init, EmptyEntry, SeqNum

LEMMA WindowAddType ==
    ASSUME NEW D, NEW w, IsWindow(w, D), NEW seq \in SeqNum, NEW data \in D
    PROVE  /\ IsWindow(window_add(w, seq, data), D)
           /\ window_add(w, seq, data).size = w.size
<1> DEFINE e == [seq |-> seq, used |-> TRUE, data |-> data]
           v == window_add(w, seq, data)
<1>1. e \in [seq : SeqNum, used : BOOLEAN, data : D]
  OBVIOUS
<1>2. Add32(w.current, 1) \in SeqNum
  BY Add32Type, PacketAssumption DEF IsWindow, SeqNum
<1>3. [w.entry EXCEPT ![seq % w.size] = e] \in
         [0 .. w.size - 1 -> [seq : SeqNum, used : BOOLEAN, data : D]]
  BY <1>1 DEF IsWindow
<1>4. /\ v.entry = [w.entry EXCEPT ![seq % w.size] = e]
      /\ v.size = w.size
  BY DEF window_add, IsWindow
<1>5. v \in [entry : {[w.entry EXCEPT ![seq % w.size] = e]}, size : Nat,
             lower : SeqNum, current : SeqNum, upper : SeqNum]
  BY <1>2 DEF window_add, IsWindow
<1> SUFFICES IsWindow(v, D) /\ v.size = w.size
  OBVIOUS
<1> HIDE DEF v
<1> QED
  BY <1>3, <1>4, <1>5 DEF IsWindow

\* The first loop of window_rr.
LEMMA WindowClearedType ==
    ASSUME NEW D, NEW w, IsWindow(w, D), NEW rr_seq
    PROVE  /\ IsWindow(window_cleared(w, rr_seq), D)
           /\ window_cleared(w, rr_seq).size = w.size
<1> DEFINE v == window_cleared(w, rr_seq)
           E == [seq : SeqNum, used : BOOLEAN, data : D]
<1>1. ASSUME NEW spot \in 0 .. w.size - 1
      PROVE  [w.entry[spot] EXCEPT !.used = @ /\ ~Acked(w, spot, rr_seq)] \in E
  <2>1. w.entry[spot] \in E
    BY DEF IsWindow
  <2>2. (w.entry[spot].used /\ ~Acked(w, spot, rr_seq)) \in BOOLEAN
    BY <2>1 DEF Acked
  <2> QED
    BY <2>1, <2>2
<1> DEFINE cleared == [spot \in 0 .. w.size - 1 |->
                       [w.entry[spot] EXCEPT !.used = @ /\ ~Acked(w, spot, rr_seq)]]
<1>2. /\ v.entry = cleared
      /\ v.size = w.size
      /\ v \in [entry : {cleared}, size : Nat, lower : SeqNum,
                current : SeqNum, upper : SeqNum]
  <2>1. v = [w EXCEPT !.entry = cleared]
    BY DEF window_cleared
  <2> HIDE DEF v, cleared
  <2> QED
    BY <2>1 DEF IsWindow
<1>3. cleared \in [0 .. w.size - 1 -> E]
  BY <1>1
<1> SUFFICES IsWindow(v, D) /\ v.size = w.size
  OBVIOUS
<1> HIDE DEF v, cleared
<1> QED
  BY <1>2, <1>3 DEF IsWindow

LEMMA WindowRRType ==
    ASSUME NEW D, NEW w, IsWindow(w, D), NEW rr_seq \in SeqNum
    PROVE  /\ IsWindow(window_rr(w, rr_seq), D)
           /\ window_rr(w, rr_seq).size = w.size
<1> DEFINE v == window_cleared(w, rr_seq)
           S == window_unacked(v) \cup {v.current}
<1>1. IsWindow(v, D) /\ v.size = w.size
  BY WindowClearedType
<1> HIDE DEF v
<1>2. S \in SUBSET SeqNum /\ S # {}
  BY <1>1, PacketAssumption DEF window_unacked, IsWindow, SeqNum
<1>3. Min(S) \in SeqNum
  BY <1>2, MinProperties DEF SeqNum
<1> DEFINE lower == IF v.lower < v.current THEN Min(S) ELSE v.lower
<1>4. lower \in SeqNum
  BY <1>1, <1>3 DEF IsWindow
<1>5. Add32(lower, v.size) \in SeqNum
  BY <1>1, <1>4, Add32Type DEF IsWindow, SeqNum
<1>6. window_rr(w, rr_seq) = [v EXCEPT !.lower = lower, !.upper = Add32(lower, v.size)]
  BY DEF window_rr, window_slid, v
<1> HIDE DEF lower
<1> QED
  BY <1>1, <1>4, <1>5, <1>6 DEF IsWindow

\* The packets that window_lowest may return are in the array.
LEMMA UnackedType ==
    ASSUME NEW D, NEW w, IsWindow(w, D), window_unacked(w) # {}
    PROVE  /\ Min(window_unacked(w)) \in window_unacked(w)
           /\ Min(window_unacked(w)) \in SeqNum
<1>1. window_unacked(w) \in SUBSET SeqNum
  BY PacketAssumption DEF window_unacked, IsWindow, SeqNum
<1> QED
  BY <1>1, MinProperties DEF SeqNum

-----------------------------------------------------------------------------
(* What a window holds.                                                    *)

\* The window holds exactly the packets lower .. current - 1, each in its slot
\* and with the payload that data has for it.
WindowHolds(w, data) ==
    /\ w.size > 0
    /\ w.lower <= w.current
    /\ w.current <= w.upper
    /\ w.upper = w.lower + w.size
    /\ \A seq \in w.lower .. w.current - 1 : window_find(w, seq)
    /\ \A spot \in 0 .. w.size - 1 : w.entry[spot].used =>
          /\ w.entry[spot].seq \in w.lower .. w.current - 1
          /\ w.entry[spot].seq % w.size = spot
          /\ w.entry[spot].data = data[w.entry[spot].seq]

LEMMA WindowInitHolds ==
    ASSUME NEW size \in Nat \ {0}, NEW start \in SeqNum, start + size < SeqSpace, NEW data
    PROVE  WindowHolds(window_init(size, start), data)
<1> DEFINE w == window_init(size, start)
<1>1. start \in Nat
  BY PacketAssumption DEF SeqNum
<1>2. /\ w.size = size /\ w.lower = start /\ w.current = start
      /\ w.upper = start + size
      /\ \A spot \in 0 .. size - 1 : ~w.entry[spot].used
  BY <1>1, Add32NoWrap DEF window_init, EmptyEntry
<1> SUFFICES WindowHolds(w, data)
  OBVIOUS
<1> HIDE DEF w
<1> QED
  BY <1>1, <1>2 DEF WindowHolds

\* A packet found by its number is one the window holds, with its payload: what
\* is re-sent is what was sent.
LEMMA WindowFound ==
    ASSUME NEW D, NEW w, IsWindow(w, D), NEW data, WindowHolds(w, data),
           NEW seq \in SeqNum, window_find(w, seq)
    PROVE  /\ seq \in w.lower .. w.current - 1
           /\ w.entry[seq % w.size].data = data[seq]
<1>1. w.size \in Nat \ {0}
  BY DEF IsWindow, WindowHolds
<1>2. seq % w.size \in 0 .. w.size - 1
  BY <1>1, SlotType
<1> QED
  BY <1>2 DEF WindowHolds, window_find

\* send_data_state adds the next packet to an open window: its slot is free.
LEMMA WindowAddHolds ==
    ASSUME NEW D, NEW w, IsWindow(w, D), NEW data, WindowHolds(w, data),
           window_open(w), NEW chunk \in D, chunk = data[w.current]
    PROVE  /\ WindowHolds(window_add(w, w.current, chunk), data)
           /\ window_add(w, w.current, chunk).current = w.current + 1
           /\ window_add(w, w.current, chunk).lower = w.lower
<1> DEFINE v == window_add(w, w.current, chunk)
           slot == w.current % w.size
           e == [seq |-> w.current, used |-> TRUE, data |-> chunk]
<1>1. /\ w.size \in Nat \ {0} /\ w.lower \in SeqNum /\ w.current \in SeqNum /\ w.upper \in SeqNum
      /\ w.lower \in Nat /\ w.current \in Nat /\ w.upper \in Nat
      /\ w.current < w.upper /\ w.current + 1 < SeqSpace
      /\ w.upper = w.lower + w.size /\ w.lower <= w.current
  BY PacketAssumption DEF IsWindow, WindowHolds, SeqNum, window_open
<1>2. Add32(w.current, 1) = w.current + 1
  BY <1>1, Add32NoWrap
<1>3. slot \in 0 .. w.size - 1
  BY <1>1, SlotType
<1>4. /\ v.entry = [w.entry EXCEPT ![slot] = e]
      /\ v.size = w.size /\ v.lower = w.lower /\ v.upper = w.upper
      /\ v.current = w.current + 1
  BY <1>2 DEF window_add, IsWindow
<1>5. w.entry \in [0 .. w.size - 1 -> [seq : SeqNum, used : BOOLEAN, data : D]]
  BY DEF IsWindow
<1>6. /\ v.entry[slot] = e
      /\ \A spot \in 0 .. w.size - 1 : spot # slot => v.entry[spot] = w.entry[spot]
  BY <1>3, <1>4, <1>5
<1>7. e.seq = w.current /\ e.used /\ e.data = data[w.current]
  OBVIOUS
<1> HIDE DEF v, e
<1>8. ASSUME NEW seq \in w.lower .. w.current - 1
      PROVE  window_find(v, seq)
  <2>1. seq % w.size # slot
    <3>1. seq \in Nat /\ seq < w.current /\ w.current < seq + w.size
      BY <1>1
    <3> QED
      BY <1>1, <3>1, SlotsDiffer
  <2>2. seq % w.size \in 0 .. w.size - 1
    BY <1>1
  <2>3. window_find(w, seq)
    BY DEF WindowHolds
  <2> QED
    BY <1>4, <1>6, <2>1, <2>2, <2>3 DEF window_find
<1>9. window_find(v, w.current)
  BY <1>4, <1>6, <1>7 DEF window_find
<1>10. \A seq \in v.lower .. v.current - 1 : window_find(v, seq)
  BY <1>1, <1>4, <1>8, <1>9
<1>11. ASSUME NEW spot \in 0 .. w.size - 1, v.entry[spot].used
       PROVE  /\ v.entry[spot].seq \in w.lower .. w.current
              /\ v.entry[spot].seq % w.size = spot
              /\ v.entry[spot].data = data[v.entry[spot].seq]
  <2>1. CASE spot = slot
    BY <1>1, <1>6, <1>7, <2>1
  <2>2. CASE spot # slot
    BY <1>1, <1>6, <1>11, <2>2 DEF WindowHolds
  <2> QED
    BY <2>1, <2>2
<1>12. WindowHolds(v, data)
  BY <1>1, <1>4, <1>10, <1>11 DEF WindowHolds
<1> QED
  BY <1>4, <1>12 DEF v

\* window_rr with any number at all, an old one or one never sent: the window
\* still holds exactly what is not acknowledged, and its lower edge does not go
\* back, nor beyond the number of the RR.
LEMMA WindowRRHolds ==
    ASSUME NEW D, NEW w, IsWindow(w, D), NEW data, WindowHolds(w, data),
           NEW rr_seq \in SeqNum, w.current + w.size < SeqSpace
    PROVE  /\ WindowHolds(window_rr(w, rr_seq), data)
           /\ window_rr(w, rr_seq).current = w.current
           /\ window_rr(w, rr_seq).lower \in w.lower .. w.current
           /\ window_rr(w, rr_seq).lower <= w.lower \/ window_rr(w, rr_seq).lower <= rr_seq
           /\ rr_seq \in w.lower .. w.current => window_rr(w, rr_seq).lower = rr_seq
<1> DEFINE v == window_cleared(w, rr_seq)
           S == window_unacked(v) \cup {v.current}
           L == IF v.lower < v.current THEN Min(S) ELSE v.lower
           u == window_rr(w, rr_seq)
<1>1. /\ w.size \in Nat \ {0} /\ w.lower \in Nat /\ w.current \in Nat /\ w.upper \in Nat
      /\ w.upper = w.lower + w.size /\ w.lower <= w.current /\ w.current <= w.upper
      /\ w.current < SeqSpace
      /\ rr_seq \in Nat
  BY PacketAssumption DEF IsWindow, WindowHolds, SeqNum
<1>2. w.entry \in [0 .. w.size - 1 -> [seq : SeqNum, used : BOOLEAN, data : D]]
  BY DEF IsWindow
<1> DEFINE cleared == [spot \in 0 .. w.size - 1 |->
                       [w.entry[spot] EXCEPT !.used = @ /\ ~Acked(w, spot, rr_seq)]]
<1>3. /\ v.entry = cleared
      /\ v.size = w.size /\ v.lower = w.lower /\ v.current = w.current
  BY DEF window_cleared, IsWindow
<1>4. ASSUME NEW spot \in 0 .. w.size - 1
      PROVE  /\ v.entry[spot].seq = w.entry[spot].seq
             /\ v.entry[spot].data = w.entry[spot].data
             /\ v.entry[spot].used <=> (w.entry[spot].used /\ ~Acked(w, spot, rr_seq))
  <2>1. v.entry[spot] = [w.entry[spot] EXCEPT !.used = @ /\ ~Acked(w, spot, rr_seq)]
    BY <1>3
  <2>2. w.entry[spot] \in [seq : SeqNum, used : BOOLEAN, data : D]
    BY <1>2
  <2> HIDE DEF v
  <2> QED
    BY <2>1, <2>2
<1>5. u = [v EXCEPT !.lower = L, !.upper = Add32(L, v.size)]
  BY DEF window_rr, window_slid
<1>6. IsWindow(v, D)
  BY WindowClearedType
<1>7. /\ u.entry = v.entry /\ u.size = w.size /\ u.current = w.current
      /\ u.lower = L /\ u.upper = Add32(L, w.size)
  <2> HIDE DEF v, L
  <2> QED
    BY <1>3, <1>5, <1>6 DEF IsWindow
<1> HIDE DEF v, u, cleared
\* After the first loop an entry is used exactly if it was and is at or above rr_seq.
<1>8. ASSUME NEW spot \in 0 .. w.size - 1, v.entry[spot].used
      PROVE  /\ v.entry[spot].seq \in w.lower .. w.current - 1
             /\ v.entry[spot].seq % w.size = spot
             /\ v.entry[spot].data = data[v.entry[spot].seq]
             /\ v.entry[spot].seq >= rr_seq
  <2>1. /\ w.entry[spot].seq \in w.lower .. w.current - 1
        /\ w.entry[spot].seq % w.size = spot
        /\ w.entry[spot].data = data[w.entry[spot].seq]
    BY <1>4, <1>8 DEF WindowHolds
  <2>2. ~(w.entry[spot].seq < rr_seq)
    BY <1>4, <1>8, <2>1 DEF Acked
  <2> QED
    BY <1>1, <1>4, <2>1, <2>2
<1>9. ASSUME NEW seq \in w.lower .. w.current - 1, seq >= rr_seq
      PROVE  window_find(v, seq)
  <2>1. seq % w.size \in 0 .. w.size - 1
    BY <1>1
  <2>2. w.entry[seq % w.size].used /\ w.entry[seq % w.size].seq = seq
    BY DEF WindowHolds, window_find
  <2>3. ~Acked(w, seq % w.size, rr_seq)
    BY <1>1, <1>9, <2>2 DEF Acked
  <2> QED
    BY <1>3, <1>4, <2>1, <2>2, <2>3 DEF window_find
<1>10. ASSUME NEW seq \in w.lower .. w.current - 1, window_find(v, seq)
       PROVE  seq >= rr_seq
  <2>1. seq % w.size \in 0 .. w.size - 1
    BY <1>1
  <2> QED
    BY <1>3, <1>8, <1>10, <2>1 DEF window_find
<1>11. /\ S \in SUBSET Nat /\ S # {}
       /\ \A s \in S : s \in w.lower .. w.current
  BY <1>1, <1>3 DEF window_unacked
<1>12. L \in w.lower .. w.current /\ L \in Nat
  BY <1>1, <1>3, <1>11, MinProperties
<1>13. ASSUME NEW seq \in w.lower .. w.current - 1, window_find(v, seq)
       PROVE  L <= seq
  <2>1. seq \in S /\ w.lower < w.current
    BY <1>1, <1>3, <1>13 DEF window_unacked
  <2> HIDE DEF S
  <2> QED
    BY <1>3, <1>11, <2>1, MinProperties
<1>14. L < w.current => L >= rr_seq
  <2>1. SUFFICES ASSUME L < w.current PROVE L >= rr_seq
    OBVIOUS
  <2>2. L = Min(S)
    BY <1>1, <1>3, <1>12, <2>1
  <2>3. L \in S
    BY <1>11, <2>2, MinProperties
  <2>4. window_find(v, L) /\ L \in w.lower .. w.current - 1
    BY <1>1, <1>3, <2>1, <2>3 DEF window_unacked
  <2> QED
    BY <1>10, <2>4
<1> HIDE DEF L, S
<1>15. ASSUME NEW seq \in L .. w.current - 1
       PROVE  window_find(u, seq)
  <2>1. seq \in w.lower .. w.current - 1 /\ seq >= rr_seq
    BY <1>1, <1>12, <1>14
  <2>2. window_find(v, seq)
    BY <1>9, <2>1
  <2> QED
    BY <1>3, <1>7, <2>2 DEF window_find
<1>16. ASSUME NEW spot \in 0 .. w.size - 1, u.entry[spot].used
       PROVE  /\ u.entry[spot].seq \in L .. w.current - 1
              /\ u.entry[spot].seq % w.size = spot
              /\ u.entry[spot].data = data[u.entry[spot].seq]
  <2>1. v.entry[spot].used
    BY <1>7, <1>16
  <2>2. window_find(v, v.entry[spot].seq) /\ v.entry[spot].seq \in w.lower .. w.current - 1
    BY <1>3, <1>8, <2>1 DEF window_find
  <2>3. L <= v.entry[spot].seq
    BY <1>13, <2>2
  <2> QED
    BY <1>1, <1>7, <1>8, <1>12, <2>1, <2>2, <2>3
<1>17. Add32(L, w.size) = L + w.size
  <2>1. L + w.size < SeqSpace
    BY <1>1, <1>12, PacketAssumption
  <2> QED
    BY <1>1, <1>12, <2>1, Add32NoWrap
<1>18. WindowHolds(u, data)
  BY <1>1, <1>7, <1>12, <1>15, <1>16, <1>17 DEF WindowHolds
<1>19. L <= w.lower \/ L <= rr_seq
  <2>1. CASE rr_seq >= w.current
    BY <1>1, <1>12, <2>1
  <2>2. CASE rr_seq \in w.lower .. w.current - 1
    BY <1>1, <1>9, <1>13, <2>2
  <2>3. CASE rr_seq < w.lower /\ w.lower < w.current
    <3>1. w.lower \in w.lower .. w.current - 1 /\ w.lower >= rr_seq
      BY <1>1, <2>3
    <3> QED
      BY <1>9, <1>13, <3>1
  <2>4. CASE rr_seq < w.lower /\ ~(w.lower < w.current)
    BY <1>1, <1>12, <2>4
  <2> QED
    BY <1>1, <2>1, <2>2, <2>3, <2>4
<1>20. rr_seq \in w.lower .. w.current => L = rr_seq
  BY <1>1, <1>12, <1>14, <1>19
<1> QED
  BY <1>7, <1>12, <1>18, <1>19, <1>20 DEF u

-----------------------------------------------------------------------------
(* Types of the buffer.                                                    *)

LEMMA BufferInitType ==
    ASSUME NEW D, Nil \in D, NEW size \in Nat, NEW start \in SeqNum
    PROVE  IsBuffer(buffer_init(size, start), D)
BY PacketAssumption DEF IsBuffer, buffer_init, FreeEntry, SeqNum

LEMMA BufferSaveType ==
    ASSUME NEW D, NEW b, IsBuffer(b, D), NEW seq \in SeqNum, NEW data \in D
    PROVE  IsBuffer(buffer_save(b, seq, data), D) /\ buffer_save(b, seq, data).size = b.size
<1> DEFINE e == [seq |-> seq, used |-> TRUE, data |-> data]
           v == [b EXCEPT !.entry[seq % b.size] = e]
<1>1. [b.entry EXCEPT ![seq % b.size] = e] \in
         [0 .. b.size - 1 -> [seq : SeqNum, used : BOOLEAN, data : D]]
  BY DEF IsBuffer
<1>2. /\ v.entry = [b.entry EXCEPT ![seq % b.size] = e]
      /\ v.size = b.size
      /\ v \in [entry : {[b.entry EXCEPT ![seq % b.size] = e]}, size : Nat,
                expected : SeqNum, missing_seq : SeqNum, missing_active : BOOLEAN]
  BY DEF IsBuffer
<1>3. buffer_save(b, seq, data) \in {b, v}
  BY DEF buffer_save
<1> HIDE DEF v
<1>4. IsBuffer(v, D)
  BY <1>1, <1>2 DEF IsBuffer
<1> QED
  BY <1>2, <1>3, <1>4

LEMMA BufferWroteType ==
    ASSUME NEW D, NEW b, IsBuffer(b, D)
    PROVE  IsBuffer(buffer_wrote(b), D) /\ buffer_wrote(b).size = b.size
<1> DEFINE spot == b.expected % b.size
           entry == [b.entry EXCEPT ![spot].used = FALSE]
           v == buffer_wrote(b)
<1>1. entry \in [0 .. b.size - 1 -> [seq : SeqNum, used : BOOLEAN, data : D]]
  BY DEF IsBuffer
<1>2. Add32(b.expected, 1) \in SeqNum
  BY Add32Type DEF IsBuffer, SeqNum
<1>3. /\ v.entry = entry
      /\ v.size = b.size
      /\ v \in [entry : {entry}, size : Nat,
                expected : SeqNum, missing_seq : SeqNum, missing_active : BOOLEAN]
  BY <1>2 DEF buffer_wrote, IsBuffer
<1> SUFFICES IsBuffer(v, D) /\ v.size = b.size
  OBVIOUS
<1> HIDE DEF v, entry
<1> QED
  BY <1>1, <1>3 DEF IsBuffer

LEMMA BufferRejectedType ==
    ASSUME NEW D, NEW b, IsBuffer(b, D)
    PROVE  IsBuffer(buffer_rejected(b), D) /\ buffer_rejected(b).size = b.size
BY DEF buffer_rejected, IsBuffer

LEMMA BufferClearRejectType ==
    ASSUME NEW D, NEW b, IsBuffer(b, D), NEW seq
    PROVE  IsBuffer(buffer_clear_reject(b, seq), D) /\ buffer_clear_reject(b, seq).size = b.size
<1>1. (b.missing_active /\ b.missing_seq # seq) \in BOOLEAN
  BY DEF IsBuffer
<1> QED
  BY <1>1 DEF buffer_clear_reject, IsBuffer

-----------------------------------------------------------------------------
(* What a buffer holds.                                                    *)

\* The buffer holds only packets that are not written, fit it and come before
\* end, each in its slot and with the payload that data has for it.
BufferHolds(b, data, end) ==
    \A spot \in 0 .. b.size - 1 : b.entry[spot].used =>
       /\ b.entry[spot].seq \in b.expected .. b.expected + b.size - 1
       /\ b.entry[spot].seq < end
       /\ b.entry[spot].seq % b.size = spot
       /\ b.entry[spot].data = data[b.entry[spot].seq]

\* A fresh buffer.
LEMMA BufferInitHolds ==
    ASSUME NEW size \in Nat, NEW start, NEW data, NEW end
    PROVE  /\ BufferHolds(buffer_init(size, start), data, end)
           /\ buffer_init(size, start).expected = start
BY DEF BufferHolds, buffer_init, FreeEntry

\* handle_data_packet saves a packet that is in the window: it takes the place of
\* no other.
LEMMA BufferSaveHolds ==
    ASSUME NEW D, NEW b, IsBuffer(b, D), b.size > 0, NEW data, NEW end,
           BufferHolds(b, data, end), b.expected + b.size < SeqSpace,
           NEW seq \in SeqNum, buffer_in_window(b, seq), seq < end,
           NEW chunk \in D, chunk = data[seq]
    PROVE  /\ BufferHolds(buffer_save(b, seq, chunk), data, end)
           /\ buffer_save(b, seq, chunk).expected = b.expected
<1> DEFINE e == [seq |-> seq, used |-> TRUE, data |-> chunk]
           v == [b EXCEPT !.entry[seq % b.size] = e]
           slot == seq % b.size
<1>1. /\ b.size \in Nat \ {0} /\ b.expected \in Nat /\ seq \in Nat
      /\ seq >= b.expected /\ seq < b.expected + b.size
  <2>1. b.size \in Nat \ {0} /\ b.expected \in Nat /\ seq \in Nat
    BY PacketAssumption DEF IsBuffer, SeqNum
  <2>2. Add32(b.expected, b.size) = b.expected + b.size
    BY <2>1, Add32NoWrap
  <2> QED
    BY <2>1, <2>2 DEF buffer_in_window
<1>2. slot \in 0 .. b.size - 1
  BY <1>1, SlotType
<1>3. /\ v.entry = [b.entry EXCEPT ![slot] = e]
      /\ v.size = b.size /\ v.expected = b.expected
  BY DEF IsBuffer
<1>4. b.entry \in [0 .. b.size - 1 -> [seq : SeqNum, used : BOOLEAN, data : D]]
  BY DEF IsBuffer
<1>5. /\ v.entry[slot] = e
      /\ \A spot \in 0 .. b.size - 1 : spot # slot => v.entry[spot] = b.entry[spot]
  BY <1>2, <1>3, <1>4
<1>6. e.seq = seq /\ e.data = data[seq]
  OBVIOUS
<1>7. buffer_save(b, seq, chunk) \in {b, v}
  BY DEF buffer_save
<1> HIDE DEF v, e
<1>8. ASSUME NEW spot \in 0 .. b.size - 1, v.entry[spot].used
      PROVE  /\ v.entry[spot].seq \in b.expected .. b.expected + b.size - 1
             /\ v.entry[spot].seq < end
             /\ v.entry[spot].seq % b.size = spot
             /\ v.entry[spot].data = data[v.entry[spot].seq]
  <2>1. CASE spot = slot
    BY <1>1, <1>5, <1>6, <2>1
  <2>2. CASE spot # slot
    BY <1>5, <1>8, <2>2 DEF BufferHolds
  <2> QED
    BY <2>1, <2>2
<1>9. BufferHolds(v, data, end)
  BY <1>3, <1>8 DEF BufferHolds
<1> QED
  BY <1>3, <1>7, <1>9

\* buffer_write_ready writes the right payload, and afterwards the buffer holds
\* only later packets.
LEMMA BufferWroteHolds ==
    ASSUME NEW D, NEW b, IsBuffer(b, D), b.size > 0, NEW data, NEW end \in Nat,
           BufferHolds(b, data, end), b.expected + b.size < SeqSpace,
           buffer_has(b, b.expected)
    PROVE  /\ BufferHolds(buffer_wrote(b), data, end)
           /\ buffer_wrote(b).expected = b.expected + 1
           /\ b.expected < end
           /\ buffer_ready(b) = data[b.expected]
<1> DEFINE v == buffer_wrote(b)
           slot == b.expected % b.size
           entry == [b.entry EXCEPT ![slot].used = FALSE]
<1>1. b.size \in Nat \ {0} /\ b.expected \in Nat /\ b.expected + 1 < SeqSpace
  BY PacketAssumption DEF IsBuffer, SeqNum
<1>2. slot \in 0 .. b.size - 1
  BY <1>1
<1>3. b.entry[slot].used /\ b.entry[slot].seq = b.expected
  BY DEF buffer_has
<1>4. Add32(b.expected, 1) = b.expected + 1
  BY <1>1, Add32NoWrap
<1>5. /\ v.entry = entry /\ v.size = b.size /\ v.expected = b.expected + 1
  BY <1>4 DEF buffer_wrote, IsBuffer
<1>6. b.entry \in [0 .. b.size - 1 -> [seq : SeqNum, used : BOOLEAN, data : D]]
  BY DEF IsBuffer
<1>7. /\ ~entry[slot].used
      /\ \A spot \in 0 .. b.size - 1 : spot # slot => entry[spot] = b.entry[spot]
  BY <1>2, <1>6
<1>8. b.expected < end /\ buffer_ready(b) = data[b.expected]
  BY <1>2, <1>3 DEF BufferHolds, buffer_ready
<1> HIDE DEF v, entry
<1>9. ASSUME NEW spot \in 0 .. b.size - 1, entry[spot].used
      PROVE  /\ entry[spot].seq \in b.expected + 1 .. b.expected + b.size
             /\ entry[spot].seq < end
             /\ entry[spot].seq % b.size = spot
             /\ entry[spot].data = data[entry[spot].seq]
  <2>1. spot # slot /\ entry[spot] = b.entry[spot]
    BY <1>7, <1>9
  <2>2. /\ b.entry[spot].seq \in b.expected .. b.expected + b.size - 1
        /\ b.entry[spot].seq < end
        /\ b.entry[spot].seq % b.size = spot
        /\ b.entry[spot].data = data[b.entry[spot].seq]
    BY <1>9, <2>1 DEF BufferHolds
  <2>3. b.entry[spot].seq # b.expected
    BY <2>1, <2>2
  <2> QED
    BY <1>1, <2>1, <2>2, <2>3
<1>10. BufferHolds(v, data, end)
  BY <1>1, <1>5, <1>9 DEF BufferHolds
<1> QED
  BY <1>5, <1>8, <1>10 DEF v

\* Remembering or forgetting a reject leaves the packets alone.
LEMMA BufferRejectHolds ==
    ASSUME NEW D, NEW b, IsBuffer(b, D), NEW data, NEW end, NEW seq,
           BufferHolds(b, data, end)
    PROVE  /\ BufferHolds(buffer_rejected(b), data, end)
           /\ buffer_rejected(b).expected = b.expected
           /\ BufferHolds(buffer_clear_reject(b, seq), data, end)
           /\ buffer_clear_reject(b, seq).expected = b.expected
<1> DEFINE r == buffer_rejected(b)
           c == buffer_clear_reject(b, seq)
<1>1. r.entry = b.entry /\ r.size = b.size /\ r.expected = b.expected
  BY DEF buffer_rejected, IsBuffer
<1>2. c.entry = b.entry /\ c.size = b.size /\ c.expected = b.expected
  BY DEF buffer_clear_reject, IsBuffer
<1> HIDE DEF r, c
<1>3. BufferHolds(r, data, end) /\ BufferHolds(c, data, end)
  BY <1>1, <1>2 DEF BufferHolds
<1> QED
  BY <1>1, <1>2, <1>3 DEF r, c

-----------------------------------------------------------------------------
(* What a buffer remembers of its rejects.                                 *)

\* The expected packet has been asked for exactly if there is a later one.
AsksForGap(b) ==
    /\ b.missing_active <=> buffer_has_later(b)
    /\ b.missing_active => b.missing_seq = b.expected

LEMMA BufferInitAsks ==
    ASSUME NEW size, NEW start
    PROVE  AsksForGap(buffer_init(size, start))
BY DEF AsksForGap, buffer_init, buffer_has_later, FreeEntry

\* A packet that is saved behind the expected one makes a gap; what has been asked
\* for is not touched.
LEMMA BufferSaveAsks ==
    ASSUME NEW D, NEW b, IsBuffer(b, D), b.size > 0, NEW seq \in SeqNum, NEW data,
           buffer_in_window(b, seq)
    PROVE  /\ buffer_save(b, seq, data).expected = b.expected
           /\ buffer_save(b, seq, data).missing_active = b.missing_active
           /\ buffer_save(b, seq, data).missing_seq = b.missing_seq
           /\ seq # b.expected => buffer_has_later(buffer_save(b, seq, data))
<1> DEFINE e == [seq |-> seq, used |-> TRUE, data |-> data]
           v == [b EXCEPT !.entry[seq % b.size] = e]
           slot == seq % b.size
<1>1. b.size \in Nat \ {0} /\ b.expected \in Nat /\ seq \in Nat
  BY PacketAssumption DEF IsBuffer, SeqNum
<1>2. slot \in 0 .. b.size - 1
  BY <1>1, SlotType
<1>3. /\ v.entry = [b.entry EXCEPT ![slot] = e]
      /\ v.expected = b.expected
      /\ v.missing_active = b.missing_active /\ v.missing_seq = b.missing_seq
  BY DEF IsBuffer
<1>4. DOMAIN b.entry = 0 .. b.size - 1
  BY DEF IsBuffer
<1>5. v.entry[slot] = e /\ DOMAIN v.entry = 0 .. b.size - 1
  BY <1>2, <1>3, <1>4
<1>6. e.seq = seq /\ e.used
  OBVIOUS
<1> HIDE DEF v, e
<1>7. seq # b.expected => seq > b.expected
  BY <1>1 DEF buffer_in_window
<1>8. seq # b.expected => buffer_has_later(v)
  BY <1>2, <1>3, <1>5, <1>6, <1>7 DEF buffer_has_later
<1>9. CASE buffer_has(b, seq)
  <2>1. buffer_save(b, seq, data) = b
    BY <1>9 DEF buffer_save
  <2>2. seq # b.expected => buffer_has_later(b)
    BY <1>2, <1>4, <1>7, <1>9 DEF buffer_has, buffer_has_later
  <2> QED
    BY <2>1, <2>2
<1>10. CASE ~buffer_has(b, seq)
  <2>1. buffer_save(b, seq, data) = v
    BY <1>10 DEF buffer_save, v, e
  <2> QED
    BY <1>3, <1>8, <2>1
<1> QED
  BY <1>9, <1>10

\* After a reject, if there is a gap; without one nothing is asked for.
LEMMA BufferRejectAsks ==
    ASSUME NEW D, NEW b, IsBuffer(b, D)
    PROVE  /\ buffer_has_later(b) => AsksForGap(buffer_rejected(b))
           /\ ~buffer_has_later(b) /\ ~b.missing_active => AsksForGap(b)
           /\ buffer_has_later(b) /\ ~buffer_need_reject(b) => AsksForGap(b)
<1> DEFINE r == buffer_rejected(b)
<1>1. /\ r.entry = b.entry /\ r.expected = b.expected
      /\ r.missing_active = TRUE /\ r.missing_seq = b.expected
  BY DEF buffer_rejected, IsBuffer
<1> HIDE DEF r
<1>2. buffer_has_later(b) => AsksForGap(r)
  BY <1>1 DEF AsksForGap, buffer_has_later
<1> QED
  BY <1>2 DEF r, AsksForGap, buffer_need_reject

\* The packet that was asked for has come, and is written.
LEMMA BufferFillsGap ==
    ASSUME NEW D, NEW b, IsBuffer(b, D)
    PROVE  /\ (b.missing_active => b.missing_seq = b.expected) =>
                 ~buffer_clear_reject(b, b.expected).missing_active
           /\ buffer_wrote(b).missing_active = b.missing_active
BY DEF buffer_clear_reject, buffer_wrote, IsBuffer

-----------------------------------------------------------------------------
(* What has reached a buffer.                                              *)

\* The buffer and its user know of no packet from end on.
Below(b, end) ==
    /\ b.expected <= end
    /\ \A spot \in DOMAIN b.entry : b.entry[spot].used => b.entry[spot].seq < end

LEMMA BufferSaveBelow ==
    ASSUME NEW D, NEW b, IsBuffer(b, D), NEW end, Below(b, end),
           NEW seq, seq < end, NEW data
    PROVE  Below(buffer_save(b, seq, data), end)
<1> DEFINE e == [seq |-> seq, used |-> TRUE, data |-> data]
           v == [b EXCEPT !.entry[seq % b.size] = e]
<1>1. v.entry = [b.entry EXCEPT ![seq % b.size] = e] /\ v.expected = b.expected
  BY DEF IsBuffer
<1>2. e.seq = seq
  OBVIOUS
<1>3. buffer_save(b, seq, data) \in {b, v}
  BY DEF buffer_save
<1> HIDE DEF v, e
<1>4. ASSUME NEW spot \in DOMAIN v.entry PROVE v.entry[spot] \in {b.entry[spot], e}
  BY <1>1
<1>5. Below(v, end)
  BY <1>1, <1>2, <1>4 DEF Below
<1> QED
  BY <1>3, <1>5

LEMMA BufferRejectBelow ==
    ASSUME NEW D, NEW b, IsBuffer(b, D), NEW end, Below(b, end), NEW seq
    PROVE  /\ Below(buffer_rejected(b), end)
           /\ Below(buffer_clear_reject(b, seq), end)
<1> DEFINE r == buffer_rejected(b)
           c == buffer_clear_reject(b, seq)
<1>1. r.entry = b.entry /\ r.expected = b.expected
  BY DEF buffer_rejected, IsBuffer
<1>2. c.entry = b.entry /\ c.expected = b.expected
  BY DEF buffer_clear_reject, IsBuffer
<1> HIDE DEF r, c
<1>3. Below(r, end) /\ Below(c, end)
  BY <1>1, <1>2 DEF Below
<1> QED
  BY <1>3 DEF r, c

LEMMA BufferWroteBelow ==
    ASSUME NEW D, NEW b, IsBuffer(b, D), b.size > 0, NEW end \in Nat, Below(b, end),
           buffer_has(b, b.expected), b.expected + 1 < SeqSpace
    PROVE  Below(buffer_wrote(b), end)
<1> DEFINE v == buffer_wrote(b)
           slot == b.expected % b.size
           entry == [b.entry EXCEPT ![slot].used = FALSE]
<1>1. b.size \in Nat \ {0} /\ b.expected \in Nat
  BY PacketAssumption DEF IsBuffer, SeqNum
<1>2. slot \in 0 .. b.size - 1
  BY <1>1
<1>3. b.entry \in [0 .. b.size - 1 -> [seq : SeqNum, used : BOOLEAN, data : D]]
  BY DEF IsBuffer
<1>4. b.expected < end
  BY <1>2, <1>3 DEF buffer_has, Below
<1>5. v.entry = entry /\ v.expected = b.expected + 1
  BY <1>1, Add32NoWrap DEF buffer_wrote, IsBuffer
<1>6. /\ DOMAIN entry = DOMAIN b.entry
      /\ \A spot \in DOMAIN entry : entry[spot].used => b.entry[spot].used
      /\ \A spot \in DOMAIN entry : entry[spot].seq = b.entry[spot].seq
  BY <1>2, <1>3
<1> HIDE DEF v, entry
<1>7. Below(v, end)
  BY <1>1, <1>4, <1>5, <1>6 DEF Below
<1> QED
  BY <1>7 DEF v

-----------------------------------------------------------------------------
(* What a buffer holds, as a set of sequence numbers.                      *)

Held(b) == {b.entry[spot].seq : spot \in {s \in DOMAIN b.entry : b.entry[s].used}}

LEMMA HeldMember ==
    ASSUME NEW b, NEW seq
    PROVE  seq \in Held(b) <=>
              \E spot \in DOMAIN b.entry : b.entry[spot].used /\ b.entry[spot].seq = seq
BY DEF Held

LEMMA HeldIs ==
    ASSUME NEW D, NEW b, IsBuffer(b, D), b.size > 0, NEW data, NEW end,
           BufferHolds(b, data, end)
    PROVE  /\ Held(b) \subseteq b.expected .. b.expected + b.size - 1
           /\ \A seq \in SeqNum : buffer_has(b, seq) <=> seq \in Held(b)
           /\ buffer_has_later(b) <=> \E seq \in Held(b) : seq > b.expected
<1>1. /\ b.size \in Nat \ {0} /\ DOMAIN b.entry = 0 .. b.size - 1
      /\ b.entry \in [0 .. b.size - 1 -> [seq : SeqNum, used : BOOLEAN, data : D]]
  BY DEF IsBuffer
<1>2. \A spot \in 0 .. b.size - 1 : b.entry[spot].used =>
         /\ b.entry[spot].seq \in b.expected .. b.expected + b.size - 1
         /\ b.entry[spot].seq % b.size = spot
  BY DEF BufferHolds
<1>3. ASSUME NEW seq \in SeqNum PROVE buffer_has(b, seq) <=> seq \in Held(b)
  <2>1. seq % b.size \in 0 .. b.size - 1
    BY <1>1, SlotType
  <2>2. buffer_has(b, seq) => seq \in Held(b)
    BY <1>1, <2>1 DEF buffer_has, Held
  <2>3. ASSUME seq \in Held(b) PROVE buffer_has(b, seq)
    <3>1. PICK spot \in 0 .. b.size - 1 : b.entry[spot].used /\ b.entry[spot].seq = seq
      BY <1>1, <2>3 DEF Held
    <3>2. seq % b.size = spot
      BY <1>2, <3>1
    <3> QED
      BY <3>1, <3>2 DEF buffer_has
  <2> QED
    BY <2>2, <2>3
<1>4. Held(b) \subseteq b.expected .. b.expected + b.size - 1
  BY <1>1, <1>2 DEF Held
<1>5. buffer_has_later(b) <=> \E seq \in Held(b) : seq > b.expected
  BY DEF buffer_has_later, Held
<1> QED
  BY <1>3, <1>4, <1>5

LEMMA HeldInit ==
    ASSUME NEW size, NEW start
    PROVE  Held(buffer_init(size, start)) = {}
BY DEF Held, buffer_init, FreeEntry

LEMMA HeldSaved ==
    ASSUME NEW D, NEW b, IsBuffer(b, D), b.size > 0, NEW data, NEW end,
           BufferHolds(b, data, end), b.expected + b.size < SeqSpace,
           NEW seq \in SeqNum, buffer_in_window(b, seq), NEW chunk
    PROVE  Held(buffer_save(b, seq, chunk)) = Held(b) \cup {seq}
<1> DEFINE e == [seq |-> seq, used |-> TRUE, data |-> chunk]
           slot == seq % b.size
           v == [b EXCEPT !.entry[slot] = e]
<1>1. /\ b.size \in Nat \ {0} /\ DOMAIN b.entry = 0 .. b.size - 1
      /\ b.entry \in [0 .. b.size - 1 -> [seq : SeqNum, used : BOOLEAN, data : D]]
      /\ b.expected \in Nat /\ seq \in Nat
  BY PacketAssumption DEF IsBuffer, SeqNum
<1>2. slot \in 0 .. b.size - 1
  BY <1>1, SlotType
<1>3. CASE buffer_has(b, seq)
  BY <1>3, HeldIs DEF buffer_save
<1>4. CASE ~buffer_has(b, seq)
  <2>1. v.entry = [b.entry EXCEPT ![slot] = e]
    BY DEF IsBuffer
  <2>2. /\ DOMAIN v.entry = 0 .. b.size - 1
        /\ v.entry[slot] = e
        /\ \A spot \in 0 .. b.size - 1 : spot # slot => v.entry[spot] = b.entry[spot]
    BY <1>1, <1>2, <2>1
  <2>3. e.seq = seq /\ e.used
    OBVIOUS
  <2>4. buffer_save(b, seq, chunk) = v
    BY <1>4 DEF buffer_save
  <2> HIDE DEF v, e
  \* The slot was free: a packet in it would be a window's size away.
  <2>5. ~b.entry[slot].used
    <3> SUFFICES ASSUME b.entry[slot].used PROVE FALSE
      OBVIOUS
    <3> DEFINE other == b.entry[slot].seq
    <3>1. /\ other \in b.expected .. b.expected + b.size - 1
          /\ other % b.size = slot
      BY <1>2 DEF BufferHolds
    <3>2. other # seq
      BY <1>4 DEF buffer_has
    <3>3. seq >= b.expected /\ seq < b.expected + b.size
      BY <1>1, Add32NoWrap DEF buffer_in_window
    <3> HIDE DEF other
    <3>4. other \in Nat /\ ((other < seq /\ seq < other + b.size) \/ (seq < other /\ other < seq + b.size))
      BY <1>1, <3>1, <3>2, <3>3
    <3>5. other % b.size # seq % b.size
      BY <1>1, <3>4, SlotsDiffer
    <3> QED
      BY <3>1, <3>5
  <2>6. ASSUME NEW x PROVE x \in Held(v) <=> x \in Held(b) \cup {seq}
    <3>1. x \in Held(v) <=> \E spot \in 0 .. b.size - 1 : v.entry[spot].used /\ v.entry[spot].seq = x
      <4>1. x \in Held(v) <=> \E spot \in DOMAIN v.entry : v.entry[spot].used /\ v.entry[spot].seq = x
        BY HeldMember
      <4> QED
        BY <2>2, <4>1
    <3>2. x \in Held(b) <=> \E spot \in 0 .. b.size - 1 : b.entry[spot].used /\ b.entry[spot].seq = x
      BY <1>1, HeldMember
    <3>3. ASSUME x \in Held(v) PROVE x \in Held(b) \cup {seq}
      <4>1. PICK spot \in 0 .. b.size - 1 : v.entry[spot].used /\ v.entry[spot].seq = x
        BY <3>1, <3>3
      <4>2. CASE spot = slot
        BY <2>2, <2>3, <4>1, <4>2
      <4>3. CASE spot # slot
        BY <2>2, <3>2, <4>1, <4>3
      <4> QED
        BY <4>2, <4>3
    <3>4. ASSUME x \in Held(b) PROVE x \in Held(v)
      <4>1. PICK spot \in 0 .. b.size - 1 : b.entry[spot].used /\ b.entry[spot].seq = x
        BY <3>2, <3>4
      <4>2. spot # slot
        BY <2>5, <4>1
      <4> QED
        BY <2>2, <3>1, <4>1, <4>2
    <3>5. seq \in Held(v)
      BY <1>2, <2>2, <2>3, HeldMember
    <3> QED
      BY <3>3, <3>4, <3>5
  <2>7. Held(v) = Held(b) \cup {seq}
    BY <2>6
  <2> QED
    BY <2>4, <2>7
<1> QED
  BY <1>3, <1>4

LEMMA HeldRejects ==
    ASSUME NEW D, NEW b, IsBuffer(b, D), NEW seq
    PROVE  /\ Held(buffer_rejected(b)) = Held(b)
           /\ Held(buffer_clear_reject(b, seq)) = Held(b)
<1>1. buffer_rejected(b).entry = b.entry /\ buffer_clear_reject(b, seq).entry = b.entry
  BY DEF buffer_rejected, buffer_clear_reject, IsBuffer
<1> QED
  BY <1>1 DEF Held

LEMMA HeldWrote ==
    ASSUME NEW D, NEW b, IsBuffer(b, D), b.size > 0, NEW data, NEW end,
           BufferHolds(b, data, end), b.expected + b.size < SeqSpace,
           buffer_has(b, b.expected)
    PROVE  Held(buffer_wrote(b)) = Held(b) \ {b.expected}
<1> DEFINE v == buffer_wrote(b)
           slot == b.expected % b.size
           entry == [b.entry EXCEPT ![slot].used = FALSE]
<1>1. /\ b.size \in Nat \ {0} /\ DOMAIN b.entry = 0 .. b.size - 1
      /\ b.entry \in [0 .. b.size - 1 -> [seq : SeqNum, used : BOOLEAN, data : D]]
      /\ b.expected \in SeqNum
  BY DEF IsBuffer
<1>2. slot \in 0 .. b.size - 1
  BY <1>1, SlotType
<1>3. v.entry = entry
  BY DEF buffer_wrote, IsBuffer
<1>4. b.entry[slot].used /\ b.entry[slot].seq = b.expected
  BY DEF buffer_has
<1>5. /\ DOMAIN entry = 0 .. b.size - 1
      /\ ~entry[slot].used
      /\ \A spot \in 0 .. b.size - 1 : spot # slot => entry[spot] = b.entry[spot]
  BY <1>1, <1>2
<1>6. \A spot \in 0 .. b.size - 1 : b.entry[spot].used /\ b.entry[spot].seq = b.expected => spot = slot
  BY DEF BufferHolds
<1> HIDE DEF entry, slot, v
<1>7. ASSUME NEW x PROVE x \in Held(v) <=> x \in Held(b) \ {b.expected}
  <2>1. x \in Held(v) <=> \E spot \in 0 .. b.size - 1 : entry[spot].used /\ entry[spot].seq = x
    <3>1. x \in Held(v) <=> \E spot \in DOMAIN v.entry : v.entry[spot].used /\ v.entry[spot].seq = x
      BY HeldMember
    <3> QED
      BY <1>3, <1>5, <3>1
  <2>2. x \in Held(b) <=> \E spot \in 0 .. b.size - 1 : b.entry[spot].used /\ b.entry[spot].seq = x
    BY <1>1, HeldMember
  <2>3. ASSUME x \in Held(v) PROVE x \in Held(b) \ {b.expected}
    <3>1. PICK spot \in 0 .. b.size - 1 : entry[spot].used /\ entry[spot].seq = x
      BY <2>1, <2>3
    <3>2. spot # slot /\ entry[spot] = b.entry[spot]
      BY <1>5, <3>1
    <3> QED
      BY <1>6, <2>2, <3>1, <3>2
  <2>4. ASSUME x \in Held(b), x # b.expected PROVE x \in Held(v)
    <3>1. PICK spot \in 0 .. b.size - 1 : b.entry[spot].used /\ b.entry[spot].seq = x
      BY <2>2, <2>4
    <3>2. spot # slot
      BY <1>4, <2>4, <3>1
    <3> QED
      BY <1>5, <2>1, <3>1, <3>2
  <2> QED
    BY <2>3, <2>4
<1>8. Held(v) = Held(b) \ {b.expected}
  BY <1>7
<1> QED
  BY <1>8 DEF v
=============================================================================
