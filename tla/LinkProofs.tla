----------------------------- MODULE LinkProofs -----------------------------
(***************************************************************************)
(* Theorems about ErrorLink, for any environments, error rate, size of the *)
(* packets and number of children.                                         *)
(***************************************************************************)
EXTENDS ErrorLink, FiniteSetTheorems, SequenceTheorems, TLAPS

\* What one run of an event may have inverted: nothing, or one byte.
OneByte == {{}} \cup {{b} : b \in 0 .. PacketSize - 1}

Fates == [dropped : BOOLEAN, inverted : OneByte]
Messages == [dropped : BOOLEAN, bytes : OneByte]

LEMMA OneByteCardinality ==
    ASSUME NEW bytes \in OneByte
    PROVE  Cardinality(bytes) <= 1
<1>1. Cardinality({}) = 0
  BY FS_EmptySet
<1>2. \A b : Cardinality({b}) = 1
  BY FS_Singleton
<1>3. bytes = {} \/ \E b : bytes = {b}
  BY DEF OneByte
<1>4. ASSUME NEW b, bytes = {b} PROVE Cardinality(bytes) <= 1
  <2>1. Cardinality(bytes) = 1
    BY <1>2, <1>4
  <2> QED
    BY <2>1
<1>5. CASE bytes = {}
  <2>1. Cardinality(bytes) = 0
    BY <1>1, <1>5
  <2> QED
    BY <2>1
<1> QED
  BY <1>3, <1>4, <1>5

\* processEvents runs one random event at most, and no constant event changes a
\* message.
LEMMA RunFates ==
    ASSUME NEW e, NEW no
    PROVE  run(e, no, PacketSize) \subseteq Fates
<1>1. Drops(e, no) \in BOOLEAN
  BY DEF Drops
<1>2. Fate(Drops(e, no), {}) \in Fates
  BY <1>1 DEF Fate, Fates, OneByte
<1>3. \A b \in 0 .. PacketSize - 1 : Fate(FALSE, {b}) \in Fates
  BY DEF Fate, Fates, OneByte
<1> QED
  BY <1>2, <1>3 DEF run

LEMMA EventFates ==
    ASSUME NEW one, NEW no, NEW fate \in processEvents(one, no, PacketSize)
    PROVE  fate \in Fates
<1>1. by_chance(one, no, PacketSize) \subseteq Fates
  <2>1. UNION {run(e, no, PacketSize) : e \in Range(one.chance)} \subseteq Fates
    BY RunFates
  <2>2. Fate(FALSE, {}) \in Fates
    BY DEF Fate, Fates, OneByte
  <2> QED
    BY <2>1, <2>2 DEF by_chance
<1>2. PICK f \in by_chance(one, no, PacketSize) :
         fate = Fate(f.dropped \/ constant_drops(one, no), f.inverted)
  BY DEF processEvents
<1>3. f \in Fates
  BY <1>1
<1>4. (f.dropped \/ constant_drops(one, no)) \in BOOLEAN
  OBVIOUS
<1>5. f.inverted \in OneByte
  BY <1>3 DEF Fates
<1> QED
  BY <1>2, <1>4, <1>5 DEF Fate, Fates

\* The packet that a process keeps is as it was composed, and so is what has been
\* sent but for one byte.
FlipInv ==
    /\ kept = [p \in Process |-> {}]
    /\ log = [p \in Process |-> log[p]]
    /\ \A p \in Process : log[p] \in Seq(Messages)

LEMMA FlipInit == LinkInit => FlipInv
BY EmptySeq DEF LinkInit, FlipInv

LEMMA FlipSend ==
    ASSUME FlipInv, NEW p \in Process, sendto_Err(p)
    PROVE  FlipInv'
<1>1. PICK fate \in processEvents(pm[p], next_msg_no(pm[p]), PacketSize) :
         log' = [log EXCEPT ![p] = Append(@, Message(fate, kept[p]))]
  BY DEF sendto_Err
<1>2. fate \in Fates
  BY EventFates
<1>3. Message(fate, kept[p]) \in Messages
  <2>1. kept[p] = {}
    BY DEF FlipInv
  <2>2. Message(fate, kept[p]) = [dropped |-> fate.dropped, bytes |-> fate.inverted]
    BY <2>1 DEF Message, Xor
  <2> QED
    BY <1>2, <2>2 DEF Fates, Messages
<1>4. Append(log[p], Message(fate, kept[p])) \in Seq(Messages)
  BY <1>3, AppendProperties DEF FlipInv
<1>5. kept' = kept
  BY DEF sendto_Err
<1> QED
  BY <1>1, <1>4, <1>5 DEF FlipInv

LEMMA FlipStep ==
    ASSUME FlipInv, [LinkNext]_linkVars
    PROVE  FlipInv'
<1>1. ASSUME UNCHANGED <<kept, log>> PROVE FlipInv'
  BY <1>1 DEF FlipInv
<1>2. CASE Second
  BY <1>1, <1>2 DEF Second
<1>3. ASSUME NEW p \in Process, init(p) PROVE FlipInv'
  BY <1>1, <1>3 DEF init
<1>4. ASSUME NEW p \in Process, sendto_Err(p) PROVE FlipInv'
  BY <1>4, FlipSend
<1>5. ASSUME NEW c \in Child, forkMod(c) PROVE FlipInv'
  BY <1>1, <1>5 DEF forkMod
<1>6. CASE UNCHANGED linkVars
  BY <1>1, <1>6 DEF linkVars
<1> QED
  BY <1>2, <1>3, <1>4, <1>5, <1>6 DEF LinkNext, LinkIdle

\* What arrives differs in one byte at most from what its sender composed, however
\* often the sender has sent the same packet before.
THEOREM OneFlipAtMost == LinkSpec => []AtMostOneFlip
<1>1. FlipInv => AtMostOneFlip
  <2> SUFFICES ASSUME FlipInv, NEW p \in Process, NEW n \in DOMAIN log[p]
               PROVE  Cardinality(log[p][n].bytes) <= 1
    BY DEF AtMostOneFlip
  <2>1. log[p][n] \in Messages
    BY ElementOfSeq DEF FlipInv
  <2> QED
    BY <2>1, OneByteCardinality DEF Messages
<1>2. FlipInv /\ [LinkNext]_linkVars => FlipInv'
  BY FlipStep
<1> QED
  BY <1>1, <1>2, FlipInit, PTL DEF LinkSpec

-----------------------------------------------------------------------------
(***************************************************************************)
(* The environment has precedence.  What is said of one process's          *)
(* configuration r holds from the constructor on, and each operation on it *)
(* preserves it.                                                           *)
(***************************************************************************)
IsConfiguration(r) ==
    /\ r = [rate |-> r.rate, constant |-> r.constant, chance |-> r.chance,
            msg_no |-> r.msg_no, seed |-> r.seed, next_seed |-> r.next_seed]
    /\ r.chance \in Seq({errorDrop, errorFlipBits})

\* The event for the messages to drop that the environment lists.
Specific(e) == setDropSpecific(parserLong2Uint32(e.drop))

Wins(r, e) ==
    /\ is_set_number(e.rate) => r.rate = Head(e.rate)
    /\ is_set_number(e.seed) => r.seed = Head(e.seed)
    /\ r.constant \in Seq({infoSeqNo, Specific(e)})
    /\ ListGiven(e.drop) => /\ Specific(e) \in Range(r.constant)
                            /\ Count(r.constant, "drop") = 1 /\ Count(r.chance, "drop") = 0
    /\ RandomGiven(e.drop) => Count(r.constant, "drop") = 0 /\ Count(r.chance, "drop") = 1
    /\ RandomGiven(e.flip) => Count(r.chance, "flip") = 1

Good(r, e) == IsConfiguration(r) /\ Wins(r, e)

LEMMA GivenIsSet ==
    ASSUME NEW v
    PROVE  /\ ListGiven(v) \/ RandomGiven(v) => is_set_list(v)
           /\ ~(ListGiven(v) /\ RandomGiven(v))
BY DEF ListGiven, RandomGiven, is_set_list, is_set_number

LEMMA Kinds ==
    /\ errorDrop.kind = "drop" /\ errorFlipBits.kind = "flip" /\ infoSeqNo.kind = "info"
    /\ \A list : setDropSpecific(list).kind = "drop"
BY DEF errorDrop, errorFlipBits, infoSeqNo, setDropSpecific, Event

LEMMA CountEmpty ==
    ASSUME NEW kind
    PROVE  Count(<<>>, kind) = 0
<1>1. {i \in DOMAIN <<>> : <<>>[i].kind = kind} = {}
  OBVIOUS
<1> QED
  BY <1>1, FS_EmptySet DEF Count

\* An event that is added counts for its kind only.
LEMMA CountAppend ==
    ASSUME NEW S, NEW list \in Seq(S), NEW e \in S, NEW kind
    PROVE  Count(Append(list, e), kind) = IF e.kind = kind THEN Count(list, kind) + 1
                                          ELSE Count(list, kind)
<1> DEFINE n == Len(list)
           Of(l) == {i \in DOMAIN l : l[i].kind = kind}
<1>1. n \in Nat /\ DOMAIN list = 1 .. n /\ DOMAIN Append(list, e) = 1 .. n + 1
      /\ \A i \in 1 .. n : Append(list, e)[i] = list[i]
      /\ Append(list, e)[n + 1] = e
  BY AppendProperties, LenProperties
<1>2. Of(Append(list, e)) = Of(list) \cup {i \in {n + 1} : e.kind = kind}
  BY <1>1
<1>3. IsFiniteSet(Of(list)) /\ n + 1 \notin Of(list)
  <2>1. IsFiniteSet(1 .. n)
    BY <1>1, FS_Interval
  <2>2. Of(list) \in SUBSET (1 .. n)
    BY <1>1
  <2>3. IsFiniteSet(Of(list))
    BY <2>1, <2>2, FS_Subset
  <2> QED
    BY <1>1, <2>3
<1>4. CASE e.kind = kind
  <2>1. Of(Append(list, e)) = Of(list) \cup {n + 1}
    BY <1>2, <1>4
  <2>2. Cardinality(Of(list) \cup {n + 1}) = Cardinality(Of(list)) + 1
    BY <1>3, FS_AddElement
  <2> QED
    BY <1>4, <2>1, <2>2 DEF Count
<1>5. CASE e.kind # kind
  <2>1. Of(Append(list, e)) = Of(list)
    BY <1>2, <1>5
  <2> QED
    BY <1>5, <2>1 DEF Count
<1> QED
  BY <1>4, <1>5

\* The operations on a configuration, each with the guard that lets the
\* environment win.
LEMMA StandardWins ==
    ASSUME NEW e, NEW r, Good(r, e)
    PROVE  Good(addMsgEvent_Standard(r, infoSeqNo), e)
<1> DEFINE s == addMsgEvent_Standard(r, infoSeqNo)
<1>1. s = [rate |-> r.rate, constant |-> Append(r.constant, infoSeqNo), chance |-> r.chance,
           msg_no |-> r.msg_no, seed |-> r.seed, next_seed |-> r.next_seed]
  <2>1. r = [rate |-> r.rate, constant |-> r.constant, chance |-> r.chance,
             msg_no |-> r.msg_no, seed |-> r.seed, next_seed |-> r.next_seed]
    BY DEF Good, IsConfiguration
  <2>2. s = [r EXCEPT !.constant = Append(r.constant, infoSeqNo)]
    BY DEF addMsgEvent_Standard
  <2> HIDE DEF s
  <2> DEFINE added == Append(r.constant, infoSeqNo)
  <2> HIDE DEF added
  <2>3. s = [r EXCEPT !.constant = added]
    BY <2>2 DEF added
  <2>4. s = [rate |-> r.rate, constant |-> added, chance |-> r.chance,
             msg_no |-> r.msg_no, seed |-> r.seed, next_seed |-> r.next_seed]
    BY <2>1, <2>3
  <2> QED
    BY <2>4 DEF added
<1> HIDE DEF s
<1>2. IsConfiguration(s)
  BY <1>1 DEF Good, IsConfiguration
<1>3. /\ s.rate = r.rate /\ s.seed = r.seed /\ s.chance = r.chance
      /\ s.constant = Append(r.constant, infoSeqNo)
  BY <1>1
<1>4. Wins(s, e)
  <2> DEFINE S == {infoSeqNo, Specific(e)}
             list == r.constant
             longer == Append(list, infoSeqNo)
  <2>1. list \in Seq(S) /\ infoSeqNo \in S
    BY DEF Good, Wins
  <2>2. infoSeqNo.kind # "drop"
    BY Kinds
  <2> HIDE DEF S, list
  <2>3. longer \in Seq(S) /\ Count(longer, "drop") = Count(list, "drop")
    BY <2>1, <2>2, CountAppend, AppendProperties
  <2>4. ASSUME NEW x \in Range(list) PROVE x \in Range(longer)
    <3>1. DOMAIN list = 1 .. Len(list) /\ Len(list) \in Nat
      BY <2>1, LenProperties
    <3>2. PICK i \in DOMAIN list : list[i] = x
      BY DEF Range
    <3>3. i \in DOMAIN longer /\ longer[i] = x
      BY <2>1, <3>1, <3>2, AppendProperties
    <3> QED
      BY <3>3 DEF Range
  <2> HIDE DEF longer
  <2>5. s.constant = longer
    BY <1>3 DEF longer, list
  <2> QED
    BY <1>3, <2>3, <2>4, <2>5 DEF Good, Wins, S, list
<1> QED
  BY <1>2, <1>4 DEF Good, s

LEMMA RateWins ==
    ASSUME NEW e, NEW r, NEW rate, Good(r, e)
    PROVE  Good(setUserMode_ErrRate(r, e, rate), e)
<1>1. CASE is_set_number(e.rate)
  BY <1>1 DEF setUserMode_ErrRate
<1>2. CASE ~is_set_number(e.rate)
  <2> DEFINE s == setErrorRate(r, rate)
  <2>1. s = [rate |-> rate, constant |-> r.constant, chance |-> r.chance,
             msg_no |-> r.msg_no, seed |-> r.seed, next_seed |-> r.next_seed]
    BY DEF setErrorRate, Good, IsConfiguration
  <2>2. setUserMode_ErrRate(r, e, rate) = s
    BY <1>2 DEF setUserMode_ErrRate
  <2> HIDE DEF s
  <2>3. IsConfiguration(s)
    BY <2>1 DEF Good, IsConfiguration
  <2>4. s.seed = r.seed /\ s.chance = r.chance /\ s.constant = r.constant
    BY <2>1
  <2>5. Wins(s, e)
    BY <1>2, <2>4 DEF Good, Wins
  <2> QED
    BY <2>2, <2>3, <2>5 DEF Good
<1> QED
  BY <1>1, <1>2

LEMMA SeedWins ==
    ASSUME NEW e, NEW r, NEW seed, Good(r, e)
    PROVE  Good(setUserMode_SeedRand(r, e, seed), e)
<1>1. CASE is_set_number(e.seed)
  BY <1>1 DEF setUserMode_SeedRand
<1>2. CASE ~is_set_number(e.seed)
  <2> DEFINE s == setRandSeed(r, seed)
  <2>1. s = [rate |-> r.rate, constant |-> r.constant, chance |-> r.chance,
             msg_no |-> r.msg_no, seed |-> seed, next_seed |-> r.next_seed]
    BY DEF setRandSeed, Good, IsConfiguration
  <2>2. setUserMode_SeedRand(r, e, seed) = s
    BY <1>2 DEF setUserMode_SeedRand
  <2> HIDE DEF s
  <2>3. IsConfiguration(s)
    BY <2>1 DEF Good, IsConfiguration
  <2>4. s.rate = r.rate /\ s.chance = r.chance /\ s.constant = r.constant
    BY <2>1
  <2>5. Wins(s, e)
    BY <1>2, <2>4 DEF Good, Wins
  <2> QED
    BY <2>2, <2>3, <2>5 DEF Good
<1> QED
  BY <1>1, <1>2

\* Another random event, of a kind that the environment does not set.
LEMMA RandomWins ==
    ASSUME NEW e, NEW r, NEW event \in {errorDrop, errorFlipBits}, Good(r, e),
           event.kind = "drop" => ~is_set_list(e.drop),
           event.kind = "flip" => ~is_set_list(e.flip)
    PROVE  Good(addMsgEvent_Random(r, event), e)
<1> DEFINE s == addMsgEvent_Random(r, event)
<1>1. s = [rate |-> r.rate, constant |-> r.constant, chance |-> Append(r.chance, event),
           msg_no |-> r.msg_no, seed |-> r.seed, next_seed |-> r.next_seed]
  <2>1. r = [rate |-> r.rate, constant |-> r.constant, chance |-> r.chance,
             msg_no |-> r.msg_no, seed |-> r.seed, next_seed |-> r.next_seed]
    BY DEF Good, IsConfiguration
  <2> DEFINE added == Append(r.chance, event)
  <2>2. s = [r EXCEPT !.chance = added]
    BY DEF addMsgEvent_Random
  <2> HIDE DEF s, added
  <2>3. s = [rate |-> r.rate, constant |-> r.constant, chance |-> added,
             msg_no |-> r.msg_no, seed |-> r.seed, next_seed |-> r.next_seed]
    BY <2>1, <2>2
  <2> QED
    BY <2>3 DEF added
<1>2. /\ event.kind # "drop" => Count(Append(r.chance, event), "drop") = Count(r.chance, "drop")
      /\ event.kind # "flip" => Count(Append(r.chance, event), "flip") = Count(r.chance, "flip")
  BY CountAppend DEF Good, IsConfiguration
<1>3. Append(r.chance, event) \in Seq({errorDrop, errorFlipBits})
  BY AppendProperties DEF Good, IsConfiguration
<1> HIDE DEF s
<1>4. IsConfiguration(s)
  BY <1>1, <1>3 DEF IsConfiguration
<1>5. /\ s.rate = r.rate /\ s.seed = r.seed /\ s.constant = r.constant
      /\ s.chance = Append(r.chance, event)
  BY <1>1
<1>6. Wins(s, e)
  BY <1>2, <1>5, GivenIsSet DEF Good, Wins
<1> QED
  BY <1>4, <1>6 DEF Good, s

LEMMA DropWins ==
    ASSUME NEW e, NEW r, NEW enabled, Good(r, e)
    PROVE  Good(setUserMode_ErrDrop(r, e, enabled), e)
<1>1. CASE ~is_set_list(e.drop)
  <2>1. errorDrop.kind = "drop" /\ ~(errorDrop.kind = "flip")
    BY Kinds
  <2>2. Good(addMsgEvent_Random(r, errorDrop), e)
    BY <1>1, <2>1, RandomWins
  <2> QED
    BY <2>2 DEF setUserMode_ErrDrop
<1>2. CASE is_set_list(e.drop)
  BY <1>2 DEF setUserMode_ErrDrop
<1> QED
  BY <1>1, <1>2

LEMMA FlipWins ==
    ASSUME NEW e, NEW r, NEW enabled, Good(r, e)
    PROVE  Good(setUserMode_ErrFlip(r, e, enabled), e)
<1>1. CASE ~is_set_list(e.flip)
  <2>1. errorFlipBits.kind = "flip" /\ ~(errorFlipBits.kind = "drop")
    BY Kinds
  <2>2. Good(addMsgEvent_Random(r, errorFlipBits), e)
    BY <1>1, <2>1, RandomWins
  <2> QED
    BY <2>2 DEF setUserMode_ErrFlip
<1>2. CASE is_set_list(e.flip)
  BY <1>2 DEF setUserMode_ErrFlip
<1> QED
  BY <1>1, <1>2

\* A change of the message number or of the next seed is none of the environment's.
LEMMA NumbersWin ==
    ASSUME NEW e, NEW r, NEW n, Good(r, e)
    PROVE  Good([r EXCEPT !.next_seed = n], e) /\ Good([r EXCEPT !.msg_no = n], e)
<1> DEFINE s == [r EXCEPT !.next_seed = n]
           t == [r EXCEPT !.msg_no = n]
<1>1. s = [rate |-> r.rate, constant |-> r.constant, chance |-> r.chance,
           msg_no |-> r.msg_no, seed |-> r.seed, next_seed |-> n]
  BY DEF Good, IsConfiguration
<1>2. t = [rate |-> r.rate, constant |-> r.constant, chance |-> r.chance,
           msg_no |-> n, seed |-> r.seed, next_seed |-> r.next_seed]
  BY DEF Good, IsConfiguration
<1> HIDE DEF s, t
<1>3. IsConfiguration(s) /\ IsConfiguration(t)
  BY <1>1, <1>2 DEF Good, IsConfiguration
<1>4. /\ s.rate = r.rate /\ s.seed = r.seed
      /\ s.chance = r.chance /\ s.constant = r.constant
      /\ t.rate = r.rate /\ t.seed = r.seed
      /\ t.chance = r.chance /\ t.constant = r.constant
  BY <1>1, <1>2
<1>5. Wins(s, e) /\ Wins(t, e)
  BY <1>4 DEF Good, Wins
<1> QED
  BY <1>3, <1>5 DEF Good, s, t

\* The constructor of SettingsManager.
LEMMA LoadedGood ==
    ASSUME NEW e, NEW time
    PROVE  Good(Loaded(e, time), e)
<1> DEFINE r0 == NewPacketManager(time)
           r1 == loadEnvData_SeedRand(r0, e)
           r2 == loadEnvData_ErrRate(r1, e)
           r3 == loadEnvData_ErrDrop(r2, e)
           r4 == loadEnvData_ErrFlip(r3, e)
           S == {errorDrop, errorFlipBits}
           specific == Specific(e)
           Shape(r) == r = [rate |-> r.rate, constant |-> r.constant, chance |-> r.chance,
                            msg_no |-> r.msg_no, seed |-> r.seed, next_seed |-> r.next_seed]
<1>1. /\ Shape(r1) /\ r1.chance = <<>> /\ r1.constant = <<>>
      /\ (is_set_number(e.seed) => r1.seed = Head(e.seed))
  BY DEF NewPacketManager, loadEnvData_SeedRand, setRandSeed
<1> HIDE DEF r1
<1>2. /\ Shape(r2) /\ r2.chance = <<>> /\ r2.constant = <<>>
      /\ (is_set_number(e.seed) => r2.seed = Head(e.seed))
      /\ is_set_number(e.rate) => r2.rate = Head(e.rate)
  BY <1>1 DEF loadEnvData_ErrRate, setErrorRate
<1> HIDE DEF r2, specific
<1>3. /\ Shape(r3) /\ r3.rate = r2.rate /\ r3.seed = r2.seed
      /\ r3.chance = IF is_set_list(e.drop) /\ ~ListGiven(e.drop) THEN <<errorDrop>> ELSE <<>>
      /\ r3.constant = IF ListGiven(e.drop) THEN <<specific>> ELSE <<>>
  <2>1. CASE ~is_set_list(e.drop)
    BY <1>2, <2>1, GivenIsSet DEF loadEnvData_ErrDrop
  <2>2. CASE is_set_list(e.drop) /\ parserLong2Uint32(e.drop) = {}
    <3>1. r3 = [r2 EXCEPT !.chance = Append(@, errorDrop)]
      BY <2>2 DEF loadEnvData_ErrDrop, addMsgEvent_Random
    <3> HIDE DEF r3
    <3>2. r3.chance = Append(<<>>, errorDrop) /\ Append(<<>>, errorDrop) = <<errorDrop>>
      BY <1>2, <3>1
    <3>3. Shape(r3) /\ r3.rate = r2.rate /\ r3.seed = r2.seed /\ r3.constant = <<>>
      BY <1>2, <3>1
    <3> QED
      BY <2>2, <3>2, <3>3 DEF ListGiven
  <2>3. CASE is_set_list(e.drop) /\ parserLong2Uint32(e.drop) # {}
    <3>1. r3 = [r2 EXCEPT !.constant = Append(@, specific)]
      BY <2>3 DEF loadEnvData_ErrDrop, addMsgEvent_Standard, specific, Specific
    <3> HIDE DEF r3
    <3>2. Shape(r3) /\ r3.rate = r2.rate /\ r3.seed = r2.seed /\ r3.chance = <<>>
      BY <1>2, <3>1
    <3>3. r3.constant = Append(<<>>, specific) /\ Append(<<>>, specific) = <<specific>>
      BY <1>2, <3>1
    <3> QED
      BY <2>3, <3>2, <3>3 DEF ListGiven
  <2> QED
    BY <2>1, <2>2, <2>3
<1> HIDE DEF r3
<1>4. /\ Shape(r4) /\ r4.rate = r3.rate /\ r4.seed = r3.seed /\ r4.constant = r3.constant
      /\ r4.chance = IF is_set_list(e.flip) /\ ~ListGiven(e.flip)
                     THEN Append(r3.chance, errorFlipBits) ELSE r3.chance
  BY <1>3 DEF loadEnvData_ErrFlip, addMsgEvent_Random, ListGiven
<1> HIDE DEF r4
<1>5. errorDrop \in S /\ errorFlipBits \in S /\ <<>> \in Seq(S)
      /\ Append(<<>>, errorDrop) = <<errorDrop>>
  BY EmptySeq
<1> HIDE DEF S
<1>6. /\ Count(<<>>, "drop") = 0 /\ Count(<<>>, "flip") = 0
      /\ Count(<<errorDrop>>, "drop") = 1 /\ Count(<<errorDrop>>, "flip") = 0
      /\ <<errorDrop>> \in Seq(S)
  <2> DEFINE none == <<>>
  <2>1. /\ Count(Append(none, errorDrop), "drop") = Count(none, "drop") + 1
        /\ Count(Append(none, errorDrop), "flip") = Count(none, "flip")
    <3>1. none \in Seq(S) /\ errorDrop \in S
      BY <1>5
    <3> HIDE DEF none
    <3> QED
      BY <3>1, CountAppend, Kinds
  <2>2. Append(<<>>, errorDrop) \in Seq(S)
    BY <1>5, AppendProperties
  <2>3. Count(<<>>, "drop") = 0 /\ Count(<<>>, "flip") = 0
    BY CountEmpty
  <2> QED
    BY <1>5, <2>1, <2>2, <2>3
<1>7. /\ r3.chance \in Seq(S) /\ Count(r3.chance, "flip") = 0
      /\ ListGiven(e.drop) => Count(r3.chance, "drop") = 0
      /\ RandomGiven(e.drop) => Count(r3.chance, "drop") = 1
  BY <1>3, <1>5, <1>6, GivenIsSet
<1>8. /\ Append(r3.chance, errorFlipBits) \in Seq(S)
      /\ Count(Append(r3.chance, errorFlipBits), "flip") = 1
      /\ Count(Append(r3.chance, errorFlipBits), "drop") = Count(r3.chance, "drop")
  BY <1>5, <1>7, CountAppend, AppendProperties, Kinds
<1>9. /\ r3.constant \in Seq({infoSeqNo, specific})
      /\ ListGiven(e.drop) => specific \in Range(r3.constant) /\ Count(r3.constant, "drop") = 1
      /\ RandomGiven(e.drop) => Count(r3.constant, "drop") = 0
  <2> DEFINE E == {infoSeqNo, specific}
             none == <<>>
  <2>1. none \in Seq(E) /\ specific \in E
    BY EmptySeq
  <2>2. specific.kind = "drop"
    BY Kinds DEF specific, Specific
  <2>3. Count(none, "drop") = 0
    BY CountEmpty
  <2>4. Append(none, specific) = <<specific>>
    OBVIOUS
  <2> HIDE DEF E, none
  <2>5. Append(none, specific) \in Seq(E) /\ Count(Append(none, specific), "drop") = 1
    BY <2>1, <2>2, <2>3, CountAppend, AppendProperties
  <2>6. specific \in Range(<<specific>>)
    <3>1. 1 \in DOMAIN <<specific>> /\ <<specific>>[1] = specific
      OBVIOUS
    <3> QED
      BY <3>1 DEF Range
  <2>7. CASE ListGiven(e.drop)
    BY <1>3, <2>4, <2>5, <2>6, <2>7, GivenIsSet DEF E
  <2>8. CASE ~ListGiven(e.drop)
    BY <1>3, <2>1, <2>3, <2>8 DEF E, none
  <2> QED
    BY <2>7, <2>8
<1>10. r4.chance \in Seq(S) /\ Wins(r4, e)
  <2>1. /\ ListGiven(e.drop) => Count(r4.chance, "drop") = 0
        /\ RandomGiven(e.drop) => Count(r4.chance, "drop") = 1
        /\ RandomGiven(e.flip) => Count(r4.chance, "flip") = 1
        /\ r4.chance \in Seq(S)
    BY <1>4, <1>7, <1>8, GivenIsSet
  <2> QED
    BY <1>2, <1>3, <1>4, <1>9, <2>1 DEF Wins, specific
<1> QED
  BY <1>4, <1>10 DEF Loaded, Good, IsConfiguration, r1, r2, r3, r4, S

\* sendErr_init, called any number of times.
LEMMA InitWins ==
    ASSUME NEW e, NEW r, NEW rate, NEW drop, NEW flip, NEW random, NEW time, Good(r, e)
    PROVE  Good(sendErr_init(r, e, rate, drop, flip, random, time), e)
<1> DEFINE info == addMsgEvent_Standard(r, infoSeqNo)
           rated == setUserMode_ErrRate(info, e, rate)
           dropping == setUserMode_ErrDrop(rated, e, drop)
           flipping == setUserMode_ErrFlip(dropping, e, flip)
           seed == IF random THEN time ELSE r.next_seed
           seeded == setUserMode_SeedRand(flipping, e, seed)
<1>1. Good(info, e)
  BY StandardWins
<1>2. Good(rated, e)
  BY <1>1, RateWins
<1>3. Good(dropping, e)
  BY <1>2, DropWins
<1>4. Good(flipping, e)
  BY <1>3, FlipWins
<1>5. Good(seeded, e)
  BY <1>4, SeedWins
<1> DEFINE next == NextSeed(r, random, time)
<1>6. sendErr_init(r, e, rate, drop, flip, random, time) = [seeded EXCEPT !.next_seed = next]
  BY DEF sendErr_init
<1> HIDE DEF info, rated, dropping, flipping, seed, seeded, next
<1>7. Good([seeded EXCEPT !.next_seed = next], e)
  BY <1>5, NumbersWin
<1> QED
  BY <1>6, <1>7

\* fork, in the parent and in the child.
LEMMA ForkWins ==
    ASSUME NEW e, NEW r, Good(r, e)
    PROVE  Good(forked_parent(r), e) /\ Good(forked_child(r, e), e)
<1> DEFINE n == r.next_seed + 1
<1>1. forked_parent(r) = [r EXCEPT !.next_seed = n]
  BY DEF forked_parent
<1> HIDE DEF n
<1>2. Good(forked_parent(r), e)
  <2>1. Good([r EXCEPT !.next_seed = n], e)
    BY NumbersWin
  <2> QED
    BY <1>1, <2>1
<1> QED
  BY <1>2, SeedWins DEF forked_child

WinInv ==
    /\ pm = [p \in Process |-> pm[p]]
    /\ \A p \in Process : Good(pm[p], env)

LEMMA WinInit == LinkInit => WinInv
BY LoadedGood DEF LinkInit, WinInv

LEMMA WinStep ==
    ASSUME WinInv, [LinkNext]_linkVars
    PROVE  WinInv'
<1>1. ASSUME NEW p \in Process, NEW r, Good(r, env), UNCHANGED env, pm' = [pm EXCEPT ![p] = r]
      PROVE  WinInv'
  <2>1. pm' = [q \in Process |-> IF q = p THEN r ELSE pm[q]]
    BY <1>1 DEF WinInv
  <2>2. \A q \in Process : Good(pm'[q], env)
    BY <1>1, <2>1 DEF WinInv
  <2> QED
    BY <1>1, <2>1, <2>2 DEF WinInv
<1>2. ASSUME UNCHANGED <<env, pm>> PROVE WinInv'
  BY <1>2 DEF WinInv
<1>3. ASSUME NEW p \in Process, init(p) PROVE WinInv'
  <2>1. Good(initialised(p), env)
    BY InitWins DEF WinInv, initialised
  <2> QED
    BY <1>1, <1>3, <2>1 DEF init
<1>4. ASSUME NEW p \in Process, sendto_Err(p) PROVE WinInv'
  <2>1. Good([pm[p] EXCEPT !.msg_no = next_msg_no(pm[p])], env)
    BY NumbersWin DEF WinInv
  <2>2. pm' = [pm EXCEPT ![p] = [pm[p] EXCEPT !.msg_no = next_msg_no(pm[p])]]
    BY <1>4 DEF sendto_Err
  <2> QED
    BY <1>1, <1>4, <2>1, <2>2 DEF sendto_Err
<1>5. ASSUME NEW c \in Child, forkMod(c) PROVE WinInv'
  <2> DEFINE parent == forked_parent(pm[Server])
             child == forked_child(pm[Server], env)
  <2>1. Server \in Process /\ c \in Process /\ c # Server
    BY <1>5, ErrorLinkAssumption DEF Process, Program
  <2>2. Good(parent, env) /\ Good(child, env)
    BY <2>1, ForkWins DEF WinInv
  <2>3. pm' = [pm EXCEPT ![Server] = parent, ![c] = child] /\ env' = env
    BY <1>5 DEF forkMod
  <2> HIDE DEF parent, child
  <2>4. pm' = [q \in Process |-> IF q = c THEN child ELSE IF q = Server THEN parent ELSE pm[q]]
    BY <2>1, <2>3 DEF WinInv
  <2>5. \A q \in Process : Good(pm'[q], env)
    BY <2>2, <2>4 DEF WinInv
  <2> QED
    BY <2>3, <2>4, <2>5 DEF WinInv
<1>6. CASE Second \/ UNCHANGED linkVars
  BY <1>2, <1>6 DEF Second, linkVars
<1> QED
  BY <1>3, <1>4, <1>5, <1>6 DEF LinkNext, LinkIdle

\* The rate, the seed, the list of messages to drop and the random drops and flips
\* that the environment asks for are in force in every process, and nothing that
\* the program asks for beside them, however often that process and its ancestors
\* have called sendErr_init and fork.
THEOREM EnvironmentHasPrecedence == LinkSpec => []EnvironmentWins
<1>1. WinInv => EnvironmentWins
  BY DEF WinInv, Good, Wins, Specific, EnvironmentWins
<1>2. WinInv /\ [LinkNext]_linkVars => WinInv'
  BY WinStep
<1> QED
  BY <1>1, <1>2, WinInit, PTL DEF LinkSpec

-----------------------------------------------------------------------------
(***************************************************************************)
(* The lists of events.                                                    *)
(***************************************************************************)
Silent(e) == ~is_set_list(e.drop) /\ ~is_set_list(e.flip)

Listed(e) == parserLong2Uint32(e.drop)

LEMMA LoadedLists ==
    ASSUME NEW e, NEW time
    PROVE  LET r == Loaded(e, time)
           IN  /\ r.msg_no = 0
               /\ r.rate = IF is_set_number(e.rate) THEN Head(e.rate) ELSE 0
               /\ r.constant \in {<<>>, <<setDropSpecific(Listed(e))>>}
               /\ Silent(e) => r.chance = <<>>
               /\ ListGiven(e.drop) =>
                     /\ r.constant = <<setDropSpecific(Listed(e))>>
                     /\ r.chance = <<>> \/ r.chance = <<errorFlipBits>>
<1> DEFINE r0 == NewPacketManager(time)
           r1 == loadEnvData_SeedRand(r0, e)
           r2 == loadEnvData_ErrRate(r1, e)
           r3 == loadEnvData_ErrDrop(r2, e)
           r4 == loadEnvData_ErrFlip(r3, e)
           specific == setDropSpecific(Listed(e))
           Shape(r) == r = [rate |-> r.rate, constant |-> r.constant, chance |-> r.chance,
                            msg_no |-> r.msg_no, seed |-> r.seed, next_seed |-> r.next_seed]
           R == IF is_set_number(e.rate) THEN Head(e.rate) ELSE 0
<1>1. Shape(r1) /\ r1.chance = <<>> /\ r1.constant = <<>> /\ r1.msg_no = 0 /\ r1.rate = 0
  BY DEF NewPacketManager, loadEnvData_SeedRand, setRandSeed
<1> HIDE DEF r1
<1>2. Shape(r2) /\ r2.chance = <<>> /\ r2.constant = <<>> /\ r2.msg_no = 0 /\ r2.rate = R
  BY <1>1 DEF loadEnvData_ErrRate, setErrorRate
<1> HIDE DEF r2, specific, R
<1>3. /\ Shape(r3) /\ r3.msg_no = 0 /\ r3.rate = R /\ r3.constant \in {<<>>, <<specific>>}
      /\ Silent(e) => r3.chance = <<>>
      /\ ListGiven(e.drop) => r3.chance = <<>> /\ r3.constant = <<specific>>
  <2>1. CASE ~is_set_list(e.drop)
    <3>1. r3 = r2
      BY <2>1 DEF loadEnvData_ErrDrop
    <3> QED
      BY <1>2, <2>1, <3>1 DEF ListGiven
  <2>2. CASE is_set_list(e.drop) /\ parserLong2Uint32(e.drop) = {}
    <3>1. r3 = [r2 EXCEPT !.chance = Append(@, errorDrop)]
      BY <2>2 DEF loadEnvData_ErrDrop, addMsgEvent_Random
    <3> HIDE DEF r3
    <3>2. Shape(r3) /\ r3.msg_no = 0 /\ r3.rate = R /\ r3.constant = <<>>
      BY <1>2, <3>1
    <3> QED
      BY <2>2, <3>2 DEF ListGiven, Silent
  <2>3. CASE is_set_list(e.drop) /\ parserLong2Uint32(e.drop) # {}
    <3>1. r3 = [r2 EXCEPT !.constant = Append(@, specific)]
      BY <2>3 DEF loadEnvData_ErrDrop, addMsgEvent_Standard, specific, Listed
    <3> HIDE DEF r3
    <3>2. Shape(r3) /\ r3.msg_no = 0 /\ r3.rate = R /\ r3.chance = <<>>
      BY <1>2, <3>1
    <3>3. r3.constant = Append(<<>>, specific)
      BY <1>2, <3>1
    <3>4. Append(<<>>, specific) = <<specific>>
      OBVIOUS
    <3> QED
      BY <3>2, <3>3, <3>4
  <2> QED
    BY <2>1, <2>2, <2>3
<1> HIDE DEF r3
<1>4. CASE r4 = r3
  BY <1>3, <1>4 DEF Loaded, r1, r2, r3, r4, specific, R
<1>5. CASE is_set_list(e.flip) /\ r4 = [r3 EXCEPT !.chance = Append(@, errorFlipBits)]
  <2> HIDE DEF r4
  <2>1. r4.msg_no = 0 /\ r4.rate = R /\ r4.constant = r3.constant /\ r4.chance = Append(r3.chance, errorFlipBits)
    BY <1>3, <1>5
  <2>2. Append(<<>>, errorFlipBits) = <<errorFlipBits>>
    OBVIOUS
  <2>3. ~Silent(e)
    BY <1>5 DEF Silent
  <2>4. ListGiven(e.drop) => r4.constant = <<specific>> /\ r4.chance = <<errorFlipBits>>
    BY <1>3, <2>1, <2>2
  <2>5. r4.constant \in {<<>>, <<specific>>}
    BY <1>3, <2>1
  <2> QED
    BY <2>1, <2>3, <2>4, <2>5 DEF Loaded, r1, r2, r3, r4, specific, R
<1>6. r4 = r3 \/ (is_set_list(e.flip) /\ r4 = [r3 EXCEPT !.chance = Append(@, errorFlipBits)])
  BY DEF loadEnvData_ErrFlip, addMsgEvent_Random
<1> QED
  BY <1>4, <1>5, <1>6

\* What sendErr_init adds to the lists of r, which makes them those of s.
InitAdds(s, r, e) ==
    LET d == IF is_set_list(e.drop) THEN r.chance ELSE Append(r.chance, errorDrop)
    IN  /\ s.msg_no = r.msg_no
        /\ s.constant = Append(r.constant, infoSeqNo)
        /\ s.chance = IF is_set_list(e.flip) THEN d ELSE Append(d, errorFlipBits)

LEMMA InitLists ==
    ASSUME NEW e, NEW r, NEW rate, NEW random, NEW time, Good(r, e)
    PROVE  /\ InitAdds(sendErr_init(r, e, rate, TRUE, TRUE, random, time), r, e)
           /\ sendErr_init(r, e, rate, TRUE, TRUE, random, time).rate \in {r.rate, rate}
<1> DEFINE info == addMsgEvent_Standard(r, infoSeqNo)
           rated == setUserMode_ErrRate(info, e, rate)
           dropping == setUserMode_ErrDrop(rated, e, TRUE)
           flipping == setUserMode_ErrFlip(dropping, e, TRUE)
           seed == IF random THEN time ELSE r.next_seed
           seeded == setUserMode_SeedRand(flipping, e, seed)
           next == NextSeed(r, random, time)
           d == IF is_set_list(e.drop) THEN r.chance ELSE Append(r.chance, errorDrop)
<1>1. Good(info, e) /\ Good(rated, e) /\ Good(dropping, e) /\ Good(flipping, e) /\ Good(seeded, e)
  <2>1. Good(info, e)
    BY StandardWins
  <2>2. Good(rated, e)
    BY <2>1, RateWins
  <2>3. Good(dropping, e)
    BY <2>2, DropWins
  <2>4. Good(flipping, e)
    BY <2>3, FlipWins
  <2>5. Good(seeded, e)
    BY <2>4, SeedWins
  <2> QED
    BY <2>1, <2>2, <2>3, <2>4, <2>5
<1>2. info.msg_no = r.msg_no /\ info.chance = r.chance /\ info.rate = r.rate
      /\ info.constant = Append(r.constant, infoSeqNo)
  BY DEF addMsgEvent_Standard, Good, IsConfiguration
<1> HIDE DEF info
<1>3. rated.msg_no = info.msg_no /\ rated.chance = info.chance /\ rated.constant = info.constant
      /\ rated.rate \in {info.rate, rate}
  BY <1>1 DEF setUserMode_ErrRate, setErrorRate, Good, IsConfiguration
<1> HIDE DEF rated
<1>4. dropping.msg_no = rated.msg_no /\ dropping.rate = rated.rate /\ dropping.constant = rated.constant
      /\ dropping.chance = IF is_set_list(e.drop) THEN rated.chance
                           ELSE Append(rated.chance, errorDrop)
  BY <1>1 DEF setUserMode_ErrDrop, addMsgEvent_Random, Good, IsConfiguration
<1> HIDE DEF dropping
<1>5. flipping.msg_no = dropping.msg_no /\ flipping.rate = dropping.rate /\ flipping.constant = dropping.constant
      /\ flipping.chance = IF is_set_list(e.flip) THEN dropping.chance
                           ELSE Append(dropping.chance, errorFlipBits)
  BY <1>1 DEF setUserMode_ErrFlip, addMsgEvent_Random, Good, IsConfiguration
<1> HIDE DEF flipping, seed
<1>6. seeded.msg_no = flipping.msg_no /\ seeded.rate = flipping.rate /\ seeded.chance = flipping.chance
      /\ seeded.constant = flipping.constant
  BY <1>1 DEF setUserMode_SeedRand, setRandSeed, Good, IsConfiguration
<1>7. sendErr_init(r, e, rate, TRUE, TRUE, random, time) = [seeded EXCEPT !.next_seed = next]
  BY DEF sendErr_init, seeded, flipping, dropping, rated, info, seed
<1> HIDE DEF seeded, next
<1> DEFINE s == [seeded EXCEPT !.next_seed = next]
<1>8. /\ s.msg_no = seeded.msg_no /\ s.chance = seeded.chance
      /\ s.constant = seeded.constant /\ s.rate = seeded.rate
  BY <1>1 DEF Good, IsConfiguration
<1> HIDE DEF s
<1>9. s.msg_no = r.msg_no /\ s.constant = Append(r.constant, infoSeqNo)
      /\ s.chance = IF is_set_list(e.flip) THEN d ELSE Append(d, errorFlipBits)
  BY <1>2, <1>3, <1>4, <1>5, <1>6, <1>8
<1>10. InitAdds(s, r, e)
  BY <1>9 DEF InitAdds
<1>11. s.rate \in {r.rate, rate}
  BY <1>2, <1>3, <1>4, <1>5, <1>6, <1>8
<1> QED
  BY <1>7, <1>10, <1>11 DEF s

LEMMA ForkLists ==
    ASSUME NEW e, NEW r, Good(r, e)
    PROVE  \A s \in {forked_parent(r), forked_child(r, e)} :
              /\ s.msg_no = r.msg_no /\ s.rate = r.rate
              /\ s.chance = r.chance /\ s.constant = r.constant
<1> DEFINE t == forked_parent(r)
           next == r.next_seed
<1>1. t.msg_no = r.msg_no /\ t.rate = r.rate /\ t.chance = r.chance /\ t.constant = r.constant
  BY DEF forked_parent, Good, IsConfiguration
<1>2. Good(t, e)
  BY ForkWins
<1>3. forked_child(r, e) = setUserMode_SeedRand(t, e, next)
  BY DEF forked_child
<1> HIDE DEF t, next
<1> DEFINE s == setUserMode_SeedRand(t, e, next)
<1>4. s.msg_no = t.msg_no /\ s.rate = t.rate /\ s.chance = t.chance /\ s.constant = t.constant
  BY <1>2 DEF setUserMode_SeedRand, setRandSeed, Good, IsConfiguration
<1> QED
  BY <1>1, <1>3, <1>4 DEF t

SameLists(s, r) ==
    /\ s.msg_no = r.msg_no /\ s.rate = r.rate
    /\ s.chance = r.chance /\ s.constant = r.constant

\* Which configurations each action changes.
LEMMA InitChanges ==
    ASSUME WinInv, NEW p \in Process, init(p)
    PROVE  /\ \A q \in Process \ {p} : pm'[q] = pm[q]
           /\ InitAdds(pm'[p], pm[p], env)
           /\ pm'[p].rate \in {pm[p].rate, ErrorRate}
<1>1. pm'[p] = initialised(p) /\ \A q \in Process \ {p} : pm'[q] = pm[q]
  BY DEF init, WinInv
<1>2. initialised(p) = sendErr_init(pm[p], env, ErrorRate, TRUE, TRUE, RSEED_ON, now)
  BY DEF initialised, DROP_ON, FLIP_ON
<1>3. InitAdds(initialised(p), pm[p], env) /\ initialised(p).rate \in {pm[p].rate, ErrorRate}
  <2> DEFINE r == pm[p]
             s == sendErr_init(r, env, ErrorRate, TRUE, TRUE, RSEED_ON, now)
  <2>1. Good(r, env)
    BY DEF WinInv
  <2> HIDE DEF r
  <2>2. InitAdds(s, r, env) /\ s.rate \in {r.rate, ErrorRate}
    BY <2>1, InitLists
  <2> QED
    BY <1>2, <2>2 DEF r
<1> QED
  BY <1>1, <1>3

LEMMA SendChanges ==
    ASSUME WinInv, NEW p \in Process, sendto_Err(p)
    PROVE  /\ \A q \in Process \ {p} : pm'[q] = pm[q]
           /\ pm'[p].msg_no = next_msg_no(pm[p])
           /\ pm'[p].chance = pm[p].chance /\ pm'[p].constant = pm[p].constant
           /\ pm'[p].rate = pm[p].rate
<1> DEFINE no == next_msg_no(pm[p])
           r == pm[p]
<1>1. pm' = [pm EXCEPT ![p] = [r EXCEPT !.msg_no = no]]
  BY DEF sendto_Err
<1>2. Good(r, env)
  BY DEF WinInv
<1> HIDE DEF no
<1>3. [r EXCEPT !.msg_no = no].msg_no = no /\ [r EXCEPT !.msg_no = no].chance = r.chance
      /\ [r EXCEPT !.msg_no = no].constant = r.constant
      /\ [r EXCEPT !.msg_no = no].rate = r.rate
  <2> HIDE DEF r
  <2> QED
    BY <1>2 DEF Good, IsConfiguration
<1>4. pm'[p] = [r EXCEPT !.msg_no = no] /\ \A q \in Process \ {p} : pm'[q] = pm[q]
  <2> DEFINE s == [r EXCEPT !.msg_no = no]
  <2>1. pm' = [pm EXCEPT ![p] = s]
    BY <1>1
  <2> HIDE DEF s
  <2>2. pm'[p] = s /\ \A q \in Process \ {p} : pm'[q] = pm[q]
    BY <2>1 DEF WinInv
  <2> QED
    BY <2>2 DEF s
<1> QED
  BY <1>3, <1>4 DEF no

LEMMA ForkChanges ==
    ASSUME WinInv, NEW c \in Child, forkMod(c)
    PROVE  /\ Server \in Process /\ c \in Process /\ c # Server
           /\ \A q \in Process \ {Server, c} : pm'[q] = pm[q]
           /\ SameLists(pm'[Server], pm[Server]) /\ SameLists(pm'[c], pm[Server])
<1> DEFINE parent == forked_parent(pm[Server])
           child == forked_child(pm[Server], env)
<1>1. Server \in Process /\ c \in Process /\ c # Server
  BY ErrorLinkAssumption DEF Process, Program
<1>2. SameLists(parent, pm[Server]) /\ SameLists(child, pm[Server])
  BY <1>1, ForkLists DEF WinInv, SameLists
<1>3. pm' = [pm EXCEPT ![Server] = parent, ![c] = child]
  BY DEF forkMod
<1> HIDE DEF parent, child
<1>4. pm'[Server] = parent /\ pm'[c] = child /\ \A q \in Process \ {Server, c} : pm'[q] = pm[q]
  BY <1>1, <1>3 DEF WinInv
<1> QED
  BY <1>1, <1>2, <1>4

-----------------------------------------------------------------------------
(* Drops and flips are equally likely.                                     *)

LEMMA TwoMore ==
    ASSUME NEW S, NEW list \in Seq(S), errorDrop \in S, errorFlipBits \in S
    PROVE  LET l == Append(Append(list, errorDrop), errorFlipBits)
           IN  /\ Count(l, "drop") = Count(list, "drop") + 1
               /\ Count(l, "flip") = Count(list, "flip") + 1
<1>1. errorDrop.kind = "drop" /\ errorDrop.kind # "flip"
      /\ errorFlipBits.kind = "flip" /\ errorFlipBits.kind # "drop"
  BY Kinds
<1> DEFINE m == Append(list, errorDrop)
<1>2. m \in Seq(S) /\ Count(m, "drop") = Count(list, "drop") + 1
      /\ Count(m, "flip") = Count(list, "flip")
  BY <1>1, CountAppend, AppendProperties
<1> HIDE DEF m
<1>3. Count(Append(m, errorFlipBits), "flip") = Count(m, "flip") + 1
      /\ Count(Append(m, errorFlipBits), "drop") = Count(m, "drop")
  BY <1>1, <1>2, CountAppend
<1> QED
  BY <1>2, <1>3 DEF m

Balanced(p) ==
    /\ Count(pm[p].chance, "drop") \in Nat
    /\ Count(pm[p].chance, "flip") = Count(pm[p].chance, "drop")
    /\ phase[p] = "ready" => Count(pm[p].chance, "drop") > 0

\* A process that has not initialised the library has no random events of its own,
\* a child those of its parent; each initialisation adds one of each kind.
OddsInv ==
    /\ phase = [p \in Process |-> phase[p]]
    /\ Silent(env) => \A p \in Process : Balanced(p)

LEMMA OddsInit == LinkInit => OddsInv
<1> SUFFICES ASSUME LinkInit PROVE OddsInv
  OBVIOUS
<1>1. phase = [p \in Process |-> phase[p]] /\ \A p \in Process : phase[p] # "ready"
  BY DEF LinkInit
<1>2. ASSUME Silent(env), NEW p \in Process PROVE Balanced(p)
  <2>1. pm[p].chance = <<>>
    BY <1>2, LoadedLists DEF LinkInit
  <2>2. Count(<<>>, "drop") = 0 /\ Count(<<>>, "flip") = 0
    BY CountEmpty
  <2> QED
    BY <1>1, <2>1, <2>2 DEF Balanced
<1> QED
  BY <1>1, <1>2 DEF OddsInv

LEMMA OddsStep ==
    ASSUME WinInv, OddsInv, [LinkNext]_linkVars
    PROVE  OddsInv'
<1>1. env' = env
  BY DEF LinkNext, LinkIdle, Second, init, sendto_Err, forkMod, linkVars
<1>2. phase' = [p \in Process |-> phase'[p]]
  BY DEF OddsInv, LinkNext, LinkIdle, Second, init, sendto_Err, forkMod, linkVars
<1> SUFFICES ASSUME Silent(env), NEW q \in Process PROVE Balanced(q)'
  BY <1>1, <1>2 DEF OddsInv
<1>3. ASSUME NEW r \in Process, pm'[q].chance = pm[r].chance,
             phase'[q] = "ready" => phase[r] = "ready"
      PROVE  Balanced(q)'
  BY <1>3 DEF OddsInv, Balanced
<1>4. ASSUME NEW p \in Process, init(p) PROVE Balanced(q)'
  <2>1. CASE q # p
    BY <1>3, <1>4, <2>1, InitChanges DEF init, OddsInv
  <2>2. CASE q = p
    <3>1. pm'[p].chance = Append(Append(pm[p].chance, errorDrop), errorFlipBits)
      BY <1>4, InitChanges DEF Silent, InitAdds
    <3>2. pm[p].chance \in Seq({errorDrop, errorFlipBits})
      BY DEF WinInv, Good, IsConfiguration
    <3>3. /\ Count(pm'[p].chance, "drop") = Count(pm[p].chance, "drop") + 1
          /\ Count(pm'[p].chance, "flip") = Count(pm[p].chance, "flip") + 1
      BY <3>1, <3>2, TwoMore
    <3>4. Balanced(p)
      BY DEF OddsInv
    <3> DEFINE a == Count(pm[p].chance, "drop")
               b == Count(pm[p].chance, "flip")
    <3>5. a \in Nat /\ b = a
      BY <3>4 DEF Balanced
    <3> HIDE DEF a, b
    <3>6. a + 1 \in Nat /\ b + 1 = a + 1 /\ a + 1 > 0
      BY <3>5
    <3> QED
      BY <2>2, <3>3, <3>6 DEF Balanced, a, b
  <2> QED
    BY <2>1, <2>2
<1>5. ASSUME NEW p \in Process, sendto_Err(p) PROVE Balanced(q)'
  <2>1. phase' = phase
    BY <1>5 DEF sendto_Err
  <2>2. pm'[q].chance = pm[q].chance
    BY <1>5, SendChanges
  <2> QED
    BY <1>3, <2>1, <2>2
<1>6. ASSUME NEW c \in Child, forkMod(c) PROVE Balanced(q)'
  <2>1. phase[Server] = "ready" /\ phase'[q] = IF q = c THEN "forked" ELSE phase[q]
    BY <1>6 DEF forkMod, OddsInv
  <2>2. CASE q = c \/ q = Server
    <3>1. Server \in Process /\ pm'[q].chance = pm[Server].chance
      BY <1>6, <2>2, ForkChanges DEF SameLists
    <3> QED
      BY <1>3, <2>1, <3>1
  <2>3. CASE q # c /\ q # Server
    <3>1. pm'[q].chance = pm[q].chance
      BY <1>6, <2>3, ForkChanges
    <3> QED
      BY <1>3, <2>1, <2>3, <3>1
  <2> QED
    BY <2>2, <2>3
<1>7. CASE Second \/ UNCHANGED linkVars
  BY <1>3, <1>7 DEF Second, linkVars
<1> QED
  BY <1>4, <1>5, <1>6, <1>7 DEF LinkNext, LinkIdle

\* Where the environment is silent a random event is as often a drop as a flip,
\* however often a process and its ancestors have initialised the library.
THEOREM OddsAreSame == LinkSpec => []SameOdds
<1>1. OddsInv => SameOdds
  BY DEF OddsInv, SameOdds, Silent, Balanced, ready
<1>2. WinInv /\ [LinkNext]_linkVars => WinInv'
  BY WinStep
<1>3. WinInv /\ OddsInv /\ [LinkNext]_linkVars => OddsInv'
  BY OddsStep
<1> QED
  BY <1>1, <1>2, <1>3, WinInit, OddsInit, PTL DEF LinkSpec

-----------------------------------------------------------------------------
(* A drop list drops what it lists.                                        *)

\* Nothing but an event for list drops messages.
DropsOnly(r, list) ==
    /\ r.chance \in Seq({errorFlipBits})
    /\ r.constant \in Seq({infoSeqNo, setDropSpecific(list)})
    /\ \E i \in DOMAIN r.constant : r.constant[i] = setDropSpecific(list)

LEMMA DropsListed ==
    ASSUME NEW r, NEW list, NEW no, DropsOnly(r, list),
           NEW fate \in processEvents(r, no, PacketSize)
    PROVE  fate.dropped <=> no \in list
<1>1. ~Drops(infoSeqNo, no) /\ (Drops(setDropSpecific(list), no) <=> no \in list)
  BY DEF Drops, infoSeqNo, setDropSpecific, Event
<1>2. constant_drops(r, no) <=> no \in list
  <2>1. \A i \in DOMAIN r.constant : r.constant[i] \in {infoSeqNo, setDropSpecific(list)}
    BY ElementOfSeq, LenProperties DEF DropsOnly
  <2>2. PICK i \in DOMAIN r.constant : r.constant[i] = setDropSpecific(list)
    BY DEF DropsOnly
  <2> QED
    BY <1>1, <2>1, <2>2 DEF constant_drops
<1>3. \A f \in by_chance(r, no, PacketSize) : ~f.dropped
  <2>1. Fate(FALSE, {}).dropped = FALSE /\ \A b : Fate(FALSE, {b}).dropped = FALSE
    BY DEF Fate
  <2>2. \A e \in Range(r.chance) : e = errorFlipBits
    <3>1. \A i \in DOMAIN r.chance : r.chance[i] = errorFlipBits
      BY ElementOfSeq, LenProperties DEF DropsOnly
    <3> QED
      BY <3>1 DEF Range
  <2>3. \A f \in run(errorFlipBits, no, PacketSize) : ~f.dropped
    BY <2>1, Kinds DEF run
  <2> QED
    BY <2>1, <2>2, <2>3 DEF by_chance
<1>4. PICK f \in by_chance(r, no, PacketSize) :
         fate = Fate(f.dropped \/ constant_drops(r, no), f.inverted)
  BY DEF processEvents
<1>5. fate.dropped = (f.dropped \/ constant_drops(r, no))
  BY <1>4 DEF Fate
<1> QED
  BY <1>2, <1>3, <1>5

LEMMA LoadedDrops ==
    ASSUME NEW e, NEW time, ListGiven(e.drop)
    PROVE  DropsOnly(Loaded(e, time), Listed(e))
<1> DEFINE r == Loaded(e, time)
           specific == setDropSpecific(Listed(e))
<1>1. r.constant = <<specific>> /\ (r.chance = <<>> \/ r.chance = <<errorFlipBits>>)
  BY LoadedLists
<1> HIDE DEF r, specific
<1>2. r.chance \in Seq({errorFlipBits})
  <2>1. <<>> \in Seq({errorFlipBits}) /\ <<errorFlipBits>> \in Seq({errorFlipBits})
    BY EmptySeq
  <2> QED
    BY <1>1, <2>1
<1>3. r.constant \in Seq({infoSeqNo, specific})
  BY <1>1
<1>4. 1 \in DOMAIN r.constant /\ r.constant[1] = specific
  BY <1>1
<1> QED
  BY <1>2, <1>3, <1>4 DEF DropsOnly, r, specific

LEMMA InitDrops ==
    ASSUME NEW e, NEW r, NEW s, ListGiven(e.drop), DropsOnly(r, Listed(e)), InitAdds(s, r, e)
    PROVE  DropsOnly(s, Listed(e))
<1> DEFINE specific == setDropSpecific(Listed(e))
<1>1. is_set_list(e.drop)
  BY DEF ListGiven
<1>2. /\ s.constant = Append(r.constant, infoSeqNo)
      /\ s.chance = r.chance \/ s.chance = Append(r.chance, errorFlipBits)
  BY <1>1 DEF InitAdds
<1>3. r.chance \in Seq({errorFlipBits}) /\ r.constant \in Seq({infoSeqNo, specific})
  BY DEF DropsOnly
<1>4. PICK i \in DOMAIN r.constant : r.constant[i] = specific
  BY DEF DropsOnly
<1> HIDE DEF specific
<1>5. s.chance \in Seq({errorFlipBits})
  <2>1. Append(r.chance, errorFlipBits) \in Seq({errorFlipBits})
    BY <1>3, AppendProperties
  <2> QED
    BY <1>2, <1>3, <2>1
<1>6. s.constant \in Seq({infoSeqNo, specific})
  BY <1>2, <1>3, AppendProperties
<1>7. i \in DOMAIN s.constant /\ s.constant[i] = specific
  <2>1. i \in 1 .. Len(r.constant)
    BY <1>3, <1>4, LenProperties
  <2>2. /\ DOMAIN Append(r.constant, infoSeqNo) = 1 .. Len(r.constant) + 1
        /\ \A j \in 1 .. Len(r.constant) : Append(r.constant, infoSeqNo)[j] = r.constant[j]
        /\ Len(r.constant) \in Nat
    BY <1>3, AppendProperties, LenProperties
  <2> QED
    BY <1>2, <1>4, <2>1, <2>2
<1> QED
  BY <1>5, <1>6, <1>7 DEF DropsOnly, specific

\* The library numbers the messages of a process as they were sent.
Numbered(p) ==
    /\ DropsOnly(pm[p], Listed(env))
    /\ pm[p].msg_no = Len(log[p])
    /\ phase[p] # "ready" \/ p = Server => log[p] = <<>>
    /\ \A n \in DOMAIN log[p] : log[p][n].dropped <=> n \in Listed(env)

ListInv ==
    /\ phase = [p \in Process |-> phase[p]]
    /\ ListGiven(env.drop) => \A p \in Process : Numbered(p)

LEMMA ListInit == LinkInit => ListInv
<1> SUFFICES ASSUME LinkInit PROVE ListInv
  OBVIOUS
<1>1. phase = [p \in Process |-> phase[p]]
  BY DEF LinkInit
<1>2. ASSUME ListGiven(env.drop), NEW p \in Process PROVE Numbered(p)
  <2>1. pm[p] = Loaded(env, now) /\ log[p] = <<>>
    BY DEF LinkInit
  <2>2. DropsOnly(pm[p], Listed(env))
    BY <1>2, <2>1, LoadedDrops
  <2>3. pm[p].msg_no = 0
    BY <2>1, LoadedLists
  <2>4. Len(<<>>) = 0 /\ DOMAIN <<>> = {}
    OBVIOUS
  <2> QED
    BY <2>1, <2>2, <2>3, <2>4 DEF Numbered
<1> QED
  BY <1>1, <1>2 DEF ListInv

LEMMA SendNumbered ==
    ASSUME MaxSends < MsgSpace, WinInv, FlipInv, ListInv, ListGiven(env.drop),
           NEW p \in Process, sendto_Err(p)
    PROVE  Numbered(p)'
<1> DEFINE r == pm[p]
           s == pm'[p]
           old == log[p]
           new == log'[p]
           n == Len(old)
           list == Listed(env)
           no == next_msg_no(r)
           bytes == kept[p]
<1>1. Numbered(p) /\ old \in Seq(Messages) /\ n \in Nat
  BY LenProperties DEF ListInv, FlipInv
<1>2. n < MaxSends /\ p \in Sender /\ phase[p] = "ready"
  BY DEF sendto_Err, may_send
<1>3. DropsOnly(r, list) /\ r.msg_no = n /\ \A m \in DOMAIN old : old[m].dropped <=> m \in list
  BY <1>1 DEF Numbered
<1>4. no = n + 1
  <2>1. MsgSpace \in Nat /\ MaxSends \in Nat
    BY SettingsAssumption, ErrorLinkAssumption
  <2>2. no = (n + 1) % MsgSpace
    BY <1>3 DEF next_msg_no
  <2> HIDE DEF n, no
  <2> QED
    BY <1>1, <1>2, <2>1, <2>2
<1>5. PICK fate \in processEvents(r, no, PacketSize) : new = Append(old, Message(fate, bytes))
  BY DEF sendto_Err, FlipInv
<1>6. s.msg_no = no /\ DropsOnly(s, list)
  BY <1>3, SendChanges DEF DropsOnly
<1>7. UNCHANGED <<env, phase>>
  BY DEF sendto_Err
<1> DEFINE message == Message(fate, bytes)
<1>8. message.dropped <=> n + 1 \in list
  <2>1. message.dropped = fate.dropped
    BY DEF Message
  <2>2. fate.dropped <=> no \in list
    <3> HIDE DEF r, no, list
    <3> QED
      BY <1>3, <1>5, DropsListed
  <2> QED
    BY <1>4, <2>1, <2>2
<1> HIDE DEF message, old, list
<1>9. /\ Len(new) = n + 1 /\ DOMAIN new = 1 .. n + 1 /\ DOMAIN old = 1 .. n
      /\ new[n + 1] = message /\ \A m \in 1 .. n : new[m] = old[m]
  <2>1. new = Append(old, message)
    BY <1>5 DEF message
  <2>2. message \in Messages
    <3>1. fate \in Fates /\ bytes = {}
      BY <1>5, EventFates DEF FlipInv
    <3>2. Message(fate, bytes) = [dropped |-> fate.dropped, bytes |-> fate.inverted]
      BY <3>1 DEF Message, Xor
    <3> QED
      BY <3>1, <3>2 DEF Fates, Messages, message
  <2> HIDE DEF new
  <2> QED
    BY <1>1, <2>1, <2>2, AppendProperties, LenProperties
<1>10. \A m \in DOMAIN new : new[m].dropped <=> m \in list
  <2> HIDE DEF new, n
  <2> QED
    BY <1>1, <1>3, <1>8, <1>9
<1>11. p # Server
  BY <1>2, ErrorLinkAssumption DEF Sender
<1> QED
  BY <1>2, <1>4, <1>6, <1>7, <1>9, <1>10, <1>11 DEF Numbered, list

LEMMA ListStep ==
    ASSUME MaxSends < MsgSpace, WinInv, FlipInv, ListInv, [LinkNext]_linkVars
    PROVE  ListInv'
<1>1. env' = env
  BY DEF LinkNext, LinkIdle, Second, init, sendto_Err, forkMod, linkVars
<1>2. phase' = [p \in Process |-> phase'[p]]
  BY DEF ListInv, LinkNext, LinkIdle, Second, init, sendto_Err, forkMod, linkVars
<1> SUFFICES ASSUME ListGiven(env.drop), NEW q \in Process PROVE Numbered(q)'
  BY <1>1, <1>2 DEF ListInv
<1>3. Numbered(q)
  BY DEF ListInv
<1>4. ASSUME SameLists(pm'[q], pm[q]), log'[q] = log[q], phase'[q] = phase[q]
      PROVE  Numbered(q)'
  BY <1>1, <1>3, <1>4 DEF Numbered, SameLists, DropsOnly
<1>5. ASSUME NEW p \in Process, init(p) PROVE Numbered(q)'
  <2>1. log' = log
    BY <1>5 DEF init
  <2>2. CASE q # p
    <3>1. pm'[q] = pm[q] /\ phase'[q] = phase[q]
      BY <1>5, <2>2, InitChanges DEF init, ListInv
    <3> QED
      BY <1>4, <2>1, <3>1 DEF SameLists
  <2>3. CASE q = p
    <3>1. InitAdds(pm'[p], pm[p], env)
      BY <1>5, InitChanges
    <3>2. DropsOnly(pm[p], Listed(env)) /\ phase[p] # "ready"
      BY <1>3, <1>5, <2>3 DEF Numbered, init
    <3>3. DropsOnly(pm'[p], Listed(env))
      BY <3>1, <3>2, InitDrops
    <3>4. pm'[p].msg_no = pm[p].msg_no
      BY <3>1 DEF InitAdds
    <3>5. log[p] = <<>>
      BY <1>3, <2>3, <3>2 DEF Numbered
    <3> QED
      BY <1>1, <1>3, <2>1, <2>3, <3>3, <3>4, <3>5 DEF Numbered
  <2> QED
    BY <2>2, <2>3
<1>6. ASSUME NEW p \in Process, sendto_Err(p) PROVE Numbered(q)'
  <2>1. CASE q = p
    BY <1>6, <2>1, SendNumbered
  <2>2. CASE q # p
    <3>1. pm'[q] = pm[q] /\ phase'[q] = phase[q] /\ log'[q] = log[q]
      BY <1>6, <2>2, SendChanges DEF sendto_Err, FlipInv
    <3> QED
      BY <1>4, <3>1 DEF SameLists
  <2> QED
    BY <2>1, <2>2
<1>7. ASSUME NEW c \in Child, forkMod(c) PROVE Numbered(q)'
  <2>1. log' = log
    BY <1>7 DEF forkMod
  <2>2. CASE q # c
    <3>1. SameLists(pm'[q], pm[q])
      BY <1>7, <2>2, ForkChanges DEF SameLists
    <3>2. phase'[q] = phase[q]
      BY <1>7, <2>2 DEF forkMod, ListInv
    <3> QED
      BY <1>4, <2>1, <3>1, <3>2
  <2>3. CASE q = c
    <3>1. SameLists(pm'[c], pm[Server]) /\ Server \in Process
      BY <1>7, ForkChanges
    <3>2. Numbered(Server)
      BY <3>1 DEF ListInv
    <3>3. log[Server] = <<>> /\ log[c] = <<>>
      BY <1>3, <1>7, <2>3, <3>2 DEF Numbered, forkMod
    <3>4. DropsOnly(pm'[c], Listed(env)) /\ pm'[c].msg_no = Len(log[c])
      BY <3>1, <3>2, <3>3 DEF Numbered, SameLists, DropsOnly
    <3> QED
      BY <1>1, <1>3, <2>1, <2>3, <3>3, <3>4 DEF Numbered
  <2> QED
    BY <2>2, <2>3
<1>8. CASE Second \/ UNCHANGED linkVars
  <2>1. UNCHANGED <<pm, log, phase>>
    BY <1>8 DEF Second, linkVars
  <2> QED
    BY <1>4, <2>1 DEF SameLists
<1> QED
  BY <1>5, <1>6, <1>7, <1>8 DEF LinkNext, LinkIdle

\* With a list of messages to drop, the n-th packet that a process sends, dropped
\* ones and repetitions counted, is lost exactly if n is in the list, as long as
\* no process sends more messages than there are numbers.
THEOREM ListedDropped ==
    ASSUME MaxSends < MsgSpace
    PROVE  LinkSpec => []OnlyListedDropped
<1>1. ListInv => OnlyListedDropped
  BY DEF ListInv, Numbered, OnlyListedDropped, Listed
<1>2. WinInv /\ [LinkNext]_linkVars => WinInv'
  BY WinStep
<1>3. FlipInv /\ [LinkNext]_linkVars => FlipInv'
  BY FlipStep
<1>4. WinInv /\ FlipInv /\ ListInv /\ [LinkNext]_linkVars => ListInv'
  BY ListStep
<1> QED
  BY <1>1, <1>2, <1>3, <1>4, WinInit, FlipInit, ListInit, PTL DEF LinkSpec

-----------------------------------------------------------------------------
(* Types.                                                                  *)

\* The types of one process's configuration in the environment e.
Typed(r, e) ==
    /\ r.rate \in Int
    /\ r.msg_no \in 0 .. MsgSpace - 1
    /\ r.constant \in Seq({infoSeqNo, setDropSpecific(Listed(e))})

TypeInv ==
    /\ env \in Environments
    /\ now \in StartTime .. LastTime
    /\ phase \in [Process -> {"none", "loaded", "forked", "ready"}]
    /\ \A p \in Process : Typed(pm[p], env)

LEMMA LoadedTyped ==
    ASSUME NEW e \in Environments, NEW time
    PROVE  Typed(Loaded(e, time), e)
<1> DEFINE r == Loaded(e, time)
           S == {infoSeqNo, setDropSpecific(Listed(e))}
           specific == setDropSpecific(Listed(e))
<1>1. /\ r.msg_no = 0
      /\ r.rate = IF is_set_number(e.rate) THEN Head(e.rate) ELSE 0
      /\ r.constant \in {<<>>, <<specific>>}
  BY LoadedLists
<1> HIDE DEF r
<1>2. is_set_number(e.rate) => Head(e.rate) \in Int
  <2>1. SUFFICES ASSUME is_set_number(e.rate) PROVE Head(e.rate) \in Int
    OBVIOUS
  <2>2. e.rate \in Seq({NotNumber} \cup Int)
    BY <2>1, ErrorLinkAssumption DEF is_set_number
  <2>3. e.rate # <<>> /\ Head(e.rate) # NotNumber
    BY <2>1 DEF is_set_number
  <2>4. Head(e.rate) \in {NotNumber} \cup Int
    BY <2>2, <2>3
  <2> QED
    BY <2>3, <2>4
<1>3. r.msg_no \in 0 .. MsgSpace - 1
  BY <1>1, SettingsAssumption
<1>4. <<>> \in Seq(S) /\ <<specific>> \in Seq(S)
  <2>1. specific \in S
    OBVIOUS
  <2> HIDE DEF specific, S
  <2> QED
    BY <2>1, EmptySeq
<1>5. r.constant \in Seq(S)
  BY <1>1, <1>4
<1>6. r.rate \in Int
  BY <1>1, <1>2
<1> QED
  BY <1>3, <1>5, <1>6 DEF Typed, r

LEMMA TypeInit == LinkInit => TypeInv
BY LoadedTyped, ErrorLinkAssumption DEF LinkInit, TypeInv

LEMMA TypeStep ==
    ASSUME WinInv, TypeInv, [LinkNext]_linkVars
    PROVE  TypeInv'
<1>1. ASSUME NEW q \in Process, SameLists(pm'[q], pm[q]) PROVE Typed(pm'[q], env)
  BY <1>1 DEF SameLists, Typed, TypeInv
<1>2. ASSUME NEW p \in Process, init(p) PROVE TypeInv'
  <2>1. env' = env /\ now' = now /\ phase' = [phase EXCEPT ![p] = "ready"]
    BY <1>2 DEF init
  <2>2. Typed(pm'[p], env)
    <3>1. InitAdds(pm'[p], pm[p], env) /\ pm'[p].rate \in {pm[p].rate, ErrorRate}
      BY <1>2, InitChanges
    <3>2. Append(pm[p].constant, infoSeqNo) \in Seq({infoSeqNo, setDropSpecific(Listed(env))})
      BY AppendProperties DEF TypeInv, Typed
    <3>3. pm'[p].rate \in Int
      BY <3>1, ErrorLinkAssumption DEF TypeInv, Typed
    <3> QED
      BY <3>1, <3>2, <3>3 DEF InitAdds, TypeInv, Typed
  <2>3. \A q \in Process : Typed(pm'[q], env)
    BY <1>2, <2>2, InitChanges DEF TypeInv
  <2> QED
    BY <2>1, <2>3 DEF TypeInv
<1>3. ASSUME NEW p \in Process, sendto_Err(p) PROVE TypeInv'
  <2>1. UNCHANGED <<env, now, phase>>
    BY <1>3 DEF sendto_Err
  <2>2. Typed(pm'[p], env)
    <3>1. next_msg_no(pm[p]) \in 0 .. MsgSpace - 1
      BY SettingsAssumption DEF next_msg_no, TypeInv, Typed
    <3> QED
      BY <1>3, <3>1, SendChanges DEF TypeInv, Typed
  <2>3. \A q \in Process : Typed(pm'[q], env)
    BY <1>3, <2>2, SendChanges DEF TypeInv
  <2> QED
    BY <2>1, <2>3 DEF TypeInv
<1>4. ASSUME NEW c \in Child, forkMod(c) PROVE TypeInv'
  <2>1. env' = env /\ now' = now /\ phase' = [phase EXCEPT ![c] = "forked"]
    BY <1>4 DEF forkMod
  <2>2. Server \in Process /\ c \in Process
        /\ SameLists(pm'[Server], pm[Server]) /\ SameLists(pm'[c], pm[Server])
    BY <1>4, ForkChanges
  <2>3. Typed(pm'[Server], env) /\ Typed(pm'[c], env)
    BY <2>2 DEF SameLists, Typed, TypeInv
  <2>4. \A q \in Process : Typed(pm'[q], env)
    BY <1>4, <2>3, ForkChanges DEF TypeInv
  <2> QED
    BY <2>1, <2>4 DEF TypeInv
<1>5. CASE Second
  BY <1>5, ErrorLinkAssumption DEF Second, TypeInv
<1>6. CASE UNCHANGED linkVars
  BY <1>6 DEF linkVars, TypeInv
<1> QED
  BY <1>2, <1>3, <1>4, <1>5, <1>6 DEF LinkNext, LinkIdle

\* Whatever the environment holds and however often a process and its ancestors
\* have called sendErr_init and fork, the library's state has the shape of its
\* declarations, and only drop lists and infoSeqNo run on every message.
THEOREM LinkTypeCorrect == LinkSpec => []LinkTypeOK
<1>1. TypeInv /\ WinInv /\ FlipInv => LinkTypeOK
  <2> SUFFICES ASSUME TypeInv, WinInv, FlipInv, NEW p \in Process
               PROVE  /\ pm[p].rate \in Int /\ pm[p].msg_no \in 0 .. MsgSpace - 1
                      /\ \A e \in Range(pm[p].constant) : e.kind \in {"info", "drop"}
                      /\ \A e \in Range(pm[p].chance) : e.kind \in {"flip", "drop"} /\ e.all
                      /\ kept[p] \subseteq 0 .. PacketSize - 1
    BY DEF LinkTypeOK, TypeInv
  <2>1. pm[p].rate \in Int /\ pm[p].msg_no \in 0 .. MsgSpace - 1
    BY DEF TypeInv, Typed
  <2>2. \A e \in Range(pm[p].constant) : e.kind \in {"info", "drop"}
    <3> DEFINE specific == setDropSpecific(Listed(env))
    <3>1. infoSeqNo.kind = "info" /\ specific.kind = "drop"
      BY DEF infoSeqNo, setDropSpecific, Event
    <3>2. pm[p].constant \in Seq({infoSeqNo, specific})
      BY DEF TypeInv, Typed
    <3> HIDE DEF specific
    <3>3. \A i \in DOMAIN pm[p].constant : pm[p].constant[i] \in {infoSeqNo, specific}
      BY <3>2, ElementOfSeq, LenProperties
    <3> QED
      BY <3>1, <3>3 DEF Range
  <2>3. \A e \in Range(pm[p].chance) : e.kind \in {"flip", "drop"} /\ e.all
    <3>1. errorDrop.all /\ errorFlipBits.all
      BY DEF errorDrop, errorFlipBits, Event
    <3>2. pm[p].chance \in Seq({errorDrop, errorFlipBits})
      BY DEF WinInv, Good, IsConfiguration
    <3>3. \A i \in DOMAIN pm[p].chance : pm[p].chance[i] \in {errorDrop, errorFlipBits}
      BY <3>2, ElementOfSeq, LenProperties
    <3> QED
      BY <3>1, <3>3, Kinds DEF Range
  <2>4. kept[p] = {}
    BY DEF FlipInv
  <2> QED
    BY <2>1, <2>2, <2>3, <2>4
<1>2. WinInv /\ [LinkNext]_linkVars => WinInv'
  BY WinStep
<1>3. FlipInv /\ [LinkNext]_linkVars => FlipInv'
  BY FlipStep
<1>4. WinInv /\ TypeInv /\ [LinkNext]_linkVars => TypeInv'
  BY TypeStep
<1> QED
  BY <1>1, <1>2, <1>3, <1>4, WinInit, FlipInit, TypeInit, PTL DEF LinkSpec
=============================================================================
