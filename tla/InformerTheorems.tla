-------------------------- MODULE InformerTheorems --------------------------
(* Facts about the streams of Informer, for every type of version and lag. *)
EXTENDS Informer, SequenceTheorems, TLAPS

\* A freshly listed version is a stream, and it is both cached and stored.
LEMMA ListedStream ==
    ASSUME NEW S, NEW v \in S, NEW lag \in Nat \ {0}
    PROVE  /\ Listed(v) \in Streams(S, lag)
           /\ Cached(Listed(v)) = v /\ Stored(Listed(v)) = v
<1>1. <<v>> \in Seq(S) /\ Len(<<v>>) = 1 /\ <<v>>[1] = v
  OBVIOUS
<1> QED BY <1>1 DEF Listed, Streams, Cached, Stored

\* What the cache shows and what the server stores are versions of the stream.
LEMMA StreamElements ==
    ASSUME NEW S, NEW lag \in Nat \ {0}, NEW s \in Streams(S, lag)
    PROVE  Cached(s) \in S /\ Stored(s) \in S
BY DEF Streams, Cached, Stored

\* A write leaves a stream whose stored version is the one written.
LEMMA WriteStream ==
    ASSUME NEW S, NEW lag \in Nat \ {0}, NEW s \in Streams(S, lag), NEW v \in S
    PROVE  Write(s, v, lag) \in Streams(S, lag) /\ Stored(Write(s, v, lag)) = v
<1> USE DEF Streams
<1>1. CASE v = Stored(s)
  BY <1>1 DEF Write
<1>2. CASE v # Stored(s) /\ Len(s) < lag
  <2>1. Write(s, v, lag) = Append(s, v)
    BY <1>2 DEF Write
  <2>2. /\ Append(s, v) \in Seq(S) /\ Len(Append(s, v)) = Len(s) + 1
        /\ Append(s, v)[Len(s) + 1] = v
    BY AppendProperties
  <2> QED BY <1>2, <2>1, <2>2 DEF Stored
<1>3. CASE v # Stored(s) /\ Len(s) >= lag
  <2>1. Write(s, v, lag) = Append(Tail(s), v)
    BY <1>3 DEF Write
  <2>2. Tail(s) \in Seq(S) /\ Len(Tail(s)) = Len(s) - 1
    BY <1>3, HeadTailProperties
  <2>3. /\ Append(Tail(s), v) \in Seq(S)
        /\ Len(Append(Tail(s), v)) = Len(s)
        /\ Append(Tail(s), v)[Len(s)] = v
    BY <2>2, AppendProperties
  <2> QED BY <2>1, <2>3 DEF Stored
<1> QED BY <1>1, <1>2, <1>3

\* Handling a watch event moves the cache and never the stored version.
LEMMA DeliverStream ==
    ASSUME NEW S, NEW lag \in Nat \ {0}, NEW s \in Streams(S, lag), Stale(s)
    PROVE  Deliver(s) \in Streams(S, lag) /\ Stored(Deliver(s)) = Stored(s)
<1>1. /\ Tail(s) \in Seq(S) /\ Len(Tail(s)) = Len(s) - 1
      /\ \A i \in 1..Len(Tail(s)) : Tail(s)[i] = s[i + 1]
  BY HeadTailProperties DEF Streams, Stale
<1>2. Len(s) - 1 \in 1..Len(Tail(s))
  BY <1>1 DEF Streams, Stale
<1> QED BY <1>1, <1>2 DEF Streams, Stale, Deliver, Stored

\* A step that writes nothing: the cache stays, moves on, or lists again.
CacheMove(s, t) == t = s \/ (Stale(s) /\ t = Deliver(s)) \/ t = Listed(Stored(s))

\* Such a step keeps the stream and what is stored, whatever holds of its versions.
LEMMA CacheMoveStream ==
    ASSUME NEW S, NEW lag \in Nat \ {0}, NEW s \in Streams(S, lag), NEW t,
           CacheMove(s, t)
    PROVE  t \in Streams(S, lag) /\ Stored(t) = Stored(s)
<1>1. CASE t = s
  BY <1>1
<1>2. CASE Stale(s) /\ t = Deliver(s)
  BY <1>2, DeliverStream
<1>3. CASE t = Listed(Stored(s))
  BY <1>3, StreamElements, ListedStream
<1> QED BY <1>1, <1>2, <1>3 DEF CacheMove

\* A stream whose versions are all in S has all its versions in a larger set.
LEMMA StreamsMonotone ==
    ASSUME NEW S, NEW T, S \subseteq T, NEW lag \in Nat \ {0},
           NEW s \in Streams(S, lag)
    PROVE  s \in Streams(T, lag)
BY SeqMonotonic DEF Streams

\* A cache of lag 1 is never stale: it shows what the server stores.
LEMMA FreshStream ==
    ASSUME NEW S, NEW s \in Streams(S, 1)
    PROVE  Cached(s) = Stored(s) /\ ~Stale(s) /\ s = Listed(Stored(s))
<1>1. s \in Seq(S) /\ Len(s) = 1
  BY DEF Streams
<1>2. s = <<s[1]>>
  BY <1>1
<1> QED BY <1>1, <1>2 DEF Cached, Stored, Stale, Listed

\* Every later version of a stream is related to every earlier one.
Ordered(s, R) == \A i, k \in 1..Len(s) : i <= k => <<s[i], s[k]>> \in R

\* Moving the cache keeps the order.
LEMMA OrderedMove ==
    ASSUME NEW S, NEW lag \in Nat \ {0}, NEW s \in Streams(S, lag), NEW t,
           CacheMove(s, t), NEW R, Ordered(s, R)
    PROVE  Ordered(t, R)
<1>1. CASE t = s
  BY <1>1
<1>2. CASE Stale(s) /\ t = Deliver(s)
  <2>1. /\ Len(t) = Len(s) - 1 /\ Len(s) \in Nat
        /\ \A i \in 1..Len(t) : t[i] = s[i + 1]
    BY <1>2, HeadTailProperties DEF Streams, Stale, Deliver
  <2>2. ASSUME NEW i \in 1..Len(t), NEW k \in 1..Len(t), i <= k
        PROVE  <<t[i], t[k]>> \in R
    <3>1. i + 1 \in 1..Len(s) /\ k + 1 \in 1..Len(s) /\ i + 1 <= k + 1
      BY <2>1, <2>2
    <3>2. <<s[i + 1], s[k + 1]>> \in R
      BY <3>1 DEF Ordered
    <3> QED BY <2>1, <3>2
  <2> QED BY <2>2 DEF Ordered
<1>3. CASE t = Listed(Stored(s))
  <2>1. Len(t) = 1 /\ t[1] = s[Len(s)] /\ Len(s) \in 1..Len(s)
    BY <1>3 DEF Listed, Stored, Streams
  <2> QED BY <2>1 DEF Ordered
<1> QED BY <1>1, <1>2, <1>3 DEF CacheMove

\* A write keeps the order if what is written is related to all that was there.
LEMMA OrderedWrite ==
    ASSUME NEW S, NEW lag \in Nat \ {0}, NEW s \in Streams(S, lag), NEW v \in S,
           NEW R, Ordered(s, R), <<v, v>> \in R,
           \A i \in 1..Len(s) : <<s[i], v>> \in R
    PROVE  Ordered(Write(s, v, lag), R)
<1> USE DEF Streams
<1>1. CASE v = Stored(s)
  BY <1>1 DEF Write
<1>2. CASE v # Stored(s) /\ Len(s) < lag
  <2>1. Write(s, v, lag) = Append(s, v)
    BY <1>2 DEF Write
  <2>2. /\ Len(Append(s, v)) = Len(s) + 1 /\ Append(s, v)[Len(s) + 1] = v
        /\ \A i \in 1..Len(s) : Append(s, v)[i] = s[i]
    BY AppendProperties
  <2> QED BY <2>1, <2>2 DEF Ordered
<1>3. CASE v # Stored(s) /\ Len(s) >= lag
  <2>1. Write(s, v, lag) = Append(Tail(s), v)
    BY <1>3 DEF Write
  <2>2. /\ Tail(s) \in Seq(S) /\ Len(Tail(s)) = Len(s) - 1
        /\ \A i \in 1..Len(Tail(s)) : Tail(s)[i] = s[i + 1]
    BY <1>3, HeadTailProperties
  <2>3. /\ Len(Append(Tail(s), v)) = Len(s) /\ Append(Tail(s), v)[Len(s)] = v
        /\ \A i \in 1..(Len(s) - 1) : Append(Tail(s), v)[i] = s[i + 1]
    BY <2>2, AppendProperties
  <2>4. Len(s) \in Nat
    OBVIOUS
  <2> DEFINE t == Append(Tail(s), v)
  <2>5. ASSUME NEW i \in 1..Len(t), NEW k \in 1..Len(t), i <= k
        PROVE  <<t[i], t[k]>> \in R
    <3>1. CASE i = Len(s)
      BY <2>3, <2>4, <2>5, <3>1
    <3>2. CASE i # Len(s)
      <4>1. i + 1 \in 1..Len(s) /\ t[i] = s[i + 1]
        BY <2>3, <2>4, <3>2
      <4>2. CASE k = Len(s)
        BY <2>3, <4>1, <4>2
      <4>3. CASE k # Len(s)
        <5>1. k + 1 \in 1..Len(s) /\ t[k] = s[k + 1] /\ i + 1 <= k + 1
          BY <2>3, <2>4, <2>5, <4>3
        <5>2. <<s[i + 1], s[k + 1]>> \in R
          BY <4>1, <5>1 DEF Ordered
        <5> QED BY <4>1, <5>1, <5>2
      <4> QED BY <4>2, <4>3
    <3> QED BY <3>1, <3>2
  <2> QED BY <2>1, <2>5 DEF Ordered
<1> QED BY <1>1, <1>2, <1>3
=============================================================================
