---------------------------- MODULE Retry_proofs ----------------------------
(***************************************************************************)
(* Replayed request bodies (Retry) send the caller's body, proved for      *)
(* bodies, caps and numbers of attempts of any size.                       *)
(***************************************************************************)
EXTENDS Retry, SequenceTheorems, TLAPS

Chunked == Len(sizes)
Shorter(m, n) == IF m < n THEN m ELSE n

\* The shared state: the buffer holds the data that was read unless that was too
\* much, and the body is completed when all its frames were read.
StateInv ==
    /\ st \in [replay : Seq(Nat), trailers : BOOLEAN, read : Nat, completed : BOOLEAN, maxBytes : Nat]
    /\ st.read <= Len(Original)
    /\ st.trailers = TRUE <=> st.read = Chunked + 1
    /\ st.trailers = TRUE => st.completed = TRUE
    /\ st.completed = TRUE => st.read = Len(Original)
    /\ st.read = 0 => st.maxBytes = MaxBytes + 1
    /\ st.replay = IF st.maxBytes = 0 THEN << >> ELSE DataRead

\* How much an attempt that has the state has sent of the request.
Place(c) ==
    IF st.trailers = TRUE /\ replayTrailers[c] = FALSE THEN Chunked + 1 ELSE Shorter(st.read, Chunked)

Active(c) == body[c] = "live" /\ eos[c] = "open"
Untouched(c) == sent[c] = << >> /\ eos[c] = "open" /\ replayBody[c] = TRUE /\ replayTrailers[c] = TRUE

\* An attempt whose body can be polled has the state and has sent what is read; or
\* nobody has the state and it is the last one, still unread.
ActiveInv ==
    \A c \in 1 .. cur : Active(c) =>
        /\ owner = c => /\ Len(sent[c]) = Place(c)
                        /\ replayBody[c] = TRUE => Shorter(st.read, Chunked) = 0
        /\ owner # c => c = cur /\ owner = 0 /\ Untouched(c)

\* Something of the request was read, or there is nothing to read.
Started == st.read > 0 \/ failed = TRUE \/ st.completed = TRUE \/ Original = << >>

LoopInv ==
    /\ \A c \in Clones : sent[c] # << >> \/ eos[c] # "open" => Started
    /\ \A c \in Clones : c > cur => Untouched(c) /\ body[c] # "live"
    /\ cur > 1 => Started
    /\ replayBody[1] = FALSE
    /\ phase = "backoff" => /\ owner = 0 /\ cur <= MaxRetries /\ Started
                            /\ \A c \in 1 .. cur : ~Active(c)

\* What was sent, frame by frame.
SentInv ==
    \A c \in Clones :
        /\ Len(sent[c]) <= Len(Original)
        /\ \A i \in 1 .. Len(sent[c]) : sent[c][i] = Original[i]
        /\ eos[c] = "ended" => Len(sent[c]) = Len(Original)

RetryType ==
    /\ sizes \in Seq(Nat) /\ hasTrailers \in BOOLEAN /\ failed \in BOOLEAN
    /\ owner \in 0 .. MaxRetries + 1
    /\ body \in [Clones -> {"none", "backup", "live", "dropped"}]
    /\ replayBody \in [Clones -> BOOLEAN] /\ replayTrailers \in [Clones -> BOOLEAN]
    /\ sent \in [Clones -> Seq(Nat)]
    /\ eos \in [Clones -> {"open", "ended", "error"}]
    /\ cur \in 1 .. MaxRetries + 1
    /\ phase \in {"sending", "backoff", "returned"}
    /\ panicked = FALSE /\ eager = TRUE

RetryInv == RetryType /\ StateInv /\ ActiveInv /\ LoopInv /\ SentInv

RetryAssumed ==
    /\ Bodies \subseteq Seq(Nat) /\ MaxBytes \in Nat /\ MaxRetries \in Nat /\ Transports \subseteq BOOLEAN

\* The frames of the request, in order.
LEMMA OriginalFrames ==
    ASSUME sizes \in Seq(Nat), hasTrailers \in BOOLEAN
    PROVE  /\ Original \in Seq(Nat)
           /\ Chunked \in Nat
           /\ Len(Original) = IF hasTrailers THEN Chunked + 1 ELSE Chunked
           /\ \A i \in 1 .. Chunked : Original[i] = i
           /\ hasTrailers => Original[Chunked + 1] = Trailers
<1> DEFINE data == [i \in 1 .. Len(sizes) |-> i]
           tail == IF hasTrailers THEN <<Trailers>> ELSE << >>
<1>0. Chunked \in Nat BY DEF Chunked
<1>1. data \in Seq(Nat) /\ Len(data) = Chunked BY <1>0 DEF Chunked
<1>2. tail \in Seq(Nat) /\ Len(tail) = IF hasTrailers THEN 1 ELSE 0 BY DEF Trailers
<1>3. hasTrailers => tail[1] = Trailers OBVIOUS
<1>4. Original = data \o tail BY DEF Original
<1> HIDE DEF data, tail
<1>5. /\ Original \in Seq(Nat)
      /\ Len(Original) = Len(data) + Len(tail)
      /\ \A i \in 1 .. Len(data) + Len(tail) :
            Original[i] = IF i <= Len(data) THEN data[i] ELSE tail[i - Len(data)]
  BY <1>1, <1>2, <1>4, ConcatProperties, Zenon
<1>6. \A i \in 1 .. Chunked : data[i] = i BY DEF data, Chunked
<1>7. \A i \in 1 .. Chunked : Original[i] = i BY <1>0, <1>1, <1>2, <1>5, <1>6
<1>8. hasTrailers => Original[Chunked + 1] = Trailers BY <1>0, <1>1, <1>2, <1>3, <1>5
<1> QED BY <1>0, <1>1, <1>2, <1>5, <1>7, <1>8

\* The data that was read, in order.
LEMMA DataFrames ==
    ASSUME sizes \in Seq(Nat), st.read \in Nat
    PROVE  /\ DataRead \in Seq(Nat)
           /\ Len(DataRead) = Shorter(st.read, Chunked)
           /\ \A i \in 1 .. Len(DataRead) : DataRead[i] = i
<1>1. Shorter(st.read, Chunked) \in Nat BY DEF Shorter, Chunked
<1>2. DataRead = [i \in 1 .. Shorter(st.read, Chunked) |-> i] BY DEF DataRead, Shorter, Chunked
<1> QED BY <1>1, <1>2

LEMMA FromInit == ASSUME RetryAssumed, RetryInit, eager = TRUE PROVE RetryInv
<1> USE DEF RetryAssumed
<1>1. RetryType
  <2>1. 1 \in Clones /\ Clones \subseteq Nat BY DEF Clones
  <2>2. body \in [Clones -> {"none", "backup", "live", "dropped"}] BY DEF RetryInit
  <2>3. replayBody \in [Clones -> BOOLEAN] /\ replayTrailers \in [Clones -> BOOLEAN] BY DEF RetryInit
  <2>4. sent \in [Clones -> Seq(Nat)] /\ eos \in [Clones -> {"open", "ended", "error"}] BY DEF RetryInit
  <2>5. owner \in 0 .. MaxRetries + 1 /\ cur \in 1 .. MaxRetries + 1 BY DEF RetryInit
  <2>6. sizes \in Seq(Nat) BY DEF RetryInit
  <2> HIDE DEF RetryAssumed
  <2> QED BY <2>2, <2>3, <2>4, <2>5, <2>6, Zenon DEF RetryInit, RetryType
<1>2. Original \in Seq(Nat) /\ Len(Original) \in Nat BY <1>1, OriginalFrames DEF RetryType
<1>3. st.read = 0 /\ Chunked \in Nat BY <1>1 DEF RetryInit, RetryType, Chunked
<1>4. DataRead = << >>
  BY <1>1, <1>3, DataFrames DEF RetryType, Shorter, Chunked
<1>5. StateInv
  BY <1>1, <1>2, <1>3, <1>4 DEF RetryInit, StateInv, RetryType
<1>6. ActiveInv
  BY <1>1, <1>3 DEF RetryInit, ActiveInv, Active, Place, Shorter, Clones
<1>7. LoopInv
  <2>1. \A c \in Clones : sent[c] = << >> /\ eos[c] = "open" BY DEF RetryInit
  <2>2. \A c \in Clones : c # 1 => replayBody[c] = TRUE /\ replayTrailers[c] = TRUE BY Zenon DEF RetryInit
  <2>3. \A c \in Clones : c > 1 => body[c] # "live" BY DEF RetryInit, Clones
  <2>4. cur = 1 /\ phase = "sending" BY DEF RetryInit
  <2>5. \A c \in Clones : c > cur => c # 1 /\ c > 1 BY <2>4 DEF Clones
  <2>6. ~(cur > 1) BY <2>4
  <2>7. replayBody[1] = FALSE
    <3>1. 1 \in Clones BY DEF Clones
    <3> QED BY <3>1, Zenon DEF RetryInit
  <2> QED BY <2>1, <2>2, <2>3, <2>4, <2>5, <2>6, <2>7, Zenon DEF LoopInv, Untouched
<1>8. SentInv
  BY <1>1, <1>2 DEF RetryInit, SentInv
<1> QED BY <1>1, <1>5, <1>6, <1>7, <1>8 DEF RetryInv

LEMMA CloneNumbers ==
    ASSUME RetryAssumed, RetryType
    PROVE  /\ Clones \subseteq Nat /\ 1 \in Clones
           /\ \A c \in 1 .. cur : c \in Clones /\ c \in Nat /\ c # 0
           /\ cur \in Clones /\ cur + 1 \in Clones
BY DEF RetryAssumed, RetryType, Clones

\* Where a clone is when it has the state, or takes it.
LEMMA Acquired ==
    ASSUME RetryAssumed, RetryInv, NEW c \in 1 .. cur, Acquire(c)
    PROVE  /\ Active(c) /\ phase # "backoff"
           /\ AtBuffer(c) => Untouched(c)
           /\ ~AtBuffer(c) /\ ~AtCapped(c) =>
                /\ Len(sent[c]) = Place(c)
                /\ replayBody[c] = TRUE => Shorter(st.read, Chunked) = 0
           /\ AtInner(c) /\ replayBody[c] = TRUE => failed = TRUE \/ Original = << >>
           /\ \A d \in 1 .. cur : Active(d) => d = c
<1> USE DEF RetryInv
<1>1. Active(c) BY Zenon DEF Acquire, Pollable, Active
<1>2. phase # "backoff" BY <1>1 DEF LoopInv
<1>3. owner \in {0, c} BY DEF Acquire
<1>4. c \in Clones /\ c # 0 BY CloneNumbers
<1>5. st.read \in Nat /\ sizes \in Seq(Nat) BY DEF StateInv, RetryType
<1>6. st.maxBytes # 0 => Len(st.replay) = Shorter(st.read, Chunked)
  BY <1>5, DataFrames DEF StateInv
<1>7. Len(<< >>) = 0 OBVIOUS
<1>8. AtBuffer(c) => Untouched(c)
  <2>1. SUFFICES ASSUME AtBuffer(c), owner = c PROVE FALSE
    BY <1>1, <1>3 DEF ActiveInv
  <2>2. replayBody[c] = TRUE /\ st.replay # << >> BY <1>4, <2>1 DEF AtBuffer, RetryType
  <2>3. Shorter(st.read, Chunked) = 0 BY <1>1, <2>1, <2>2 DEF ActiveInv
  <2>4. st.replay = DataRead /\ st.maxBytes # 0 BY <2>2 DEF StateInv
  <2>5. DataRead = << >> BY <1>5, <2>3, DataFrames, EmptySeq
  <2> QED BY <2>2, <2>4, <2>5
<1>9. ASSUME ~AtBuffer(c), ~AtCapped(c), replayBody[c] = TRUE PROVE Shorter(st.read, Chunked) = 0
  <2>1. st.replay = << >> /\ st.maxBytes # 0 BY <1>9 DEF AtBuffer, AtCapped, IsCapped
  <2> QED BY <1>6, <1>7, <2>1
<1>10. ASSUME ~AtBuffer(c), ~AtCapped(c) PROVE Len(sent[c]) = Place(c)
  <2>1. CASE owner = c BY <1>1, <2>1 DEF ActiveInv
  <2>2. CASE owner # c
    <3>1. Untouched(c) BY <1>1, <2>2 DEF ActiveInv
    <3>2. Shorter(st.read, Chunked) = 0 BY <1>9, <1>10, <3>1, Zenon DEF Untouched
    <3> QED BY <1>7, <3>1, <3>2 DEF Untouched, Place
  <2> QED BY <2>1, <2>2
<1>11. ASSUME AtInner(c), replayBody[c] = TRUE PROVE failed = TRUE \/ Original = << >>
  <2>1. Shorter(st.read, Chunked) = 0 BY <1>9, <1>11, Zenon DEF AtInner
  <2>2. st.completed = FALSE /\ st.trailers = FALSE
    <3>1. st.completed \in BOOLEAN /\ st.trailers \in BOOLEAN BY DEF StateInv
    <3>2. ~st.completed BY <1>11 DEF AtInner
    <3>3. st.trailers = TRUE => st.completed = TRUE BY DEF StateInv
    <3> QED BY <3>1, <3>2, <3>3, Zenon
  <2>3. st.read = 0
    <3>1. st.read <= Len(Original) /\ st.read # Chunked + 1 BY <2>2 DEF StateInv
    <3>2. Chunked \in Nat /\ Len(Original) <= Chunked + 1 /\ Len(Original) \in Nat
      BY OriginalFrames DEF RetryType
    <3> QED BY <1>5, <2>1, <3>1, <3>2 DEF Shorter
  <2>4. c # 1 BY <1>11 DEF LoopInv
  <2>5. cur > 1 BY <2>4 DEF RetryType
  <2> QED BY <2>2, <2>3, <2>5 DEF LoopInv, Started
<1>12. ASSUME NEW d \in 1 .. cur, Active(d), d # c PROVE FALSE
  <2>0. d # 0 BY <1>12
  <2>1. CASE owner = c BY <1>12, <2>0, <2>1, <1>4 DEF ActiveInv
  <2>2. CASE owner = 0 BY <1>1, <1>4, <1>12, <2>0, <2>2 DEF ActiveInv
  <2> QED BY <1>3, <2>1, <2>2
<1> QED BY <1>1, <1>2, <1>8, <1>9, <1>10, <1>11, <1>12, Zenon

\* What every poll that gets the state has to show.
LEMMA PollKeeps ==
    ASSUME RetryAssumed, RetryInv, NEW c \in 1 .. cur, Acquire(c),
           StateInv', failed' \in BOOLEAN, Started => Started',
           replayBody' \in [Clones -> BOOLEAN], replayTrailers' \in [Clones -> BOOLEAN],
           sent' \in [Clones -> Seq(Nat)], eos' \in [Clones -> {"open", "ended", "error"}],
           replayBody[c] = FALSE => replayBody'[c] = FALSE,
           \A d \in Clones : d # c =>
                /\ replayBody'[d] = replayBody[d] /\ replayTrailers'[d] = replayTrailers[d]
                /\ sent'[d] = sent[d] /\ eos'[d] = eos[d],
           sent'[c] # << >> \/ eos'[c] # "open" => Started',
           Len(sent'[c]) <= Len(Original),
           \A i \in 1 .. Len(sent'[c]) : sent'[c][i] = Original[i],
           eos'[c] = "ended" => Len(sent'[c]) = Len(Original),
           eos'[c] = "open" =>
                /\ Len(sent'[c]) = Place(c)'
                /\ replayBody'[c] = TRUE => Shorter(st'.read, Chunked) = 0
    PROVE  RetryInv'
<1> USE DEF RetryInv
<1>1. /\ sizes' = sizes /\ hasTrailers' = hasTrailers /\ eager' = eager /\ body' = body /\ cur' = cur /\ phase' = phase
      /\ panicked' = panicked /\ owner' = c
  BY DEF Acquire, origin, loop
<1>2. Original' = Original /\ Chunked' = Chunked BY <1>1 DEF Original, Chunked
<1>3. c \in Clones /\ c # 0 /\ Clones \subseteq Nat /\ 1 \in Clones BY CloneNumbers
<1>4. Active(c) /\ phase # "backoff" /\ \A d \in 1 .. cur : Active(d) => d = c BY Acquired, Zenon
<1>5. RetryType'
  <2>1. owner' \in 0 .. MaxRetries + 1 BY <1>1 DEF RetryType, RetryAssumed
  <2>2. sizes' \in Seq(Nat) /\ hasTrailers' \in BOOLEAN BY <1>1 DEF RetryType
  <2>3. cur' \in 1 .. MaxRetries + 1 /\ phase' \in {"sending", "backoff", "returned"} /\ panicked' = FALSE
        /\ eager' = TRUE
    BY <1>1, Zenon DEF RetryType
  <2>4. body' \in [Clones -> {"none", "backup", "live", "dropped"}] BY <1>1 DEF RetryType
  <2>5. Clones' = Clones BY DEF Clones
  <2> QED BY <2>1, <2>2, <2>3, <2>4, <2>5, Zenon DEF RetryType
<1>6. ActiveInv'
  <2> SUFFICES ASSUME NEW d \in 1 .. cur, Active(d)' PROVE
        /\ owner' = d => /\ Len(sent'[d]) = Place(d)'
                         /\ replayBody'[d] = TRUE => Shorter(st'.read, Chunked') = 0
        /\ owner' # d => d = cur /\ owner' = 0 /\ Untouched(d)'
    BY <1>1, Zenon DEF ActiveInv
  <2>1. d \in Clones BY CloneNumbers
  <2>2. d = c
    <3>1. SUFFICES ASSUME d # c PROVE FALSE OBVIOUS
    <3>2. Active(d) BY <1>1, <2>1, <3>1 DEF Active
    <3> QED BY <1>4, <3>1, <3>2
  <2>3. eos'[c] = "open" BY <2>2 DEF Active
  <2> QED BY <1>1, <1>2, <2>2, <2>3
<1>7. LoopInv'
  <2>1. ASSUME NEW d \in Clones, sent'[d] # << >> \/ eos'[d] # "open" PROVE Started'
    <3>1. CASE d = c BY <2>1, <3>1, Zenon
    <3>2. CASE d # c
      <4>1. sent[d] # << >> \/ eos[d] # "open" BY <2>1, <3>2, Zenon
      <4>2. Started BY <4>1, Zenon DEF LoopInv
      <4> QED BY <4>2, Zenon
    <3> QED BY <3>1, <3>2, Zenon
  <2>2. ASSUME NEW d \in Clones, d > cur PROVE Untouched(d)' /\ body'[d] # "live"
    <3>1. d # c BY <2>2 DEF RetryType
    <3>2. Untouched(d) /\ body[d] # "live" BY <2>2 DEF LoopInv
    <3> QED BY <1>1, <3>1, <3>2 DEF Untouched
  <2>3. cur > 1 => Started' BY DEF LoopInv
  <2>4. replayBody'[1] = FALSE
    <3>1. replayBody[1] = FALSE BY DEF LoopInv
    <3> QED BY <1>3, <3>1, Zenon
  <2> QED BY <1>1, <1>4, <2>1, <2>2, <2>3, <2>4 DEF LoopInv
<1>8. SentInv'
  <2> SUFFICES ASSUME NEW d \in Clones PROVE
        /\ Len(sent'[d]) <= Len(Original)
        /\ \A i \in 1 .. Len(sent'[d]) : sent'[d][i] = Original[i]
        /\ eos'[d] = "ended" => Len(sent'[d]) = Len(Original)
    BY <1>2 DEF SentInv
  <2>1. CASE d = c BY <2>1
  <2>2. CASE d # c
    <3>1. sent'[d] = sent[d] /\ eos'[d] = eos[d] BY <2>2
    <3>2. /\ Len(sent[d]) <= Len(Original)
          /\ \A i \in 1 .. Len(sent[d]) : sent[d][i] = Original[i]
          /\ eos[d] = "ended" => Len(sent[d]) = Len(Original)
      BY DEF SentInv
    <3> QED BY <3>1, <3>2
  <2> QED BY <2>1, <2>2
<1> QED BY <1>5, <1>6, <1>7, <1>8

\* The parts of a poll.
LEMMA YieldEffect ==
    ASSUME RetryAssumed, RetryInv, NEW c \in Clones, NEW fs \in Seq(Nat), Yield(c, fs),
           Len(sent[c]) + Len(fs) <= Len(Original),
           \A i \in 1 .. Len(fs) : fs[i] = Original[Len(sent[c]) + i]
    PROVE  /\ sent' \in [Clones -> Seq(Nat)] /\ eos' = eos
           /\ \A d \in Clones : d # c => sent'[d] = sent[d]
           /\ Len(sent'[c]) = Len(sent[c]) + Len(fs)
           /\ \A i \in 1 .. Len(sent'[c]) : sent'[c][i] = Original[i]
<1>1. sent \in [Clones -> Seq(Nat)] BY DEF RetryInv, RetryType
<1>2. sent[c] \in Seq(Nat) BY <1>1
<1>3. sent' = [sent EXCEPT ![c] = sent[c] \o fs] /\ eos' = eos BY DEF Yield
<1>4. /\ sent[c] \o fs \in Seq(Nat)
      /\ Len(sent[c] \o fs) = Len(sent[c]) + Len(fs)
      /\ \A i \in 1 .. Len(sent[c]) + Len(fs) :
            (sent[c] \o fs)[i] = IF i <= Len(sent[c]) THEN sent[c][i] ELSE fs[i - Len(sent[c])]
  BY <1>2, ConcatProperties
<1>5. sent'[c] = sent[c] \o fs BY <1>1, <1>3
<1>6. \A d \in Clones : d # c => sent'[d] = sent[d] BY <1>1, <1>3
<1>7. sent' \in [Clones -> Seq(Nat)] BY <1>1, <1>3, <1>4
<1>8. ASSUME NEW i \in 1 .. Len(sent'[c]) PROVE sent'[c][i] = Original[i]
  <2>0. Len(sent[c]) \in Nat /\ Len(fs) \in Nat BY <1>2
  <2>1. CASE i <= Len(sent[c])
    <3>1. i \in 1 .. Len(sent[c]) BY <1>4, <1>5, <1>8, <2>0, <2>1
    <3>2. sent[c][i] = Original[i] BY <3>1, Zenon DEF RetryInv, SentInv
    <3> QED BY <1>4, <1>5, <1>8, <2>1, <3>2
  <2>2. CASE ~(i <= Len(sent[c]))
    <3> DEFINE j == i - Len(sent[c])
    <3>1. j \in 1 .. Len(fs) /\ Len(sent[c]) + j = i BY <1>4, <1>5, <1>8, <2>0, <2>2
    <3>2. fs[j] = Original[i] BY <3>1
    <3> QED BY <1>4, <1>5, <1>8, <2>2, <3>2
  <2> QED BY <2>1, <2>2
<1> QED BY <1>3, <1>4, <1>5, <1>6, <1>7, <1>8, Zenon

LEMMA CloseEffect ==
    ASSUME RetryType, NEW c \in Clones, NEW how \in {"ended", "error"}, Close(c, how)
    PROVE  /\ eos' \in [Clones -> {"open", "ended", "error"}] /\ sent' = sent
           /\ eos'[c] = how
           /\ \A d \in Clones : d # c => eos'[d] = eos[d]
BY DEF RetryType, Close

LEMMA SkipEffect ==
    ASSUME RetryType, NEW c \in Clones, SkipTrailers(c)
    PROVE  /\ replayTrailers' \in [Clones -> BOOLEAN] /\ replayBody' = replayBody
           /\ replayTrailers'[c] = FALSE
           /\ \A d \in Clones : d # c => replayTrailers'[d] = replayTrailers[d]
BY DEF RetryType, SkipTrailers

LEMMA StateKept ==
    ASSUME StateInv, st' = st, sizes' = sizes, hasTrailers' = hasTrailers /\ eager' = eager, failed = TRUE => failed' = TRUE
    PROVE  StateInv' /\ (Started => Started')
<1>1. Original' = Original /\ Chunked' = Chunked BY DEF Original, Chunked
<1>2. DataRead' = DataRead BY DEF DataRead
<1>3. StateInv' BY <1>1, <1>2 DEF StateInv
<1> QED BY <1>1, <1>3 DEF Started

\* What holds of a clone before it is polled.
LEMMA BeforePoll ==
    ASSUME RetryAssumed, RetryInv, NEW c \in 1 .. cur, Acquire(c)
    PROVE  /\ c \in Clones /\ sizes' = sizes /\ hasTrailers' = hasTrailers /\ eager' = eager
           /\ Original' = Original /\ Chunked' = Chunked
           /\ sent[c] \in Seq(Nat) /\ Len(sent[c]) \in Nat
           /\ eos[c] = "open" /\ (sent[c] # << >> => Started)
           /\ Len(sent[c]) <= Len(Original)
           /\ \A i \in 1 .. Len(sent[c]) : sent[c][i] = Original[i]
           /\ Original \in Seq(Nat) /\ Chunked \in Nat
           /\ Len(Original) = IF hasTrailers THEN Chunked + 1 ELSE Chunked
           /\ \A i \in 1 .. Chunked : Original[i] = i
           /\ hasTrailers => Original[Chunked + 1] = Trailers
           /\ st.read \in Nat
<1>1. c \in Clones BY CloneNumbers DEF RetryInv
<1>2. sizes' = sizes /\ hasTrailers' = hasTrailers /\ eager' = eager BY DEF Acquire, origin
<1>3. Original' = Original /\ Chunked' = Chunked BY <1>2 DEF Original, Chunked
<1>4. sent[c] \in Seq(Nat) /\ Len(sent[c]) \in Nat BY <1>1 DEF RetryInv, RetryType
<1>5. eos[c] = "open" /\ (sent[c] # << >> => Started) BY <1>1 DEF Acquire, Pollable, RetryInv, LoopInv
<1>6. /\ Len(sent[c]) <= Len(Original)
      /\ \A i \in 1 .. Len(sent[c]) : sent[c][i] = Original[i]
  BY <1>1 DEF RetryInv, SentInv
<1>7. st.read \in Nat BY DEF RetryInv, StateInv
<1> QED BY <1>1, <1>2, <1>3, <1>4, <1>5, <1>6, <1>7, OriginalFrames DEF RetryInv, RetryType

\* Polls that leave the shared state as it is.
LEMMA Replays ==
    ASSUME RetryAssumed, RetryInv, NEW c \in 1 .. cur, Acquire(c), st' = st, failed' = failed
    PROVE  /\ ReplayBuffer(c) => RetryInv'
           /\ ReplayTrailers(c) => RetryInv'
           /\ Completed(c) => RetryInv'
           /\ RefuseCapped(c) => RetryInv'
           /\ PollPending(c) => RetryInv'
<1> USE DEF RetryInv
<1>1. /\ c \in Clones /\ sizes' = sizes /\ hasTrailers' = hasTrailers /\ eager' = eager
      /\ Original' = Original /\ Chunked' = Chunked
      /\ sent[c] \in Seq(Nat) /\ Len(sent[c]) \in Nat
      /\ eos[c] = "open" /\ (sent[c] # << >> => Started)
      /\ Len(sent[c]) <= Len(Original)
      /\ \A i \in 1 .. Len(sent[c]) : sent[c][i] = Original[i]
      /\ Original \in Seq(Nat) /\ Chunked \in Nat
      /\ Len(Original) = IF hasTrailers THEN Chunked + 1 ELSE Chunked
      /\ \A i \in 1 .. Chunked : Original[i] = i
      /\ hasTrailers => Original[Chunked + 1] = Trailers
      /\ st.read \in Nat
  BY BeforePoll, Zenon
<1>2. /\ AtBuffer(c) => Untouched(c)
      /\ ~AtBuffer(c) /\ ~AtCapped(c) =>
            /\ Len(sent[c]) = Place(c)
            /\ replayBody[c] = TRUE => Shorter(st.read, Chunked) = 0
  BY Acquired, Zenon
<1>3. StateInv' /\ (Started => Started') BY <1>1, StateKept, Zenon
<1>4. failed' \in BOOLEAN BY DEF RetryType
<1>5. /\ replayBody \in [Clones -> BOOLEAN] /\ replayTrailers \in [Clones -> BOOLEAN]
      /\ sent \in [Clones -> Seq(Nat)] /\ eos \in [Clones -> {"open", "ended", "error"}]
  BY DEF RetryType
<1>6. /\ st.read <= Len(Original) /\ (st.trailers = TRUE <=> st.read = Chunked + 1)
      /\ (st.completed = TRUE => st.read = Len(Original))
      /\ st.trailers \in BOOLEAN /\ st.completed \in BOOLEAN
  BY DEF StateInv
<1>7. ASSUME ReplayBuffer(c) PROVE RetryInv'
  <2>1. AtBuffer(c) /\ Yield(c, st.replay) /\ replayTrailers' = replayTrailers
        /\ replayBody' = [replayBody EXCEPT ![c] = FALSE]
    BY <1>7 DEF ReplayBuffer
  <2>2. sent[c] = << >> /\ replayTrailers[c] = TRUE BY <1>2, <2>1 DEF Untouched
  <2>3. st.replay # << >> BY <2>1 DEF AtBuffer
  <2>4. st.replay = DataRead BY <2>3 DEF StateInv
  <2>5. /\ st.replay \in Seq(Nat)
        /\ Len(st.replay) = Shorter(st.read, Chunked)
        /\ \A i \in 1 .. Len(st.replay) : st.replay[i] = i
    BY <1>1, <2>4, DataFrames, Zenon DEF RetryType
  <2>6. /\ Shorter(st.read, Chunked) \in Nat /\ Shorter(st.read, Chunked) <= Chunked
        /\ Shorter(st.read, Chunked) <= st.read
    BY <1>1 DEF Shorter
  <2>7. Len(sent[c]) = 0 BY <2>2
  <2>8. /\ sent' \in [Clones -> Seq(Nat)] /\ eos' = eos
        /\ \A d \in Clones : d # c => sent'[d] = sent[d]
        /\ Len(sent'[c]) = Len(sent[c]) + Len(st.replay)
        /\ \A i \in 1 .. Len(sent'[c]) : sent'[c][i] = Original[i]
    <3>1. Len(sent[c]) + Len(st.replay) <= Len(Original) BY <1>1, <2>5, <2>6, <2>7
    <3>2. ASSUME NEW i \in 1 .. Len(st.replay) PROVE st.replay[i] = Original[Len(sent[c]) + i]
      <4>1. i \in 1 .. Chunked /\ Len(sent[c]) + i = i BY <1>1, <2>5, <2>6, <2>7
      <4>2. Original[i] = i BY <1>1, <4>1
      <4> QED BY <2>5, <4>1, <4>2, Zenon
    <3> QED BY <1>1, <2>1, <2>5, <3>1, <3>2, YieldEffect, Zenon
  <2>9. Len(sent'[c]) = Shorter(st.read, Chunked) /\ Len(sent'[c]) <= Len(Original)
    BY <1>1, <2>5, <2>6, <2>7, <2>8
  <2>10. Started
    <3>1. Len(st.replay) # 0 BY <2>3, <2>5, EmptySeq
    <3> QED BY <1>1, <2>5, <2>6, <3>1 DEF Started
  <2>11. /\ replayBody' \in [Clones -> BOOLEAN] /\ replayBody'[c] = FALSE
         /\ \A d \in Clones : d # c => replayBody'[d] = replayBody[d]
    BY <1>1, <1>5, <2>1
  <2>12. Place(c)' = Shorter(st.read, Chunked) BY <1>1, <2>1, <2>2 DEF Place
  <2> QED BY <1>1, <1>3, <1>4, <1>5, <2>1, <2>8, <2>9, <2>10, <2>11, <2>12, PollKeeps, Zenon
<1>8. ASSUME ReplayTrailers(c) PROVE RetryInv'
  <2>1. AtTrailers(c) /\ Yield(c, <<Trailers>>) /\ SkipTrailers(c) BY <1>8 DEF ReplayTrailers
  <2>2. ~AtBuffer(c) /\ ~AtCapped(c) /\ replayTrailers[c] = TRUE /\ st.trailers = TRUE
    BY <1>1, <1>5, <1>6, <2>1, Zenon DEF AtTrailers
  <2>3. /\ replayTrailers' \in [Clones -> BOOLEAN] /\ replayBody' = replayBody
        /\ replayTrailers'[c] = FALSE
        /\ \A d \in Clones : d # c => replayTrailers'[d] = replayTrailers[d]
    BY <1>1, <2>1, SkipEffect, Zenon
  <2>4. st.read = Chunked + 1 /\ Len(Original) = Chunked + 1 /\ Original[Chunked + 1] = Trailers
    BY <1>1, <1>6, <2>2
  <2>5. Len(sent[c]) = Chunked BY <1>1, <1>2, <2>2, <2>4 DEF Place, Shorter
  <2>6. <<Trailers>> \in Seq(Nat) /\ Len(<<Trailers>>) = 1 /\ <<Trailers>>[1] = Trailers BY DEF Trailers
  <2>7. /\ sent' \in [Clones -> Seq(Nat)] /\ eos' = eos
        /\ \A d \in Clones : d # c => sent'[d] = sent[d]
        /\ Len(sent'[c]) = Len(sent[c]) + 1
        /\ \A i \in 1 .. Len(sent'[c]) : sent'[c][i] = Original[i]
    <3>1. Len(sent[c]) + Len(<<Trailers>>) <= Len(Original) BY <1>1, <2>4, <2>5, <2>6
    <3>2. \A i \in 1 .. Len(<<Trailers>>) : <<Trailers>>[i] = Original[Len(sent[c]) + i]
      BY <1>1, <2>4, <2>5, <2>6
    <3> QED BY <1>1, <2>1, <2>6, <3>1, <3>2, YieldEffect, Zenon
  <2>8. Started BY <1>1, <2>4 DEF Started
  <2>9. Place(c)' = Chunked + 1 BY <1>1, <2>2, <2>3 DEF Place
  <2>10. Len(sent'[c]) = Chunked + 1 BY <2>5, <2>7
  <2>11. replayBody'[c] = TRUE => Shorter(st'.read, Chunked) = 0 BY <1>2, <2>2, <2>3
  <2>12. Len(sent'[c]) <= Len(Original) BY <1>1, <2>4, <2>10
  <2> QED BY <1>1, <1>3, <1>4, <1>5, <2>3, <2>7, <2>8, <2>9, <2>10, <2>11, <2>12, PollKeeps, Zenon
<1>9. ASSUME Completed(c) PROVE RetryInv'
  <2>1. AtEnd(c) /\ Close(c, "ended") /\ SkipTrailers(c) BY <1>9 DEF Completed
  <2>2. ~AtBuffer(c) /\ ~AtCapped(c) /\ ~AtTrailers(c) /\ st.completed = TRUE
    BY <1>6, <2>1, Zenon DEF AtEnd
  <2>3. /\ replayTrailers' \in [Clones -> BOOLEAN] /\ replayBody' = replayBody
        /\ replayTrailers'[c] = FALSE
        /\ \A d \in Clones : d # c => replayTrailers'[d] = replayTrailers[d]
    BY <1>1, <2>1, SkipEffect, Zenon
  <2>4. /\ eos' \in [Clones -> {"open", "ended", "error"}] /\ sent' = sent
        /\ eos'[c] = "ended"
        /\ \A d \in Clones : d # c => eos'[d] = eos[d]
    BY <1>1, <2>1, CloseEffect
  <2>5. st.trailers = TRUE => replayTrailers[c] = FALSE
    BY <1>1, <1>5, <2>2, Zenon DEF AtTrailers
  <2>6. Len(sent[c]) = Len(Original)
    <3>1. Len(sent[c]) = Place(c) /\ st.read = Len(Original) BY <1>2, <1>6, <2>2
    <3>2. CASE hasTrailers
      <4>1. st.trailers = TRUE BY <1>1, <1>6, <3>1, <3>2
      <4> QED BY <1>1, <2>5, <3>1, <3>2, <4>1 DEF Place
    <3>3. CASE ~hasTrailers
      <4>1. st.read = Chunked BY <1>1, <3>1, <3>3
      <4>2. ~(st.trailers = TRUE) BY <1>1, <1>6, <4>1
      <4> QED BY <1>1, <3>1, <3>3, <4>1, <4>2 DEF Place, Shorter
    <3> QED BY <3>2, <3>3
  <2>7. Started BY <2>2 DEF Started
  <2> QED BY <1>1, <1>3, <1>4, <1>5, <2>3, <2>4, <2>6, <2>7, PollKeeps, Zenon
<1>10. ASSUME RefuseCapped(c) PROVE RetryInv'
  <2>1. AtCapped(c) /\ Close(c, "error") /\ replayBody' = replayBody /\ replayTrailers' = replayTrailers
    BY <1>10 DEF RefuseCapped
  <2>2. /\ eos' \in [Clones -> {"open", "ended", "error"}] /\ sent' = sent
        /\ eos'[c] = "error"
        /\ \A d \in Clones : d # c => eos'[d] = eos[d]
    BY <1>1, <2>1, CloseEffect, Zenon
  <2>3. Started
    <3>1. st.maxBytes = 0 BY <2>1 DEF AtCapped, IsCapped
    <3>2. st.read # 0 BY <3>1 DEF StateInv, RetryAssumed
    <3> QED BY <1>1, <3>2 DEF Started
  <2> QED BY <1>1, <1>3, <1>4, <1>5, <2>1, <2>2, <2>3, PollKeeps, Zenon
<1>11. ASSUME PollPending(c) PROVE RetryInv'
  <2>1. AtInner(c) /\ SkipTrailers(c) /\ sent' = sent /\ eos' = eos BY <1>11 DEF PollPending
  <2>2. ~AtBuffer(c) /\ ~AtCapped(c) /\ st.completed = FALSE BY <1>6, <2>1, Zenon DEF AtInner
  <2>3. /\ replayTrailers' \in [Clones -> BOOLEAN] /\ replayBody' = replayBody
        /\ \A d \in Clones : d # c => replayTrailers'[d] = replayTrailers[d]
    BY <1>1, <2>1, SkipEffect, Zenon
  <2>4. ~(st.trailers = TRUE) BY <2>2 DEF StateInv
  <2>5. Place(c)' = Place(c) BY <1>1, <2>4 DEF Place
  <2> QED BY <1>1, <1>2, <1>3, <1>4, <1>5, <2>1, <2>2, <2>3, <2>5, PollKeeps, Zenon
<1> QED BY <1>7, <1>8, <1>9, <1>10, <1>11

BodyStates == [replay : Seq(Nat), trailers : BOOLEAN, read : Nat, completed : BOOLEAN, maxBytes : Nat]

\* record_bytes appends to the buffer what was read, or empties it for good.
LEMMA Recorded ==
    ASSUME RetryAssumed, RetryInv, sizes' = sizes, hasTrailers' = hasTrailers /\ eager' = eager, st.completed = FALSE,
           st.read < Chunked, st' = RecordBytes(st.read + 1)
    PROVE  /\ StateInv' /\ st'.read = st.read + 1
           /\ st'.trailers = FALSE
<1> USE DEF RetryInv
<1> DEFINE i == st.read + 1
           left == Max0(st.maxBytes - sizes[i])
<1>1. /\ st \in BodyStates
      /\ st.read <= Len(Original) /\ (st.trailers = TRUE <=> st.read = Chunked + 1)
      /\ st.read = 0 => st.maxBytes = MaxBytes + 1
      /\ st.replay = IF st.maxBytes = 0 THEN << >> ELSE DataRead
  BY DEF StateInv, BodyStates
<1>0. st.read \in Nat /\ st.maxBytes \in Nat /\ st.replay \in Seq(Nat) /\ st.trailers \in BOOLEAN
  BY <1>1 DEF BodyStates
<1>2. Chunked \in Nat /\ Len(Original) \in Nat /\ Chunked <= Len(Original)
  BY OriginalFrames DEF RetryType
<1>3. Original' = Original /\ Chunked' = Chunked BY DEF Original, Chunked
<1>4. i \in 1 .. Chunked /\ sizes[i] \in Nat
  <2>1. st.read \in Nat /\ Chunked \in Nat BY <1>0, <1>2, Zenon
  <2>2. i \in 1 .. Chunked
    <3>1. ASSUME NEW a \in Nat, NEW b \in Nat, a < b PROVE a + 1 \in 1 .. b BY <3>1
    <3> QED BY <2>1, <3>1, Zenon
  <2>3. sizes \in Seq(Nat) BY Zenon DEF RetryType
  <2>4. i \in 1 .. Len(sizes) BY <2>2, Zenon DEF Chunked
  <2>5. ASSUME NEW k \in 1 .. Len(sizes) PROVE sizes[k] \in Nat BY <2>3
  <2> QED BY <2>2, <2>4, <2>5, Zenon
<1>5. left \in Nat /\ (st.maxBytes = 0 => left = 0) BY <1>0, <1>1, <1>4 DEF Max0
<1>6. st' = [st EXCEPT !.read = i, !.maxBytes = left,
                       !.replay = IF left = 0 THEN << >> ELSE Append(st.replay, i)]
  BY DEF RecordBytes
<1> HIDE DEF left
<1>7. i \in Nat /\ (IF left = 0 THEN << >> ELSE Append(st.replay, i)) \in Seq(Nat) BY <1>0
<1>8. /\ st' \in BodyStates
      /\ st'.read = i /\ st'.maxBytes = left /\ st'.trailers = st.trailers /\ st'.completed = st.completed
      /\ st'.replay = IF left = 0 THEN << >> ELSE Append(st.replay, i)
  <2> DEFINE r == IF left = 0 THEN << >> ELSE Append(st.replay, i)
  <2>1. st' = [st EXCEPT !.read = i, !.maxBytes = left, !.replay = r] /\ i \in Nat /\ r \in Seq(Nat)
    BY <1>6, <1>7
  <2> HIDE DEF r, i
  <2>2. st \in BodyStates BY <1>1
  <2>3. st' \in BodyStates /\ st'.read = i /\ st'.maxBytes = left /\ st'.replay = r
    BY <1>5, <2>1, <2>2, Zenon DEF BodyStates
  <2>4. st'.trailers = st.trailers /\ st'.completed = st.completed
    BY <1>5, <2>1, <2>2, Zenon DEF BodyStates
  <2> QED BY <2>3, <2>4, Zenon DEF r
<1>9. left # 0 => Append(st.replay, i) = DataRead'
  <2>1. SUFFICES ASSUME left # 0 PROVE Append(st.replay, i) = DataRead' OBVIOUS
  <2>2. st.replay = DataRead BY <1>0, <1>1, <1>5, <2>1
  <2>3. DataRead = [j \in 1 .. st.read |-> j] BY DEF DataRead, Chunked
  <2>4. DataRead' = [j \in 1 .. i |-> j] BY <1>0, <1>1, <1>2, <1>3, <1>4, <1>8 DEF DataRead, Chunked
  <2>5. DataRead \in Seq(Nat) /\ Len(DataRead) = st.read /\ \A j \in 1 .. st.read : DataRead[j] = j
    BY <1>0, <2>3
  <2>6. DataRead' \in Seq(Nat) /\ Len(DataRead') = i /\ \A j \in 1 .. i : DataRead'[j] = j
    BY <1>7, <2>4
  <2>7. /\ Append(DataRead, i) \in Seq(Nat) /\ Len(Append(DataRead, i)) = i
        /\ \A j \in 1 .. i : Append(DataRead, i)[j] = j
    BY <1>0, <1>7, <2>5, AppendProperties
  <2>8. Append(DataRead, i) = DataRead' BY <2>6, <2>7, SeqEqual, Zenon
  <2> QED BY <2>2, <2>8
<1>10. st'.trailers = FALSE BY <1>0, <1>1, <1>2, <1>8
<1>11. st'.replay = IF st'.maxBytes = 0 THEN << >> ELSE DataRead' BY <1>8, <1>9, Zenon
<1>12. st'.read <= Len(Original) /\ st'.read # 0 /\ st'.read # Chunked + 1 BY <1>0, <1>1, <1>2, <1>4, <1>8
<1>13. st'.completed = FALSE BY <1>8
<1>14. StateInv' BY <1>3, <1>8, <1>10, <1>11, <1>12, <1>13 DEF StateInv, BodyStates
<1> QED BY <1>8, <1>10, <1>14

\* Polls that read on in the client's body.
LEMMA Reads ==
    ASSUME RetryAssumed, RetryInv, NEW c \in 1 .. cur, Acquire(c), AtInner(c), SkipTrailers(c)
    PROVE  /\ ReadData(c) => RetryInv'
           /\ ReadTrailers(c) => RetryInv'
           /\ ReadEnd(c) => RetryInv'
           /\ ReadError(c) => RetryInv'
<1> USE DEF RetryInv
<1>1. /\ c \in Clones /\ sizes' = sizes /\ hasTrailers' = hasTrailers /\ eager' = eager
      /\ Original' = Original /\ Chunked' = Chunked
      /\ sent[c] \in Seq(Nat) /\ Len(sent[c]) \in Nat
      /\ eos[c] = "open" /\ (sent[c] # << >> => Started)
      /\ Len(sent[c]) <= Len(Original)
      /\ \A i \in 1 .. Len(sent[c]) : sent[c][i] = Original[i]
      /\ Original \in Seq(Nat) /\ Chunked \in Nat
      /\ Len(Original) = IF hasTrailers THEN Chunked + 1 ELSE Chunked
      /\ \A i \in 1 .. Chunked : Original[i] = i
      /\ hasTrailers => Original[Chunked + 1] = Trailers
      /\ st.read \in Nat
  BY BeforePoll, Zenon
<1>2. ~AtBuffer(c) /\ ~AtCapped(c) BY DEF AtInner
<1>3. /\ Len(sent[c]) = Place(c)
      /\ replayBody[c] = TRUE => Shorter(st.read, Chunked) = 0
      /\ replayBody[c] = TRUE => failed = TRUE \/ Original = << >>
  BY <1>2, Acquired, Zenon
<1>4. /\ replayBody \in [Clones -> BOOLEAN] /\ replayTrailers \in [Clones -> BOOLEAN]
      /\ sent \in [Clones -> Seq(Nat)] /\ eos \in [Clones -> {"open", "ended", "error"}]
      /\ failed \in BOOLEAN
  BY DEF RetryType
<1>5. /\ st \in BodyStates
      /\ st.read <= Len(Original) /\ (st.trailers = TRUE <=> st.read = Chunked + 1)
      /\ st.trailers = TRUE => st.completed = TRUE
  BY DEF StateInv, BodyStates
<1>6. st.completed = FALSE
  <2>1. st.completed \in BOOLEAN BY <1>5 DEF BodyStates
  <2> QED BY <2>1, Zenon DEF AtInner
<1>7. st.trailers = FALSE BY <1>5, <1>6 DEF BodyStates
<1>8. Len(sent[c]) = Shorter(st.read, Chunked) BY <1>3, <1>7 DEF Place
<1>9. /\ replayTrailers' \in [Clones -> BOOLEAN] /\ replayBody' = replayBody
      /\ replayTrailers'[c] = FALSE
      /\ \A d \in Clones : d # c => replayTrailers'[d] = replayTrailers[d]
  BY <1>1, SkipEffect, Zenon
<1>10. ASSUME failed = FALSE, Original # << >> PROVE replayBody[c] = FALSE
  BY <1>1, <1>3, <1>4, <1>10
<1>11. ASSUME ReadData(c) PROVE RetryInv'
  <2>1. ~failed /\ st.read < Len(sizes) /\ st' = RecordBytes(st.read + 1) /\ Yield(c, <<st.read + 1>>)
        /\ failed' = failed
    BY <1>11 DEF ReadData
  <2>2. failed = FALSE BY <1>4, <2>1
  <2>3. st.read < Chunked /\ Original # << >>
    <3>1. st.read < Chunked BY <2>1 DEF Chunked
    <3>2. Len(Original) # 0 BY <1>1, <3>1
    <3> QED BY <3>1, <3>2
  <2>4. replayBody[c] = FALSE BY <1>10, <2>2, <2>3, Zenon
  <2>5. StateInv' /\ st'.read = st.read + 1 /\ st'.trailers = FALSE BY <1>1, <1>6, <2>1, <2>3, Recorded, Zenon
  <2>6. Len(sent[c]) = st.read BY <1>1, <1>8, <2>3 DEF Shorter
  <2>7. <<st.read + 1>> \in Seq(Nat) /\ Len(<<st.read + 1>>) = 1 /\ <<st.read + 1>>[1] = st.read + 1
    BY <1>1
  <2>8. /\ sent' \in [Clones -> Seq(Nat)] /\ eos' = eos
        /\ \A d \in Clones : d # c => sent'[d] = sent[d]
        /\ Len(sent'[c]) = Len(sent[c]) + 1
        /\ \A i \in 1 .. Len(sent'[c]) : sent'[c][i] = Original[i]
    <3>1. Len(sent[c]) + Len(<<st.read + 1>>) <= Len(Original) BY <1>1, <2>3, <2>6, <2>7
    <3>2. Original[st.read + 1] = st.read + 1
      <4>1. st.read \in Nat /\ Chunked \in Nat /\ st.read < Chunked BY <1>1, <2>3, Zenon
      <4>2. ASSUME NEW a \in Nat, NEW b \in Nat, a < b PROVE a + 1 \in 1 .. b BY <4>2
      <4> QED BY <1>1, <4>1, <4>2, Zenon
    <3>3. \A i \in 1 .. Len(<<st.read + 1>>) : <<st.read + 1>>[i] = Original[Len(sent[c]) + i]
      BY <1>1, <2>6, <2>7, <3>2
    <3> QED BY <1>1, <2>1, <2>7, <3>1, <3>3, YieldEffect, Zenon
  <2>9. Started' BY <1>1, <2>5 DEF Started
  <2>10. Place(c)' = st.read + 1
    <3>1. Place(c)' = Shorter(st'.read, Chunked) BY <1>1, <2>5 DEF Place
    <3> QED BY <1>1, <2>3, <2>5, <3>1 DEF Shorter
  <2>11. Len(sent'[c]) = st.read + 1 /\ Len(sent'[c]) <= Len(Original) BY <1>1, <2>3, <2>6, <2>8
  <2> QED BY <1>1, <1>4, <1>9, <2>1, <2>4, <2>5, <2>8, <2>9, <2>10, <2>11, PollKeeps, Zenon
<1>12. ASSUME ReadTrailers(c) PROVE RetryInv'
  <2>1. /\ ~failed /\ hasTrailers /\ st.read = Len(sizes) /\ Yield(c, <<Trailers>>) /\ failed' = failed
        /\ st' = [st EXCEPT !.read = st.read + 1, !.trailers = TRUE, !.completed = TRUE]
    BY <1>12 DEF ReadTrailers
  <2>2. failed = FALSE BY <1>4, <2>1
  <2>3. st.read = Chunked /\ Len(Original) = Chunked + 1 /\ Original # << >>
    <3>1. st.read = Chunked /\ Len(Original) = Chunked + 1 BY <1>1, <2>1 DEF Chunked
    <3> QED BY <1>1, <3>1
  <2>4. replayBody[c] = FALSE BY <1>10, <2>2, <2>3, Zenon
  <2>5. /\ st' \in BodyStates
        /\ st'.read = Chunked + 1 /\ st'.trailers = TRUE /\ st'.completed = TRUE
        /\ st'.maxBytes = st.maxBytes /\ st'.replay = st.replay
    <3>1. st.read + 1 \in Nat /\ st.read + 1 = Chunked + 1 BY <1>1, <2>3
    <3>2. st' = [st EXCEPT !.read = Chunked + 1, !.trailers = TRUE, !.completed = TRUE] BY <2>1, <3>1, Zenon
    <3>3. st \in BodyStates /\ Chunked + 1 \in Nat BY <1>5, <3>1
    <3>4. st' \in BodyStates /\ st'.read = Chunked + 1 /\ st'.maxBytes = st.maxBytes /\ st'.replay = st.replay
      BY <3>2, <3>3, Zenon DEF BodyStates
    <3>5. st'.trailers = TRUE /\ st'.completed = TRUE BY <3>2, <3>3 DEF BodyStates
    <3> QED BY <3>4, <3>5, Zenon
  <2>6. DataRead' = DataRead
    BY <1>1, <2>3, <2>5 DEF DataRead, Chunked
  <2>7. StateInv'
    <3>1. st'.replay = IF st'.maxBytes = 0 THEN << >> ELSE DataRead' BY <2>5, <2>6 DEF StateInv
    <3>2. st'.read # 0 /\ st'.read <= Len(Original) BY <1>1, <2>3, <2>5
    <3> QED BY <1>1, <2>3, <2>5, <3>1, <3>2 DEF StateInv, BodyStates
  <2>8. Len(sent[c]) = Chunked BY <1>1, <1>8, <2>3 DEF Shorter
  <2>9. <<Trailers>> \in Seq(Nat) /\ Len(<<Trailers>>) = 1 /\ <<Trailers>>[1] = Trailers BY DEF Trailers
  <2>10. /\ sent' \in [Clones -> Seq(Nat)] /\ eos' = eos
         /\ \A d \in Clones : d # c => sent'[d] = sent[d]
         /\ Len(sent'[c]) = Len(sent[c]) + 1
         /\ \A i \in 1 .. Len(sent'[c]) : sent'[c][i] = Original[i]
    <3>1. Len(sent[c]) + Len(<<Trailers>>) <= Len(Original) BY <1>1, <2>3, <2>8, <2>9
    <3>2. \A i \in 1 .. Len(<<Trailers>>) : <<Trailers>>[i] = Original[Len(sent[c]) + i]
      BY <1>1, <2>1, <2>8, <2>9
    <3> QED BY <1>1, <2>1, <2>9, <3>1, <3>2, YieldEffect, Zenon
  <2>11. Started' BY <2>5 DEF Started
  <2>12. Place(c)' = Chunked + 1 BY <1>1, <1>9, <2>5 DEF Place
  <2>13. Len(sent'[c]) = Chunked + 1 /\ Len(sent'[c]) <= Len(Original) BY <1>1, <2>3, <2>8, <2>10
  <2> QED BY <1>1, <1>4, <1>9, <2>1, <2>4, <2>7, <2>10, <2>11, <2>12, <2>13, PollKeeps, Zenon
<1>13. ASSUME ReadEnd(c) PROVE RetryInv'
  <2>1. /\ ~hasTrailers /\ st.read = Len(sizes) /\ Close(c, "ended") /\ failed' = failed
        /\ st' = [st EXCEPT !.completed = TRUE]
    BY <1>13 DEF ReadEnd
  <2>2. st.read = Chunked /\ Len(Original) = Chunked BY <1>1, <2>1 DEF Chunked
  <2>3. /\ st' \in BodyStates
        /\ st'.read = st.read /\ st'.trailers = FALSE /\ st'.completed = TRUE
        /\ st'.maxBytes = st.maxBytes /\ st'.replay = st.replay
    <3>1. st \in BodyStates /\ st' = [st EXCEPT !.completed = TRUE] BY <1>5, <2>1
    <3>2. st' \in BodyStates /\ st'.read = st.read /\ st'.maxBytes = st.maxBytes /\ st'.replay = st.replay
      BY <3>1, Zenon DEF BodyStates
    <3>3. st'.trailers = st.trailers /\ st'.completed = TRUE BY <3>1 DEF BodyStates
    <3> QED BY <1>7, <3>2, <3>3, Zenon
  <2>4. DataRead' = DataRead BY <1>1, <2>3 DEF DataRead
  <2>5. StateInv'
    <3>1. st'.replay = IF st'.maxBytes = 0 THEN << >> ELSE DataRead' BY <2>3, <2>4 DEF StateInv
    <3>2. st'.read = 0 => st'.maxBytes = MaxBytes + 1 BY <2>3 DEF StateInv
    <3>3. st'.read # Chunked + 1 /\ st'.read <= Len(Original) BY <1>1, <2>2, <2>3
    <3> QED BY <1>1, <2>2, <2>3, <3>1, <3>2, <3>3 DEF StateInv, BodyStates
  <2>6. Len(sent[c]) = Len(Original) BY <1>1, <1>8, <2>2 DEF Shorter
  <2>7. /\ eos' \in [Clones -> {"open", "ended", "error"}] /\ sent' = sent
        /\ eos'[c] = "ended"
        /\ \A d \in Clones : d # c => eos'[d] = eos[d]
    BY <1>1, <2>1, CloseEffect
  <2>8. Started' BY <2>3 DEF Started
  <2> QED BY <1>1, <1>4, <1>9, <2>1, <2>5, <2>6, <2>7, <2>8, PollKeeps, Zenon
<1>14. ASSUME ReadError(c) PROVE RetryInv'
  <2>1. failed' = TRUE /\ Close(c, "error") /\ st' = st BY <1>14 DEF ReadError
  <2>2. /\ eos' \in [Clones -> {"open", "ended", "error"}] /\ sent' = sent
        /\ eos'[c] = "error"
        /\ \A d \in Clones : d # c => eos'[d] = eos[d]
    BY <1>1, <2>1, CloseEffect
  <2>3. Started' BY <2>1 DEF Started
  <2>4. StateInv' BY <1>1, <2>1, StateKept
  <2> QED BY <1>1, <1>4, <1>9, <2>1, <2>2, <2>3, <2>4, PollKeeps, Zenon
<1> QED BY <1>11, <1>12, <1>13, <1>14

LEMMA PollStep ==
    ASSUME RetryAssumed, RetryInv, NEW c \in 1 .. cur, PollFrame(c)
    PROVE  RetryInv'
<1>1. ASSUME MissingState(c) PROVE FALSE
  <2>1. Active(c) /\ owner # c /\ owner # 0 BY <1>1 DEF MissingState, Pollable, Active
  <2> QED BY <2>1 DEF RetryInv, ActiveInv
<1>2. CASE ReplayBuffer(c) BY <1>2, Replays, Zenon DEF ReplayBuffer
<1>3. CASE RefuseCapped(c) BY <1>3, Replays DEF RefuseCapped
<1>4. CASE ReplayTrailers(c) BY <1>4, Replays DEF ReplayTrailers
<1>5. CASE Completed(c) BY <1>5, Replays DEF Completed
<1>6. CASE PollPending(c) BY <1>6, Replays DEF PollPending
<1>7. CASE ReadData(c) BY <1>7, Reads DEF ReadData
<1>8. CASE ReadTrailers(c) BY <1>8, Reads DEF ReadTrailers
<1>9. CASE ReadEnd(c) BY <1>9, Reads DEF ReadEnd
<1>10. CASE ReadError(c) BY <1>10, Reads DEF ReadError
<1> QED BY <1>1, <1>2, <1>3, <1>4, <1>5, <1>6, <1>7, <1>8, <1>9, <1>10, Zenon DEF PollFrame

\* Steps that neither read nor send: what they leave alone.
LEMMA SameState ==
    ASSUME RetryAssumed, RetryInv, sizes' = sizes, hasTrailers' = hasTrailers /\ eager' = eager, failed' = failed, st' = st
    PROVE  /\ Original' = Original /\ Chunked' = Chunked /\ Clones' = Clones
           /\ StateInv' /\ (Started => Started')
           /\ \A c \in Clones : replayTrailers'[c] = replayTrailers[c] => Place(c)' = Place(c)
<1>1. StateInv' /\ (Started => Started') BY StateKept, Zenon DEF RetryInv
<1>2. Original' = Original /\ Chunked' = Chunked BY DEF Original, Chunked
<1> QED BY <1>1, <1>2 DEF Place, Clones

LEMMA EndStep ==
    ASSUME RetryAssumed, RetryInv, NEW c \in 1 .. cur, EndStream(c)
    PROVE  RetryInv'
<1> USE DEF RetryInv
<1>1. /\ sizes' = sizes /\ hasTrailers' = hasTrailers /\ eager' = eager /\ failed' = failed /\ st' = st /\ owner' = owner
      /\ body' = body /\ replayBody' = replayBody /\ replayTrailers' = replayTrailers
      /\ cur' = cur /\ phase' = phase /\ panicked' = panicked
      /\ Pollable(c) /\ IsEndStream(c) /\ Close(c, "ended")
  BY DEF EndStream, origin, loop
<1>2. c \in Clones BY CloneNumbers
<1>3. /\ eos' \in [Clones -> {"open", "ended", "error"}] /\ sent' = sent
      /\ eos'[c] = "ended"
      /\ \A d \in Clones : d # c => eos'[d] = eos[d]
  BY <1>1, <1>2, CloseEffect
<1>4. /\ Original' = Original /\ Chunked' = Chunked /\ Clones' = Clones
      /\ StateInv' /\ (Started => Started')
      /\ \A d \in Clones : Place(d)' = Place(d)
  BY <1>1, SameState
<1>5. eos[c] = "open" /\ Active(c) BY <1>1 DEF Pollable, Active
<1>6. /\ Chunked \in Nat /\ Original \in Seq(Nat)
      /\ Len(Original) = IF hasTrailers THEN Chunked + 1 ELSE Chunked
  BY OriginalFrames DEF RetryType
<1>7. Len(sent[c]) = Len(Original)
  <2>1. CASE Original = << >>
    <3>1. sent[c] \in Seq(Nat) /\ Len(sent[c]) \in Nat BY <1>2 DEF RetryType
    <3>2. Len(sent[c]) <= Len(Original) BY <1>2 DEF SentInv
    <3> QED BY <2>1, <3>1, <3>2
  <2>2. CASE Original # << >>
    <3>1. owner = c /\ ~replayTrailers[c] /\ st.read = Len(Original) BY <1>1, <2>2 DEF IsEndStream
    <3>2. replayTrailers[c] = FALSE BY <1>2, <3>1 DEF RetryType
    <3>3. Len(sent[c]) = Place(c) BY <1>5, <3>1 DEF ActiveInv
    <3>4. st.trailers = TRUE <=> st.read = Chunked + 1 BY DEF StateInv
    <3>5. CASE hasTrailers BY <1>6, <3>1, <3>2, <3>3, <3>4, <3>5 DEF Place
    <3>6. CASE ~hasTrailers
      <4>1. st.read = Chunked /\ Len(Original) = Chunked BY <1>6, <3>1, <3>6
      <4>2. ~(st.trailers = TRUE) BY <1>6, <3>4, <4>1
      <4> QED BY <1>6, <3>3, <4>1, <4>2 DEF Place, Shorter
    <3> QED BY <3>5, <3>6
  <2> QED BY <2>1, <2>2
<1>8. Started
  <2>1. CASE Original = << >> BY <2>1 DEF Started
  <2>2. CASE Original # << >>
    <3>1. Len(Original) # 0 /\ Len(Original) \in Nat BY <1>6, <2>2, EmptySeq
    <3>2. Len(sent[c]) # 0 BY <1>7, <3>1
    <3>3. sent[c] # << >> BY <3>2
    <3> QED BY <1>2, <3>3 DEF LoopInv
  <2> QED BY <2>1, <2>2
<1>9. RetryType' BY <1>1, <1>3, <1>4, Zenon DEF RetryType
<1>10. ASSUME NEW d \in 1 .. cur, Active(d)' PROVE Active(d) /\ d # c /\ d \in Clones
  <2>1. d \in Clones BY CloneNumbers
  <2>2. d # c BY <1>3, <1>10 DEF Active
  <2> QED BY <1>1, <1>3, <1>10, <2>1, <2>2 DEF Active
<1>11. ActiveInv'
  <2> SUFFICES ASSUME NEW d \in 1 .. cur, Active(d)' PROVE
        /\ owner' = d => /\ Len(sent'[d]) = Place(d)'
                         /\ replayBody'[d] = TRUE => Shorter(st'.read, Chunked') = 0
        /\ owner' # d => d = cur /\ owner' = 0 /\ Untouched(d)'
    BY <1>1, Zenon DEF ActiveInv
  <2>1. Active(d) /\ d # c /\ d \in Clones BY <1>10
  <2>2. Untouched(d) => Untouched(d)' BY <1>1, <1>3, <2>1 DEF Untouched
  <2> QED BY <1>1, <1>3, <1>4, <2>1, <2>2 DEF ActiveInv
<1>12. LoopInv'
  <2>1. ASSUME NEW d \in Clones, d > cur PROVE Untouched(d)' /\ body'[d] # "live"
    <3>1. d # c BY <2>1 DEF RetryType
    <3> QED BY <1>1, <1>3, <2>1, <3>1, Zenon DEF LoopInv, Untouched
  <2>2. replayBody'[1] = FALSE BY <1>1 DEF LoopInv
  <2>3. phase = "backoff" => FALSE BY <1>5 DEF LoopInv
  <2> QED BY <1>1, <1>4, <1>8, <2>1, <2>2, <2>3, Zenon DEF LoopInv
<1>13. SentInv'
  <2> SUFFICES ASSUME NEW d \in Clones PROVE
        /\ Len(sent[d]) <= Len(Original)
        /\ \A i \in 1 .. Len(sent[d]) : sent[d][i] = Original[i]
        /\ eos'[d] = "ended" => Len(sent[d]) = Len(Original)
    BY <1>3, <1>4 DEF SentInv
  <2>1. CASE d = c BY <1>7, <2>1 DEF SentInv
  <2>2. CASE d # c BY <1>3, <2>2 DEF SentInv
  <2> QED BY <2>1, <2>2
<1> QED BY <1>4, <1>9, <1>11, <1>12, <1>13

LEMMA DropStep ==
    ASSUME RetryAssumed, RetryInv, NEW c \in 1 .. cur, DropBody(c)
    PROVE  RetryInv'
<1> USE DEF RetryInv
<1>1. /\ sizes' = sizes /\ hasTrailers' = hasTrailers /\ eager' = eager /\ failed' = failed /\ st' = st
      /\ replayBody' = replayBody /\ replayTrailers' = replayTrailers /\ sent' = sent /\ eos' = eos
      /\ cur' = cur /\ phase' = phase /\ panicked' = panicked
      /\ body' = [body EXCEPT ![c] = "dropped"]
      /\ owner' = IF owner = c THEN 0 ELSE owner
  BY DEF DropBody, origin, loop
<1>2. c \in Clones /\ c # 0 BY CloneNumbers
<1>3. /\ Original' = Original /\ Chunked' = Chunked /\ Clones' = Clones
      /\ StateInv' /\ (Started => Started')
      /\ \A d \in Clones : Place(d)' = Place(d)
  BY <1>1, SameState
<1>4. /\ body' \in [Clones -> {"none", "backup", "live", "dropped"}]
      /\ body'[c] = "dropped" /\ \A d \in Clones : d # c => body'[d] = body[d]
  BY <1>1, <1>2 DEF RetryType
<1>5. RetryType'
  <2>1. owner' \in 0 .. MaxRetries + 1 BY <1>1 DEF RetryType, RetryAssumed
  <2> QED BY <1>1, <1>3, <1>4, <2>1, Zenon DEF RetryType
<1>6. ASSUME NEW d \in 1 .. cur, Active(d)' PROVE Active(d) /\ d # c /\ d \in Clones /\ d # 0
  <2>1. d \in Clones /\ d # 0 BY CloneNumbers
  <2>2. d # c BY <1>4, <1>6 DEF Active
  <2> QED BY <1>1, <1>4, <1>6, <2>1, <2>2 DEF Active
<1>7. ActiveInv'
  <2> SUFFICES ASSUME NEW d \in 1 .. cur, Active(d)' PROVE
        /\ owner' = d => /\ Len(sent'[d]) = Place(d)'
                         /\ replayBody'[d] = TRUE => Shorter(st'.read, Chunked') = 0
        /\ owner' # d => d = cur /\ owner' = 0 /\ Untouched(d)'
    BY <1>1, Zenon DEF ActiveInv
  <2>1. Active(d) /\ d # c /\ d \in Clones /\ d # 0 BY <1>6
  <2>2. Untouched(d)' = Untouched(d) BY <1>1 DEF Untouched
  <2>3. owner # c
    BY <1>2, <2>1 DEF ActiveInv
  <2>4. owner' = owner BY <1>1, <2>3
  <2> QED BY <1>1, <1>3, <2>1, <2>2, <2>4 DEF ActiveInv
<1>8. LoopInv'
  <2>1. ASSUME NEW d \in Clones, d > cur PROVE Untouched(d)' /\ body'[d] # "live"
    <3>1. d # c BY <2>1 DEF RetryType
    <3> QED BY <1>1, <1>4, <2>1, <3>1, Zenon DEF LoopInv, Untouched
  <2>2. replayBody'[1] = FALSE BY <1>1 DEF LoopInv
  <2>3. phase = "backoff" => owner' = 0 /\ cur <= MaxRetries /\ Started /\ \A d \in 1 .. cur : ~Active(d)'
    BY <1>1, <1>6 DEF LoopInv
  <2>4. \A d \in Clones : sent'[d] # << >> \/ eos'[d] # "open" => Started' BY <1>1, <1>3 DEF LoopInv
  <2>5. cur > 1 => Started' BY <1>3 DEF LoopInv
  <2> QED BY <1>1, <1>3, <2>1, <2>2, <2>3, <2>4, <2>5 DEF LoopInv
<1>9. SentInv' BY <1>1, <1>3 DEF SentInv
<1> QED BY <1>3, <1>5, <1>7, <1>8, <1>9

\* The response is returned: the backup is dropped.
LEMMA ReturnStep ==
    ASSUME RetryAssumed, RetryInv, sizes' = sizes, hasTrailers' = hasTrailers /\ eager' = eager, failed' = failed, st' = st,
           owner' = owner, replayBody' = replayBody, replayTrailers' = replayTrailers, sent' = sent, eos' = eos,
           cur' = cur, panicked' = panicked, Return
    PROVE  RetryInv'
<1> USE DEF RetryInv
<1>1. body' = [body EXCEPT ![cur + 1] = "dropped"] /\ phase' = "returned" BY DEF Return
<1>2. /\ Original' = Original /\ Chunked' = Chunked /\ Clones' = Clones
      /\ StateInv' /\ (Started => Started')
      /\ \A d \in Clones : Place(d)' = Place(d)
  BY SameState
<1>3. cur + 1 \in Clones /\ cur \in Nat /\ Clones \subseteq Nat BY CloneNumbers, Zenon DEF RetryType
<1>4. /\ body' \in [Clones -> {"none", "backup", "live", "dropped"}]
      /\ body'[cur + 1] = "dropped" /\ \A d \in Clones : d # cur + 1 => body'[d] = body[d]
  BY <1>1, <1>3 DEF RetryType
<1>5. RetryType' BY <1>1, <1>2, <1>4, Zenon DEF RetryType
<1>6. \A d \in 1 .. cur : d \in Clones /\ d # cur + 1 BY <1>3, CloneNumbers
<1>7. \A d \in 1 .. cur : Active(d)' = Active(d) BY <1>4, <1>6 DEF Active
<1>8. \A d \in Clones : Untouched(d)' = Untouched(d) BY DEF Untouched
<1>9. ActiveInv'
  <2> SUFFICES ASSUME NEW d \in 1 .. cur, Active(d)' PROVE
        /\ owner' = d => /\ Len(sent'[d]) = Place(d)'
                         /\ replayBody'[d] = TRUE => Shorter(st'.read, Chunked') = 0
        /\ owner' # d => d = cur /\ owner' = 0 /\ Untouched(d)'
    BY Zenon DEF ActiveInv
  <2>1. Active(d) /\ d \in Clones BY <1>6, <1>7
  <2> QED BY <1>2, <1>8, <2>1 DEF ActiveInv
<1>10. LoopInv'
  <2>1. ASSUME NEW d \in Clones, d > cur PROVE Untouched(d)' /\ body'[d] # "live"
    <3>1. Untouched(d) /\ body[d] # "live" BY <2>1 DEF LoopInv
    <3>2. CASE d = cur + 1 BY <1>4, <1>8, <3>1, <3>2
    <3>3. CASE d # cur + 1 BY <1>4, <1>8, <3>1, <3>3
    <3> QED BY <3>2, <3>3
  <2>2. \A d \in Clones : sent'[d] # << >> \/ eos'[d] # "open" => Started' BY <1>2 DEF LoopInv
  <2>3. cur > 1 => Started' BY <1>2 DEF LoopInv
  <2>4. replayBody'[1] = FALSE BY DEF LoopInv
  <2> QED BY <1>1, <1>2, <2>1, <2>2, <2>3, <2>4 DEF LoopInv
<1>11. SentInv' BY <1>2 DEF SentInv
<1> QED BY <1>2, <1>5, <1>9, <1>10, <1>11

LEMMA RespondStep ==
    ASSUME RetryAssumed, RetryInv, NEW retryable \in BOOLEAN, Respond(retryable)
    PROVE  RetryInv'
<1> USE DEF RetryInv
<1>1. /\ sizes' = sizes /\ hasTrailers' = hasTrailers /\ eager' = eager /\ failed' = failed /\ st' = st /\ owner' = owner
      /\ replayBody' = replayBody /\ replayTrailers' = replayTrailers /\ sent' = sent /\ eos' = eos
      /\ cur' = cur /\ panicked' = panicked /\ Begun(cur)
  BY DEF Respond, origin
<1>2. CASE Return BY <1>1, <1>2, ReturnStep
<1>3. CASE BackupUsable /\ cur <= MaxRetries /\ phase' = "backoff" /\ body' = body
  <2>1. /\ Original' = Original /\ Chunked' = Chunked /\ Clones' = Clones
        /\ StateInv' /\ (Started => Started')
        /\ \A d \in Clones : Place(d)' = Place(d)
    BY <1>1, SameState
  <2>2. owner = 0 BY <1>3 DEF BackupUsable
  <2>3. cur \in Clones /\ cur \in 1 .. cur /\ \A d \in 1 .. cur : d \in Clones /\ d # 0
    <3>1. cur \in 1 .. MaxRetries + 1 /\ RetryType BY DEF RetryType
    <3>2. cur \in 1 .. cur BY <3>1 DEF RetryAssumed
    <3> QED BY <3>1, <3>2, CloneNumbers
  <2>4. sent[cur] # << >> \/ eos[cur] # "open" BY <1>1 DEF Begun, RetryType
  <2>5. Started BY <2>3, <2>4 DEF LoopInv
  <2>6. \A d \in 1 .. cur : ~Active(d)
    <3> SUFFICES ASSUME NEW d \in 1 .. cur, Active(d) PROVE FALSE OBVIOUS
    <3>1. d = cur /\ Untouched(d) BY <2>2, <2>3 DEF ActiveInv
    <3> QED BY <2>4, <3>1, Zenon DEF Untouched
  <2>7. RetryType' BY <1>1, <1>3, <2>1, Zenon DEF RetryType
  <2>8. \A d \in 1 .. cur : ~Active(d)' BY <1>1, <1>3, <2>6 DEF Active
  <2>9. ActiveInv' BY <1>1, <2>8 DEF ActiveInv
  <2>10. LoopInv'
    <3>1. \A d \in Clones : d > cur => Untouched(d)' /\ body'[d] # "live" BY <1>1, <1>3 DEF LoopInv, Untouched
    <3>2. replayBody'[1] = FALSE BY <1>1 DEF LoopInv
    <3>3. owner' = 0 /\ cur <= MaxRetries /\ Started' BY <1>1, <1>3, <2>1, <2>2, <2>5
    <3> QED BY <1>1, <1>3, <2>1, <2>8, <3>1, <3>2, <3>3 DEF LoopInv
  <2>11. SentInv' BY <1>1, <2>1 DEF SentInv
  <2> QED BY <2>1, <2>7, <2>9, <2>10, <2>11
<1> QED BY <1>2, <1>3 DEF Respond

LEMMA SendStep ==
    ASSUME RetryAssumed, RetryInv, SendBackup
    PROVE  RetryInv'
<1> USE DEF RetryInv
<1>1. /\ sizes' = sizes /\ hasTrailers' = hasTrailers /\ eager' = eager /\ failed' = failed /\ st' = st /\ owner' = owner
      /\ replayBody' = replayBody /\ replayTrailers' = replayTrailers /\ sent' = sent /\ eos' = eos
      /\ panicked' = panicked /\ cur' = cur + 1 /\ phase = "backoff" /\ phase' = "sending"
      /\ body' = [body EXCEPT ![cur + 1] = "live", ![cur + 2] = "backup"]
  BY DEF SendBackup, origin
<1>2. /\ Original' = Original /\ Chunked' = Chunked /\ Clones' = Clones
      /\ StateInv' /\ (Started => Started')
      /\ \A d \in Clones : Place(d)' = Place(d)
  BY <1>1, SameState
<1>3. owner = 0 /\ cur <= MaxRetries /\ Started /\ \A c \in 1 .. cur : ~Active(c) BY <1>1 DEF LoopInv
<1>4. /\ cur \in Nat /\ cur + 1 \in Clones /\ cur + 2 \in Clones /\ cur + 1 # cur + 2
      /\ cur + 1 \in 1 .. MaxRetries + 1 /\ Clones \subseteq Nat
  BY <1>3 DEF RetryType, RetryAssumed, Clones
<1>5. /\ body' \in [Clones -> {"none", "backup", "live", "dropped"}]
      /\ body'[cur + 1] = "live" /\ body'[cur + 2] = "backup"
      /\ \A d \in Clones : d # cur + 1 /\ d # cur + 2 => body'[d] = body[d]
  BY <1>1, <1>4 DEF RetryType
<1>6. RetryType' BY <1>1, <1>2, <1>4, <1>5, Zenon DEF RetryType
<1>7. Untouched(cur + 1) BY <1>4 DEF LoopInv
<1>8. \A d \in Clones : Untouched(d)' = Untouched(d) BY <1>1 DEF Untouched
<1>9. ASSUME NEW d \in 1 .. cur + 1, Active(d)' PROVE d = cur + 1
  <2>1. SUFFICES ASSUME d # cur + 1 PROVE FALSE OBVIOUS
  <2>2. d \in 1 .. cur /\ d # cur + 2 BY <1>4, <2>1
  <2>3. d \in Clones BY <2>2, CloneNumbers
  <2>4. Active(d) BY <1>1, <1>5, <1>9, <2>1, <2>2, <2>3 DEF Active
  <2> QED BY <1>3, <2>2, <2>4
<1>10. ActiveInv'
  <2> SUFFICES ASSUME NEW d \in 1 .. cur + 1, Active(d)' PROVE
        /\ owner' = d => /\ Len(sent'[d]) = Place(d)'
                         /\ replayBody'[d] = TRUE => Shorter(st'.read, Chunked') = 0
        /\ owner' # d => d = cur + 1 /\ owner' = 0 /\ Untouched(d)'
    BY <1>1, Zenon DEF ActiveInv
  <2>1. d = cur + 1 BY <1>9
  <2>2. owner' # d BY <1>1, <1>3, <1>4, <2>1
  <2> QED BY <1>1, <1>3, <1>4, <1>7, <1>8, <2>1, <2>2
<1>11. LoopInv'
  <2>1. ASSUME NEW d \in Clones, d > cur + 1 PROVE Untouched(d)' /\ body'[d] # "live"
    <3>1. d > cur /\ d # cur + 1 BY <1>4, <2>1
    <3>2. Untouched(d) /\ body[d] # "live" BY <3>1 DEF LoopInv
    <3>3. CASE d = cur + 2 BY <1>5, <1>8, <3>2, <3>3
    <3>4. CASE d # cur + 2 BY <1>5, <1>8, <3>1, <3>2, <3>4
    <3> QED BY <3>3, <3>4
  <2>2. \A d \in Clones : sent'[d] # << >> \/ eos'[d] # "open" => Started' BY <1>2, <1>3
  <2>3. replayBody'[1] = FALSE BY <1>1 DEF LoopInv
  <2> QED BY <1>1, <1>2, <1>3, <2>1, <2>2, <2>3, Zenon DEF LoopInv
<1>12. SentInv' BY <1>1, <1>2, Zenon DEF SentInv
<1> QED BY <1>2, <1>6, <1>10, <1>11, <1>12

(***************************************************************************)
(* Every attempt of a retried request sends a prefix of the request that   *)
(* the client sent, all of it before it ends, and no body is polled        *)
(* without its state (ReplayBody::poll_frame, is_end_stream and drop, and  *)
(* send_req_with_retries): for requests of any length, buffers of any size *)
(* and any number of retries, when the transport reads something of a body *)
(* before it answers or drops it.                                          *)
(***************************************************************************)
THEOREM ReplaySafe == RetrySpec => []ReplayFaithful
<1>a. RetryAssumed BY RetryConstants DEF RetryAssumed
<1> USE <1>a
<1> DEFINE IInv == eager \in BOOLEAN /\ (eager = TRUE => RetryInv)
<1>1. RetryInit => IInv BY FromInit, Zenon DEF RetryInit, RetryAssumed
<1>2. IInv /\ [RetryNext]_retryVars => IInv'
  <2>0. SUFFICES ASSUME IInv, [RetryNext]_retryVars PROVE IInv' BY Zenon
  <2>e. eager' = eager
    BY <2>0 DEF RetryNext, PollFrame, MissingState, ReplayBuffer, RefuseCapped, ReplayTrailers, Completed, PollPending,
        ReadData, ReadTrailers, ReadEnd, ReadError, Acquire, EndStream, DropBody, Respond, Overflow, SendBackup, Done,
        retryVars, origin
  <2> SUFFICES ASSUME RetryInv PROVE RetryInv' BY <2>0, <2>e
  <2>1. CASE \E c \in 1 .. cur : PollFrame(c) \/ EndStream(c) \/ DropBody(c)
    BY <2>1, PollStep, EndStep, DropStep
  <2>2. CASE \E retryable \in BOOLEAN : Respond(retryable) BY <2>2, RespondStep
  <2>3. CASE Overflow BY <2>3, ReturnStep DEF Overflow, origin
  <2>4. CASE SendBackup BY <2>4, SendStep
  <2>5. CASE UNCHANGED retryVars
    <3>1. /\ sizes' = sizes /\ hasTrailers' = hasTrailers /\ eager' = eager /\ failed' = failed /\ st' = st /\ owner' = owner
          /\ body' = body /\ replayBody' = replayBody /\ replayTrailers' = replayTrailers /\ sent' = sent
          /\ eos' = eos /\ cur' = cur /\ phase' = phase /\ panicked' = panicked
      BY <2>5 DEF retryVars, origin, clones, loop
    <3>2. RetryType' BY <3>1 DEF RetryInv, RetryType, Clones
    <3>3. StateInv' BY <3>1, SameState
    <3>4. ActiveInv' BY <3>1, Zenon DEF RetryInv, ActiveInv, Active, Place, Untouched, Chunked
    <3>5. LoopInv' BY <3>1 DEF RetryInv, LoopInv, Active, Untouched, Started, Original, Clones
    <3>6. SentInv' BY <3>1, Zenon DEF RetryInv, SentInv, Original, Clones
    <3> QED BY <3>2, <3>3, <3>4, <3>5, <3>6 DEF RetryInv
  <2> QED BY <2>0, <2>1, <2>2, <2>3, <2>4, <2>5 DEF RetryNext, Done
<1>3. IInv => ReplayFaithful
  <2> SUFFICES ASSUME RetryInv PROVE ReplayFaithful BY DEF ReplayFaithful
  <2>1. Original \in Seq(Nat) BY OriginalFrames DEF RetryInv, RetryType
  <2>2. ASSUME NEW c \in Clones
        PROVE  /\ Len(sent[c]) <= Len(Original) /\ \A i \in 1 .. Len(sent[c]) : sent[c][i] = Original[i]
               /\ eos[c] = "ended" => sent[c] = Original
    <3>1. sent[c] \in Seq(Nat) BY DEF RetryInv, RetryType
    <3>2. /\ Len(sent[c]) <= Len(Original)
          /\ \A i \in 1 .. Len(sent[c]) : sent[c][i] = Original[i]
          /\ eos[c] = "ended" => Len(sent[c]) = Len(Original)
      BY DEF RetryInv, SentInv
    <3>3. eos[c] = "ended" => sent[c] = Original BY <2>1, <3>1, <3>2, SeqEqual
    <3> QED BY <3>2, <3>3
  <2>3. NeverPanics BY DEF RetryInv, RetryType, NeverPanics
  <2> QED BY <2>2, <2>3 DEF ReplayFaithful, SentFaithful, EndMeansAll
<1> QED BY <1>1, <1>2, <1>3, PTL DEF RetrySpec

=============================================================================
