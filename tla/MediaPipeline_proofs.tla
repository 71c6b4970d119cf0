------------------------ MODULE MediaPipeline_proofs ------------------------
(***************************************************************************)
(* What the encoder writes, for any pool and any codec: the picture of the *)
(* turn, one pool apart at most when the codec holds pictures back.  And   *)
(* what holds of each node alone holds of a graph of both: the graph       *)
(* is a decoder and an encoder that takes steps of their own.  The calls   *)
(* and the destructors of neither wait for a thread that waits for them.   *)
(***************************************************************************)
EXTENDS MediaPipeline, MediaDecoder_proofs

\* The encoder, with images that show members of P and have buffers in B.
EncoderStep(P, B) ==
    \/ encodes /\ \E memory \in [B -> P \cup {NoPicture}]: EncodeLoop(memory)
    \/ \E picture \in P, buf \in B: EncoderNode(picture, buf)
    \/ EncodeFrame \/ Accepted \/ EncoderClose

Stops == {"start", "pop", "fetch", "send", "flush", "stop", "tell", "exit"}
Calls == {"idle", "wait", "convert", "update", "submit", "out", "drain", "take", "join", "gone"}

EncoderTyped(P, B) ==
    /\ encodes \in BOOLEAN /\ gpuInput \in BOOLEAN /\ codecDelay \in CodecDelays
    /\ encoding \in Stops /\ takes \in Calls
    /\ commands \in Seq({"encode", "abort"}) /\ acks \in Seq({0, -1})
    /\ threadTerminated \in BOOLEAN
    /\ inputFrameCount \in Nat /\ encodeFrameCount \in Nat
    /\ videoFrame \in [Entries -> P \cup {NoPicture}]
    /\ submittedBuffer \in [Entries -> B \cup {NoBuffer}]
    /\ codec \in Seq(P \cup {NoPicture}) /\ file \in Seq(P \cup {NoPicture})
    /\ submitted \in Seq(P) /\ refused \in BOOLEAN /\ missed \in BOOLEAN

------------------------------------------------------------------------------
(***************************************************************************)
(* Types of the encoder.                                                   *)
(***************************************************************************)
USE EncoderAssumption

LEMMA EntryType == ASSUME NEW x \in Int PROVE Entry(x) \in Entries
<1>1. EntryCount \in Nat \ {0}
    OBVIOUS
<1> QED
    BY <1>1, DivMod DEF Entry, Entries

LEMMA Appended ==
    ASSUME NEW T, NEW s \in Seq(T), NEW x \in T
    PROVE  /\ Append(s, x) \in Seq(T) /\ Len(Append(s, x)) = Len(s) + 1 /\ Len(s) \in Nat
           /\ Append(s, x)[Len(s) + 1] = x
           /\ \A k \in 1..Len(s): Append(s, x)[k] = s[k]
OBVIOUS

LEMMA Shortened ==
    ASSUME NEW T, NEW s \in Seq(T), s # <<>>
    PROVE  /\ Tail(s) \in Seq(T) /\ Head(s) \in T /\ Head(s) = s[1]
           /\ Len(s) \in Nat \ {0} /\ Len(Tail(s)) = Len(s) - 1
           /\ \A k \in 1..Len(s) - 1: Tail(s)[k] = s[k + 1]
OBVIOUS

\* What the codec does to the pictures it holds and the file.
LEMMA CodecKeepsType ==
    ASSUME NEW T, NEW kept \in Seq(T), NEW written \in Seq(T), NEW x \in T
    PROVE  /\ Append(kept, x) \in Seq(T)
           /\ Append(written, Head(Append(kept, x))) \in Seq(T) /\ Tail(Append(kept, x)) \in Seq(T)
           /\ kept # <<>> => Append(written, Head(kept)) \in Seq(T) /\ Tail(kept) \in Seq(T)
<1>1. Append(kept, x) \in Seq(T) /\ Append(kept, x) # <<>>
    OBVIOUS
<1>2. Head(Append(kept, x)) \in T /\ Tail(Append(kept, x)) \in Seq(T)
    BY <1>1
<1>3. kept # <<>> => Head(kept) \in T /\ Tail(kept) \in Seq(T)
    OBVIOUS
<1> QED
    BY <1>1, <1>2, <1>3

LEMMA HoldAndWrite ==
    ASSUME NEW T, NEW kept \in Seq(T), NEW written \in Seq(T), NEW y
    PROVE  /\ Len(Append(kept, y)) = Len(kept) + 1
           /\ Len(Tail(Append(kept, y))) = Len(kept)
           /\ kept = <<>> => Head(Append(kept, y)) = y
           /\ \A x: /\ Len(Append(written, x)) = Len(written) + 1 /\ Append(written, x)[Len(written) + 1] = x
                   /\ \A k \in 1..Len(written): Append(written, x)[k] = written[k]
           /\ kept # <<>> => Len(kept) > 0 /\ Len(Tail(kept)) = Len(kept) - 1
OBVIOUS

LEMMA JoinOne ==
    ASSUME NEW T, NEW s \in Seq(T), NEW x
    PROVE  /\ Len(Append(s, x)) = Len(s) + 1 /\ Append(s, x)[Len(s) + 1] = x
           /\ \A k \in 1..Len(s): Append(s, x)[k] = s[k]
OBVIOUS

LEMMA EncoderTypeInit ==
    ASSUME NEW P, NEW B PROVE EncoderInit => EncoderTyped(P, B)
<1> SUFFICES ASSUME EncoderInit PROVE EncoderTyped(P, B)
    OBVIOUS
<1>1. /\ encodes \in BOOLEAN /\ gpuInput \in BOOLEAN /\ codecDelay \in CodecDelays
      /\ threadTerminated \in BOOLEAN /\ refused \in BOOLEAN /\ missed \in BOOLEAN
    BY Zenon DEF EncoderInit
<1>2. /\ encoding \in Stops /\ takes \in Calls /\ inputFrameCount \in Nat /\ encodeFrameCount \in Nat
    BY DEF EncoderInit, Stops, Calls
<1>3. /\ commands \in Seq({"encode", "abort"}) /\ acks \in Seq({0, -1})
      /\ codec \in Seq(P \cup {NoPicture}) /\ file \in Seq(P \cup {NoPicture}) /\ submitted \in Seq(P)
    BY DEF EncoderInit
<1>4. videoFrame \in [Entries -> P \cup {NoPicture}] /\ submittedBuffer \in [Entries -> B \cup {NoBuffer}]
    BY DEF EncoderInit
<1> QED
    BY <1>1, <1>2, <1>3, <1>4 DEF EncoderTyped

\* A step changes a few variables, each to a value of its type.
LEMMA EncoderTypeStep ==
    ASSUME NEW P, NEW B, EncoderTyped(P, B), EncoderStep(P, B)
    PROVE  EncoderTyped(P, B)'
<1> USE DEF encoderArguments, pool, link, encoderHistory
<1>T. /\ encoding \in Stops /\ takes \in Calls
      /\ commands \in Seq({"encode", "abort"}) /\ acks \in Seq({0, -1})
      /\ inputFrameCount \in Nat /\ encodeFrameCount \in Nat
      /\ videoFrame \in [Entries -> P \cup {NoPicture}]
      /\ submittedBuffer \in [Entries -> B \cup {NoBuffer}]
      /\ codec \in Seq(P \cup {NoPicture}) /\ file \in Seq(P \cup {NoPicture})
      /\ submitted \in Seq(P)
    BY DEF EncoderTyped
<1>E. Entry(inputFrameCount) \in Entries /\ Entry(encodeFrameCount) \in Entries /\ 0 \in Entries
    <2>1. inputFrameCount \in Int /\ encodeFrameCount \in Int
        BY <1>T
    <2> QED
        BY <2>1, EntryType DEF Entries
<1>S. Sent \in P \cup {NoPicture}
    BY <1>T, <1>E DEF Sent
<1>A. /\ \A x \in {0, -1}: Append(acks, x) \in Seq({0, -1})
      /\ \A x \in {"encode", "abort"}: Append(commands, x) \in Seq({"encode", "abort"})
      /\ acks # <<>> => Tail(acks) \in Seq({0, -1})
      /\ commands # <<>> => Tail(commands) \in Seq({"encode", "abort"})
    BY <1>T
<1>C. /\ Append(codec, Sent) \in Seq(P \cup {NoPicture})
      /\ Append(file, Head(Append(codec, Sent))) \in Seq(P \cup {NoPicture})
      /\ Tail(Append(codec, Sent)) \in Seq(P \cup {NoPicture})
      /\ codec # <<>> => /\ Append(file, Head(codec)) \in Seq(P \cup {NoPicture})
                         /\ Tail(codec) \in Seq(P \cup {NoPicture})
    <2> DEFINE Q == P \cup {NoPicture}
    <2>1. codec \in Seq(Q) /\ file \in Seq(Q) /\ Sent \in Q
        BY <1>T, <1>S
    <2> HIDE DEF Q
    <2>2. /\ Append(codec, Sent) \in Seq(Q)
          /\ Append(file, Head(Append(codec, Sent))) \in Seq(Q) /\ Tail(Append(codec, Sent)) \in Seq(Q)
          /\ codec # <<>> => Append(file, Head(codec)) \in Seq(Q) /\ Tail(codec) \in Seq(Q)
        BY <2>1, CodecKeepsType
    <2> QED
        BY <2>2 DEF Q
<1>1. CASE AckEntries \/ PacketFails
    <2>1. [k \in 1..EntryCount - 1 |-> 0] \in Seq({0, -1})
        OBVIOUS
    <2>2. acks' \in Seq({0, -1}) /\ encoding' \in Stops
        BY <1>1, <2>1 DEF AckEntries, PacketFails, Stops
    <2> QED
        BY <1>1, <2>2 DEF AckEntries, PacketFails, EncoderTyped
<1>2. CASE TakeCommand
    <2>1. commands' \in Seq({"encode", "abort"}) /\ encoding' \in Stops
        BY <1>2, <1>A DEF TakeCommand, Stops
    <2> QED
        BY <1>2, <2>1 DEF TakeCommand, EncoderTyped
<1>3. ASSUME NEW memory \in [B -> P \cup {NoPicture}], FetchPicture(memory) PROVE EncoderTyped(P, B)'
    <2>1. Fetched \in B
        BY <1>3, <1>T, <1>E DEF FetchPicture, Fetched
    <2>2. videoFrame' \in [Entries -> P \cup {NoPicture}] /\ encoding' \in Stops
        BY <1>3, <2>1, <1>T, <1>E DEF FetchPicture, Stops
    <2> QED
        BY <1>3, <2>2 DEF FetchPicture, EncoderTyped
<1>4. ASSUME NEW memory, FetchFails(memory) \/ EncodeFails \/ FlushFails \/ MarkTerminated PROVE EncoderTyped(P, B)'
    <2>1. encoding' \in Stops /\ threadTerminated' \in BOOLEAN /\ missed' \in BOOLEAN
        BY <1>4 DEF FetchFails, EncodeFails, FlushFails, MarkTerminated, Stops, EncoderTyped
    <2> QED
        BY <1>4, <2>1 DEF FetchFails, EncodeFails, FlushFails, MarkTerminated, EncoderTyped
<1>5. CASE SendAgain
    <2>1. codec' \in Seq(P \cup {NoPicture}) /\ acks' \in Seq({0, -1}) /\ encoding' \in Stops
        BY <1>5, <1>C, <1>A DEF SendAgain, Stops
    <2> QED
        BY <1>5, <2>1 DEF SendAgain, EncoderTyped
<1>6. CASE SendPicture
    <2>3. file' \in Seq(P \cup {NoPicture}) /\ codec' \in Seq(P \cup {NoPicture})
        BY <1>6, <1>C DEF SendPicture
    <2>4. acks' \in Seq({0, -1}) /\ encoding' \in Stops /\ encodeFrameCount' \in Nat
        BY <1>6, <1>T, <1>A DEF SendPicture, Stops
    <2> QED
        BY <1>6, <2>3, <2>4 DEF SendPicture, EncoderTyped
<1>7. CASE Flush
    <2>1. file' \in Seq(P \cup {NoPicture}) /\ codec' \in Seq(P \cup {NoPicture})
        <3>1. CASE codec = <<>>
            BY <1>7, <3>1, <1>T DEF Flush
        <3>2. CASE codec # <<>>
            BY <1>7, <3>2, <1>C DEF Flush
        <3> QED
            BY <3>1, <3>2
    <2>2. encoding' \in Stops
        BY <1>7 DEF Flush, Stops
    <2> QED
        BY <1>7, <2>1, <2>2 DEF Flush, EncoderTyped
<1>8. CASE AckTermination
    <2>1. acks' \in Seq({0, -1}) /\ encoding' \in Stops
        BY <1>8, <1>A DEF AckTermination, Stops
    <2> QED
        BY <1>8, <2>1 DEF AckTermination, EncoderTyped
<1>9. CASE EncodeFrame \/ Accepted \/ DrainAcks \/ JoinEncoder
    <2>1. takes' \in Calls
        BY <1>9 DEF EncodeFrame, Accepted, DrainAcks, JoinEncoder, Calls
    <2> QED
        BY <1>9, <2>1 DEF EncodeFrame, Accepted, DrainAcks, JoinEncoder, EncoderTyped
<1>10. CASE TakeEntry \/ TakeLastAck
    <2>1. acks' \in Seq({0, -1}) /\ takes' \in Calls /\ refused' \in BOOLEAN
        BY <1>10, <1>A DEF TakeEntry, TakeLastAck, Calls, EncoderTyped
    <2> QED
        BY <1>10, <2>1 DEF TakeEntry, TakeLastAck, EncoderTyped
<1>11. ASSUME NEW picture \in P, ConvertPicture(picture) PROVE EncoderTyped(P, B)'
    <2>1. videoFrame' \in [Entries -> P \cup {NoPicture}]
        BY <1>11, <1>T DEF ConvertPicture
    <2>2. submitted' \in Seq(P) /\ takes' \in Calls /\ inputFrameCount' \in Nat
        BY <1>11, <1>T, Appended DEF ConvertPicture, Calls
    <2> QED
        BY <1>11, <2>1, <2>2 DEF ConvertPicture, EncoderTyped
<1>12. ASSUME NEW picture \in P, NEW buf \in B, UpdateBuffer(picture, buf) PROVE EncoderTyped(P, B)'
    <2>1. submittedBuffer' \in [Entries -> B \cup {NoBuffer}]
        BY <1>12, <1>T DEF UpdateBuffer
    <2>2. submitted' \in Seq(P) /\ takes' \in Calls /\ inputFrameCount' \in Nat
        BY <1>12, <1>T, Appended DEF UpdateBuffer, Calls
    <2> QED
        BY <1>12, <2>1, <2>2 DEF UpdateBuffer, EncoderTyped
<1>13. CASE ConvertFails \/ UpdateFails
    <2>1. takes' \in Calls /\ missed' \in BOOLEAN
        BY <1>13 DEF ConvertFails, UpdateFails, Calls
    <2>2. inputFrameCount' \in Nat
        <3>1. inputFrameCount + 1 \in Nat /\ inputFrameCount + 0 \in Nat
            BY <1>T
        <3> QED
            BY <1>13, <3>1, <1>T DEF ConvertFails, UpdateFails
    <2> QED
        BY <1>13, <2>1, <2>2 DEF ConvertFails, UpdateFails, EncoderTyped
<1>14. CASE Submit \/ SubmitFails \/ EncoderClose
    <2>1. commands' \in Seq({"encode", "abort"}) /\ takes' \in Calls
        BY <1>14, <1>A DEF Submit, SubmitFails, EncoderClose, Calls
    <2> QED
        BY <1>14, <2>1 DEF Submit, SubmitFails, EncoderClose, EncoderTyped
<1> QED
    BY <1>1, <1>2, <1>3, <1>4, <1>5, <1>6, <1>7, <1>8, <1>9, <1>10, <1>11, <1>12, <1>13, <1>14
    DEF EncoderStep, EncodeLoop, EncoderNode

------------------------------------------------------------------------------
(***************************************************************************)
(* The encoder's invariant.  While its thread works, every entry but one   *)
(* is free, being filled, commanded or being encoded, and every picture    *)
(* that was accepted is in exactly one of these, in the codec, or written. *)
(***************************************************************************)
Tearing == takes \in {"drain", "take", "join", "gone"}      \* in the destructor
Working == encoding \in {"start", "pop", "fetch", "send"}
Filling == IF takes \in {"convert", "update", "submit"} THEN 1 ELSE 0
Submitting == IF takes = "submit" THEN 1 ELSE 0
Encoding == IF encoding \in {"fetch", "send"} THEN 1 ELSE 0
Pictured == Len(commands) - (IF Tearing THEN 1 ELSE 0)      \* the commands with a picture

\* The abort is the last command, and a thread that works has yet to see it.
AbortIsLast ==
    /\ \A k \in 1..Len(commands): commands[k] = "abort" => Tearing /\ k = Len(commands)
    /\ Working /\ Tearing => commands # <<>> /\ commands[Len(commands)] = "abort"

\* An input image is either converted or has a buffer.
Modes == (encoding = "fetch" => gpuInput) /\ (takes = "update" => gpuInput)

\* Only an ended thread says so.
Terminates ==
    /\ threadTerminated => encoding \in {"tell", "exit"}
    /\ encoding = "tell" => threadTerminated
    /\ \A k \in 1..Len(acks): acks[k] = -1 => threadTerminated
    /\ refused => threadTerminated
    /\ takes = "gone" => encoding = "exit"

Room ==
    /\ encoding = "start" => acks = <<>> /\ Filling = 0 /\ Pictured = 0
    /\ Working => Len(acks) + Pictured + Encoding + Filling <= EntryCount - 1

Accounts ==
    ~missed =>
        /\ inputFrameCount = Len(submitted)
        /\ Len(codec) <= codecDelay /\ Len(file) + Len(codec) <= Len(submitted)
        /\ Working =>
              /\ Len(file) = encodeFrameCount
              /\ encodeFrameCount > 0 => Len(codec) = codecDelay
              /\ inputFrameCount = encodeFrameCount + Pictured + Encoding + Submitting + Len(codec)
        /\ encoding = "flush" =>
              Tearing /\ commands = <<>> /\ Len(file) + Len(codec) = Len(submitted)
        /\ encoding \in {"stop", "tell", "exit"} /\ Tearing /\ commands = <<>> =>
              Len(submitted) - Len(file) <= (IF codecDelay <= 1 THEN 0 ELSE codecDelay - 1)

\* The k-th picture that the codec took: it is in the file, or still in the codec.
Kth(written, kept, k) == IF k <= Len(written) THEN written[k] ELSE kept[k - Len(written)]

\* Host mode: the pool has the pictures accepted last, as many as it has entries,
\* and the codec took in every turn one that was accepted for its entry.
Handed ==
    ~gpuInput /\ ~missed =>
        /\ \A j \in 1..Len(submitted): j > Len(submitted) - EntryCount => videoFrame[Entry(j - 1)] = submitted[j]
        /\ \A k \in 1..Len(file) + Len(codec): \E j \in Turn(k): Kth(file, codec, k) = submitted[j]

EncoderInv == AbortIsLast /\ Terminates /\ Room /\ Accounts /\ Handed

LEMMA EncoderInvInit == EncoderInit => EncoderInv
<1> SUFFICES ASSUME EncoderInit PROVE EncoderInv
    OBVIOUS
<1>1. /\ encoding = "start" /\ takes = "idle" /\ commands = <<>> /\ acks = <<>> /\ codec = <<>> /\ file = <<>>
      /\ submitted = <<>> /\ inputFrameCount = 0 /\ encodeFrameCount = 0 /\ codecDelay \in Nat
      /\ ~threadTerminated /\ ~refused
    BY DEF EncoderInit
<1>2. /\ Len(commands) = 0 /\ Len(acks) = 0 /\ Len(codec) = 0 /\ Len(file) = 0 /\ Len(submitted) = 0
    BY <1>1
<1>3. Filling = 0 /\ Submitting = 0 /\ Encoding = 0 /\ Pictured = 0 /\ ~Tearing
    BY <1>1, <1>2 DEF Filling, Submitting, Encoding, Pictured, Tearing
<1>4. AbortIsLast /\ Terminates
    BY <1>1, <1>2, <1>3 DEF AbortIsLast, Terminates
<1>5. Room /\ Accounts
    BY <1>1, <1>2, <1>3 DEF Room, Accounts
<1>6. Handed
    BY <1>1, <1>2 DEF Handed
<1> QED
    BY <1>4, <1>5, <1>6 DEF EncoderInv

\* The types the steps need, of a state and of its successor.
LEMMA EncoderNumbers ==
    ASSUME NEW P, NEW B, EncoderTyped(P, B)
    PROVE  /\ inputFrameCount \in Nat /\ encodeFrameCount \in Nat /\ codecDelay \in Nat
           /\ acks \in Seq({0, -1}) /\ commands \in Seq({"encode", "abort"})
           /\ Len(acks) \in Nat /\ Len(commands) \in Nat /\ Len(codec) \in Nat /\ Len(file) \in Nat
           /\ Len(submitted) \in Nat
           /\ Filling \in 0..1 /\ Submitting \in 0..1 /\ Encoding \in 0..1 /\ Pictured \in Int
           /\ (~Tearing => Pictured = Len(commands)) /\ (Tearing => Pictured = Len(commands) - 1)
<1>1. /\ inputFrameCount \in Nat /\ encodeFrameCount \in Nat /\ codecDelay \in Nat
      /\ acks \in Seq({0, -1}) /\ commands \in Seq({"encode", "abort"})
    BY DEF EncoderTyped
<1>2. codec \in Seq(P \cup {NoPicture}) /\ file \in Seq(P \cup {NoPicture}) /\ submitted \in Seq(P)
    BY DEF EncoderTyped
<1>3. /\ Len(acks) \in Nat /\ Len(commands) \in Nat
      /\ Len(codec) \in Nat /\ Len(file) \in Nat /\ Len(submitted) \in Nat
    BY <1>1, <1>2
<1>4. Filling \in 0..1 /\ Submitting \in 0..1 /\ Encoding \in 0..1
    BY DEF Filling, Submitting, Encoding
<1>5. /\ Pictured \in Int
      /\ (~Tearing => Pictured = Len(commands)) /\ (Tearing => Pictured = Len(commands) - 1)
    BY <1>3 DEF Pictured
<1> QED
    BY <1>1, <1>3, <1>4, <1>5

\* The number below l that is in the slot of e, and less than n away from l.
LEMMA LastOf ==
    ASSUME NEW n \in Nat \ {0}, NEW e \in Nat, NEW l \in Nat, e < l
    PROVE  \E j \in 1..l: j > l - n /\ (j - 1) % n = e % n
<1> DEFINE d == l - 1 - e
           q == d \div n
           r == d % n
           m == e \div n
           v == e % n
<1>1. d \in Int /\ d = n * q + r /\ q \in Int /\ r \in 0..n - 1
    <2>1. d \in Int
        OBVIOUS
    <2> HIDE DEF d
    <2> QED
        BY <2>1, DivMod
<1>2. e = n * m + v /\ m \in Int /\ v \in 0..n - 1
    BY DivMod
<1>3. 0 <= d - r
    <2>1. 0 <= d
        OBVIOUS
    <2> HIDE DEF d, q, r
    <2>2. CASE q < 0
        <3>1. n * q <= -n
            BY <2>2, <1>1
        <3> QED
            BY <3>1, <2>1, <1>1
    <2>3. CASE q >= 0
        <3>1. n * q >= 0
            BY <2>3, <1>1
        <3> QED
            BY <3>1, <1>1
    <2> QED
        BY <2>2, <2>3, <1>1
<1> DEFINE j == l - r
<1>4. j \in 1..l /\ j > l - n
    BY <1>1, <1>3
<1>5. j - 1 = n * (m + q) + v
    <2>1. j - 1 = e + (d - r)
        BY <1>1
    <2> HIDE DEF d, q, r, m, v, j
    <2>2. d - r = n * q
        BY <1>1
    <2>3. n * (m + q) = n * m + n * q
        BY <1>1, <1>2
    <2> QED
        BY <2>1, <2>2, <2>3, <1>1, <1>2
<1>6. (j - 1) % n = v
    <2>1. m + q \in Int
        BY <1>1, <1>2
    <2> HIDE DEF d, q, r, m, v, j
    <2> QED
        BY <2>1, <1>2, <1>5, ModUnique
<1> QED
    BY <1>4, <1>6

\* The pictures of a turn stay what they are.
LEMMA TurnStays == ASSUME UNCHANGED <<submitted, codecDelay>> PROVE \A k: Turn(k)' = Turn(k)
BY DEF Turn, Entry

LEMMA TurnGrows ==
    ASSUME NEW P, submitted \in Seq(P), NEW x, submitted' = Append(submitted, x), codecDelay' = codecDelay, NEW k, NEW j \in Turn(k)
    PROVE  j \in Turn(k)' /\ submitted'[j] = submitted[j]
<1>1. /\ Len(submitted') = Len(submitted) + 1 /\ Len(submitted) \in Nat
      /\ \A m \in 1..Len(submitted): submitted'[m] = submitted[m]
    BY JoinOne
<1>2. j \in 1..Len(submitted) /\ j \in 1..Len(submitted')
    BY <1>1 DEF Turn
<1> QED
    BY <1>1, <1>2 DEF Turn, Entry

\* What the thread has in hand is in an entry that was filled in its turn, and
\* is still as it was filled.
LEMMA ItsTurn ==
    ASSUME NEW P, NEW B, EncoderTyped(P, B), EncoderInv, ~missed, encoding \in {"fetch", "send"}
    PROVE  /\ Len(file) + Len(codec) + 1 <= Len(submitted)
           /\ Len(submitted) - (Len(file) + Len(codec) + 1) < EntryCount - 1
           /\ \E j \in Turn(Len(file) + Len(codec) + 1):
                 j > Len(submitted) - EntryCount /\ Entry(j - 1) = Entry(encodeFrameCount)
<1> DEFINE t == Len(file) + Len(codec) + 1
           L == Len(submitted)
           D == codecDelay
           e == encodeFrameCount
           c == Len(codec)
           p == Pictured
           s == Submitting
<1>1. /\ e \in Nat /\ D \in Nat /\ L \in Nat /\ c \in Nat /\ p \in Int /\ s \in 0..1
      /\ Len(acks) \in Nat /\ Filling \in 0..1 /\ EntryCount \in Nat \ {0} /\ Len(file) \in Nat
    BY EncoderNumbers
<1>2. Working /\ Encoding = 1
    BY DEF Working, Encoding
<1>3. p >= 0
    <2>1. Tearing => commands # <<>>
        BY <1>2 DEF EncoderInv, AbortIsLast
    <2>2. commands # <<>> => Len(commands) # 0
        BY EncoderNumbers
    <2> QED
        BY <2>1, <2>2, EncoderNumbers
<1>4. Len(acks) + p + 1 + Filling <= EntryCount - 1
    BY <1>2 DEF EncoderInv, Room
<1>5. s <= Filling
    BY DEF Submitting, Filling
<1>6. Len(file) = e /\ c <= D /\ (e > 0 => c = D) /\ L = e + p + 1 + s + c
    BY <1>2 DEF EncoderInv, Accounts
<1>7. p + s <= EntryCount - 2
    <2> DEFINE a == Len(acks)
               f == Filling
    <2>1. a \in Nat /\ f \in 0..1 /\ a + p + 1 + f <= EntryCount - 1 /\ s <= f
        BY <1>1, <1>4, <1>5
    <2> HIDE DEF a, f, p, s
    <2> QED
        BY <2>1, <1>1
<1>8. t = e + c + 1 /\ t \in Nat
    BY <1>1, <1>6
<1> HIDE DEF t, L, D, e, c, p, s
<1>9. t <= L /\ L - t < EntryCount - 1 /\ e < L
    BY <1>1, <1>3, <1>6, <1>7, <1>8
<1>10. PICK j \in 1..L: j > L - EntryCount /\ (j - 1) % EntryCount = e % EntryCount
    BY <1>1, <1>9, LastOf
<1>11. e = IF t > D THEN t - 1 - D ELSE 0
    BY <1>1, <1>6, <1>8
<1>12. t - EntryCount < j /\ j < t + EntryCount - 1
    BY <1>1, <1>8, <1>9, <1>10
<1>13. j \in Turn(t)
    BY <1>10, <1>11, <1>12 DEF Turn, Entry, L, D
<1> QED
    BY <1>9, <1>10, <1>13 DEF Entry, t, L, e

\* What the codec does with the pictures it took keeps their order.
LEMMA HandedOn ==
    ASSUME NEW T, NEW f \in Seq(T), NEW c \in Seq(T), NEW x \in T
    PROVE  /\ Len(f) \in Nat /\ Len(c) \in Nat
           /\ \A k \in 1..Len(f) + Len(c): Kth(f, Append(c, x), k) = Kth(f, c, k)
           /\ Kth(f, Append(c, x), Len(f) + Len(c) + 1) = x
           /\ c # <<>> => \A k \in 1..Len(f) + Len(c): Kth(Append(f, Head(c)), Tail(c), k) = Kth(f, c, k)
<1>1. Len(f) \in Nat /\ Len(c) \in Nat
    OBVIOUS
<1>2. ASSUME NEW k \in 1..Len(f) + Len(c) PROVE Kth(f, Append(c, x), k) = Kth(f, c, k)
    <2>1. CASE k <= Len(f)
        BY <2>1 DEF Kth
    <2>2. CASE ~(k <= Len(f))
        <3>1. k - Len(f) \in 1..Len(c)
            BY <2>2, <1>1
        <3>2. Append(c, x)[k - Len(f)] = c[k - Len(f)]
            BY <3>1, JoinOne
        <3> QED
            BY <2>2, <3>2 DEF Kth
    <2> QED
        BY <2>1, <2>2
<1>3. Kth(f, Append(c, x), Len(f) + Len(c) + 1) = x
    <2>1. ~(Len(f) + Len(c) + 1 <= Len(f)) /\ Len(f) + Len(c) + 1 - Len(f) = Len(c) + 1
        BY <1>1
    <2>2. Append(c, x)[Len(c) + 1] = x
        BY JoinOne
    <2> QED
        BY <2>1, <2>2 DEF Kth
<1>4. ASSUME c # <<>>, NEW k \in 1..Len(f) + Len(c) PROVE Kth(Append(f, Head(c)), Tail(c), k) = Kth(f, c, k)
    <2>1. /\ Len(Append(f, Head(c))) = Len(f) + 1 /\ Append(f, Head(c))[Len(f) + 1] = Head(c)
          /\ \A m \in 1..Len(f): Append(f, Head(c))[m] = f[m]
        BY JoinOne
    <2>2. /\ Head(c) = c[1] /\ \A m \in 1..Len(c) - 1: Tail(c)[m] = c[m + 1]
        BY <1>4, Shortened
    <2>3. CASE k <= Len(f)
        <3>1. k <= Len(f) + 1 /\ k \in 1..Len(f)
            BY <2>3, <1>1
        <3> QED
            BY <2>1, <2>3, <3>1 DEF Kth
    <2>4. CASE k = Len(f) + 1
        <3>1. ~(k <= Len(f)) /\ k <= Len(f) + 1 /\ k - Len(f) = 1
            BY <2>4, <1>1
        <3> QED
            BY <2>1, <2>2, <2>4, <3>1 DEF Kth
    <2>5. CASE k > Len(f) + 1
        <3>1. /\ ~(k <= Len(f)) /\ ~(k <= Len(f) + 1)
              /\ k - (Len(f) + 1) \in 1..Len(c) - 1 /\ k - (Len(f) + 1) + 1 = k - Len(f)
            BY <2>5, <1>1
        <3> QED
            BY <2>1, <2>2, <3>1 DEF Kth
    <2> QED
        BY <2>3, <2>4, <2>5, <1>1
<1> QED
    BY <1>1, <1>2, <1>3, <1>4

LEMMA HandedThrough ==
    ASSUME NEW T, NEW f \in Seq(T), NEW c \in Seq(T), NEW x \in T
    PROVE  /\ \A k \in 1..Len(f) + Len(c): Kth(Append(f, Head(Append(c, x))), Tail(Append(c, x)), k) = Kth(f, c, k)
           /\ Kth(Append(f, Head(Append(c, x))), Tail(Append(c, x)), Len(f) + Len(c) + 1) = x
<1> DEFINE d == Append(c, x)
<1>1. d \in Seq(T) /\ d # <<>> /\ Len(d) = Len(c) + 1
    <2>1. Append(c, x) \in Seq(T) /\ Len(Append(c, x)) = Len(c) + 1 /\ Len(c) \in Nat
        BY Appended
    <2>2. Len(Append(c, x)) # 0
        BY <2>1
    <2>3. Append(c, x) # <<>>
        BY <2>2
    <2> QED
        BY <2>1, <2>3
<1>2. /\ Len(f) \in Nat /\ Len(c) \in Nat
      /\ \A k \in 1..Len(f) + Len(c): Kth(f, d, k) = Kth(f, c, k)
      /\ Kth(f, d, Len(f) + Len(c) + 1) = x
    BY HandedOn
<1> HIDE DEF d
<1>3. \A k \in 1..Len(f) + Len(d): Kth(Append(f, Head(d)), Tail(d), k) = Kth(f, d, k)
    BY <1>1, HandedOn
<1>4. Len(f) + Len(c) + 1 \in 1..Len(f) + Len(d) /\ \A k \in 1..Len(f) + Len(c): k \in 1..Len(f) + Len(d)
    BY <1>1, <1>2
<1> QED
    BY <1>2, <1>3, <1>4 DEF d

LEMMA HandedNext ==
    ASSUME NEW P, NEW B, EncoderTyped(P, B), EncoderInv, encoding = "send", ~gpuInput, ~missed,
           UNCHANGED <<gpuInput, codecDelay, videoFrame, submitted>>,
           Len(file') + Len(codec') = Len(file) + Len(codec) + 1,
           \A k \in 1..Len(file) + Len(codec): Kth(file', codec', k) = Kth(file, codec, k),
           Kth(file', codec', Len(file) + Len(codec) + 1) = Sent
    PROVE  Handed'
<1> DEFINE n == Len(file) + Len(codec)
<1>1. n \in Nat
    BY EncoderNumbers
<1>2. PICK j \in Turn(n + 1): j > Len(submitted) - EntryCount /\ Entry(j - 1) = Entry(encodeFrameCount)
    BY ItsTurn
<1>3. Handed
    BY DEF EncoderInv
<1>4. j \in 1..Len(submitted)
    BY <1>2 DEF Turn
<1>5. Sent = submitted[j]
    BY <1>2, <1>3, <1>4 DEF Handed, Sent
<1>6. \A k: Turn(k)' = Turn(k)
    BY TurnStays
<1>7. ASSUME NEW k \in 1..n + 1 PROVE \E m \in Turn(k): Kth(file', codec', k) = submitted[m]
    <2>1. k \in 1..n \/ k = n + 1
        BY <1>1
    <2>2. CASE k \in 1..n
        BY <2>2, <1>3 DEF Handed
    <2>3. CASE k = n + 1
        BY <2>3, <1>2, <1>5
    <2> QED
        BY <2>1, <2>2, <2>3
<1>8. \A k \in 1..Len(file') + Len(codec'): \E m \in Turn(k)': Kth(file', codec', k) = submitted'[m]
    BY <1>6, <1>7
<1>9. \A m \in 1..Len(submitted'): m > Len(submitted') - EntryCount => videoFrame'[Entry(m - 1)] = submitted'[m]
    BY <1>3 DEF Handed
<1> QED
    BY <1>8, <1>9 DEF Handed, Entry, Kth

\* A step of the encoder's thread.
LEMMA EncodeLoopStep ==
    ASSUME NEW P, NEW B, EncoderTyped(P, B), EncoderTyped(P, B)', EncoderInv, Modes, NEW memory, EncodeLoop(memory)
    PROVE  EncoderInv'
<1> USE DEF encoderArguments, pool, link, encoderHistory
<1>N. /\ inputFrameCount \in Nat /\ encodeFrameCount \in Nat /\ codecDelay \in Nat
      /\ acks \in Seq({0, -1}) /\ commands \in Seq({"encode", "abort"})
      /\ Len(acks) \in Nat /\ Len(commands) \in Nat /\ Len(codec) \in Nat /\ Len(file) \in Nat
      /\ Len(submitted) \in Nat
      /\ Filling \in 0..1 /\ Submitting \in 0..1 /\ Encoding \in 0..1 /\ Pictured \in Int
      /\ (~Tearing => Pictured = Len(commands)) /\ (Tearing => Pictured = Len(commands) - 1)
    BY EncoderNumbers
<1>I. AbortIsLast /\ Terminates /\ Room /\ Accounts /\ Handed
    BY DEF EncoderInv
<1>C. /\ Len(Append(codec, Sent)) = Len(codec) + 1
      /\ Len(Tail(Append(codec, Sent))) = Len(codec)
      /\ codec = <<>> => Head(Append(codec, Sent)) = Sent
      /\ \A x: /\ Len(Append(file, x)) = Len(file) + 1 /\ Append(file, x)[Len(file) + 1] = x
              /\ \A k \in 1..Len(file): Append(file, x)[k] = file[k]
      /\ codec # <<>> => Len(codec) > 0 /\ Len(Tail(codec)) = Len(codec) - 1
    <2>1. codec \in Seq(P \cup {NoPicture}) /\ file \in Seq(P \cup {NoPicture})
        BY DEF EncoderTyped
    <2> QED
        BY <2>1, HoldAndWrite
<1>K. UNCHANGED <<encodes, gpuInput, codecDelay, inputFrameCount, takes, submitted, refused, submittedBuffer>>
    BY DEF EncodeLoop, AckEntries, PacketFails, TakeCommand, FetchPicture, FetchFails, SendAgain, SendPicture,
        EncodeFails, Flush, FlushFails, MarkTerminated, AckTermination
<1>F. (Tearing' <=> Tearing) /\ Filling' = Filling /\ Submitting' = Submitting
    BY <1>K DEF Tearing, Filling, Submitting
<1>G. encoding # "exit" /\ takes # "gone"
    BY <1>I DEF EncodeLoop, AckEntries, PacketFails, TakeCommand, FetchPicture, FetchFails, SendAgain, SendPicture,
        EncodeFails, Flush, FlushFails, MarkTerminated, AckTermination, Terminates
\* A thread that worked has the abort still to come.
<1>L. Working /\ Tearing => commands # <<>>
    BY <1>I DEF AbortIsLast
<1>1. ASSUME commands' = commands, Working' => Working PROVE AbortIsLast'
    BY <1>1, <1>I, <1>F DEF AbortIsLast
<1>2. ASSUME UNCHANGED <<acks, threadTerminated>>, encoding \notin {"tell", "exit"}, encoding' # "tell"
      PROVE  Terminates'
    BY <1>2, <1>I, <1>K, <1>G DEF Terminates
<1>3. ASSUME UNCHANGED <<missed, file, codec, videoFrame>> PROVE Handed'
    <2>1. \A k: Turn(k)' = Turn(k)
        BY <1>K, TurnStays
    <2> QED
        BY <2>1, <1>3, <1>I, <1>K DEF Handed, Entry, Kth
<1>4. CASE AckEntries \/ PacketFails
    <2>1. /\ encoding = "start" /\ Working /\ Encoding = 0 /\ encoding' \in {"pop", "exit"} /\ Encoding' = 0
          /\ (Working' <=> encoding' = "pop")
        BY <1>4 DEF AckEntries, PacketFails, Working, Encoding
    <2>2. acks' = [k \in 1..EntryCount - 1 |-> 0] /\ Len(acks') = EntryCount - 1
        BY <1>4 DEF AckEntries, PacketFails
    <2>3. /\ UNCHANGED <<commands, threadTerminated, encodeFrameCount, videoFrame, codec, file, missed>>
          /\ Pictured' = Pictured
        BY <1>4, <1>F DEF AckEntries, PacketFails, Pictured
    <2>4. AbortIsLast' /\ Handed'
        BY <1>1, <1>3, <2>1, <2>3
    <2>5. Terminates'
        BY <2>1, <2>2, <2>3, <1>I, <1>K, <1>G DEF Terminates
    <2>6. Room'
        <3>1. Filling = 0 /\ Pictured = 0
            BY <2>1, <1>I DEF Room
        <3>2. encoding' # "start" /\ (Working' => Len(acks') + Pictured' + Encoding' + Filling' <= EntryCount - 1)
            BY <3>1, <2>1, <2>2, <2>3, <1>F
        <3> QED
            BY <3>2 DEF Room
    <2>7. Accounts'
        BY <2>1, <2>3, <1>I, <1>K, <1>F, <1>L DEF Accounts
    <2> QED
        BY <2>4, <2>5, <2>6, <2>7 DEF EncoderInv
<1>5. CASE TakeCommand
    <2>1. /\ encoding = "pop" /\ Working /\ Encoding = 0 /\ commands # <<>> /\ commands' = Tail(commands)
          /\ UNCHANGED <<acks, threadTerminated, encodeFrameCount, videoFrame, codec, file, missed>>
        BY <1>5 DEF TakeCommand, Working, Encoding
    <2>2. /\ Head(commands) = commands[1] /\ Len(commands) \in Nat \ {0} /\ Len(commands') = Len(commands) - 1
          /\ \A k \in 1..Len(commands) - 1: commands'[k] = commands[k + 1]
        BY <2>1, <1>N, Shortened
    <2>3. Terminates'
        <3>1. encoding' # "tell"
            BY <1>5 DEF TakeCommand
        <3> QED
            BY <3>1, <2>1, <1>2
    <2>4. CASE commands[1] = "abort"
        <3>1. encoding' = "flush" /\ ~Working' /\ Encoding' = 0
            BY <1>5, <2>2, <2>4 DEF TakeCommand, Working, Encoding
        <3>2. Tearing /\ Len(commands) = 1 /\ Len(commands') = 0 /\ commands' = <<>>
            <4>1. 1 \in 1..Len(commands)
                BY <2>2
            <4>2. Tearing /\ 1 = Len(commands)
                BY <4>1, <2>4, <1>I DEF AbortIsLast
            <4>3. Len(commands') = 0
                BY <4>2, <2>2
            <4>4. commands' \in Seq({"encode", "abort"})
                BY DEF EncoderTyped
            <4> QED
                BY <4>2, <4>3, <4>4
        <3>3. AbortIsLast' /\ Handed' /\ Room'
            BY <3>1, <3>2, <2>1, <1>3, <1>F DEF AbortIsLast, Room
        <3>4. Accounts'
            <4>1. Submitting = 0 /\ Pictured = 0
                BY <3>2, <1>N DEF Submitting, Tearing
            <4>2. ~missed => Len(file) + Len(codec) = Len(submitted)
                <5> SUFFICES ASSUME ~missed PROVE Len(file) + Len(codec) = Len(submitted)
                    OBVIOUS
                <5>1. /\ inputFrameCount = Len(submitted) /\ Len(file) = encodeFrameCount
                      /\ inputFrameCount = encodeFrameCount + 0 + 0 + 0 + Len(codec)
                    BY <4>1, <2>1, <1>I DEF Accounts
                <5> QED
                    BY <5>1, <1>N
            <4> QED
                BY <4>2, <3>1, <3>2, <2>1, <1>I, <1>K, <1>F DEF Accounts
        <3> QED
            BY <2>3, <3>3, <3>4 DEF EncoderInv
    <2>5. CASE commands[1] # "abort"
        <3>1. encoding' \in {"fetch", "send"} /\ Working' /\ Encoding' = 1
            BY <1>5, <2>2, <2>5 DEF TakeCommand, Working, Encoding
        <3>2. Handed'
            BY <2>1, <1>3
        <3>3. AbortIsLast'
            <4>1. \A k \in 1..Len(commands'): commands'[k] = "abort" => Tearing' /\ k = Len(commands')
                <5> SUFFICES ASSUME NEW k \in 1..Len(commands'), commands'[k] = "abort"
                             PROVE  Tearing' /\ k = Len(commands')
                    OBVIOUS
                <5>1. k + 1 \in 1..Len(commands) /\ commands[k + 1] = "abort"
                    BY <2>2
                <5>2. Tearing /\ k + 1 = Len(commands)
                    BY <5>1, <1>I DEF AbortIsLast
                <5> QED
                    BY <5>2, <2>2, <1>F
            <4>2. Tearing => commands' # <<>> /\ commands'[Len(commands')] = "abort"
                <5> SUFFICES ASSUME Tearing PROVE commands' # <<>> /\ commands'[Len(commands')] = "abort"
                    OBVIOUS
                <5>1. commands[Len(commands)] = "abort"
                    BY <2>1, <1>I DEF AbortIsLast
                <5>2. Len(commands) # 1 /\ Len(commands') \in 1..Len(commands) - 1 /\ Len(commands') + 1 = Len(commands)
                    BY <5>1, <2>5, <2>2
                <5>3. commands'[Len(commands')] = "abort"
                    BY <5>1, <5>2, <2>2
                <5> QED
                    BY <5>2, <5>3
            <4> QED
                BY <4>1, <4>2, <1>F DEF AbortIsLast
        <3>4. Room'
            <4>1. Pictured' = Pictured - 1
                BY <2>2, <1>F, <1>N DEF Pictured
            <4>2. Len(acks) + (Pictured - 1) + 1 + Filling = Len(acks) + Pictured + 0 + Filling
                BY <1>N
            <4> QED
                BY <4>1, <4>2, <3>1, <2>1, <1>I, <1>F DEF Room
        <3>5. Accounts'
            <4>1. Pictured' = Pictured - 1
                BY <2>2, <1>F, <1>N DEF Pictured
            <4>2. encodeFrameCount + (Pictured - 1) + 1 + Submitting + Len(codec)
                      = encodeFrameCount + Pictured + 0 + Submitting + Len(codec)
                BY <1>N
            <4> QED
                BY <4>1, <4>2, <3>1, <2>1, <1>I, <1>K, <1>F DEF Accounts
        <3> QED
            BY <2>3, <3>2, <3>3, <3>4, <3>5 DEF EncoderInv
    <2> QED
        BY <2>4, <2>5
\* The thread fails, or has fetched the picture.
<1>6. CASE FetchPicture(memory)
    <2>1. /\ encoding = "fetch" /\ encoding' = "send" /\ Working /\ Working' /\ Encoding = 1 /\ Encoding' = 1
          /\ UNCHANGED <<commands, acks, threadTerminated, encodeFrameCount, codec, file, missed>>
        BY <1>6 DEF FetchPicture, Working, Encoding
    <2>2. Pictured' = Pictured
        BY <2>1, <1>F DEF Pictured
    <2>3. AbortIsLast' /\ Terminates'
        BY <2>1, <1>1, <1>2
    <2>4. Room' /\ Accounts'
        BY <2>1, <2>2, <1>I, <1>K, <1>F DEF Room, Accounts
    <2>5. Handed'
        BY <2>1, <1>K DEF Modes, Handed
    <2> QED
        BY <2>3, <2>4, <2>5 DEF EncoderInv
<1>7. CASE FetchFails(memory) \/ EncodeFails
    <2>1. /\ encoding \in {"fetch", "send"} /\ encoding' = "stop" /\ Working /\ ~Working'
          /\ UNCHANGED <<commands, acks, threadTerminated, encodeFrameCount, videoFrame, codec, file, missed>>
        BY <1>7 DEF FetchFails, EncodeFails, Working
    <2>2. AbortIsLast' /\ Terminates' /\ Handed'
        BY <2>1, <1>1, <1>2, <1>3
    <2>3. Room' /\ Accounts'
        BY <2>1, <1>I, <1>K, <1>F, <1>L DEF Room, Accounts
    <2> QED
        BY <2>2, <2>3 DEF EncoderInv
\* The codec takes the picture of its turn.
<1>H. ASSUME encoding = "send", ~missed
      PROVE  Len(file) + Len(codec) + 1 <= Len(submitted)
    BY <1>H, ItsTurn
<1>S. codec \in Seq(P \cup {NoPicture}) /\ file \in Seq(P \cup {NoPicture}) /\ Sent \in P \cup {NoPicture}
    <2>1. Entry(encodeFrameCount) \in Entries /\ 0 \in Entries
        <3>1. encodeFrameCount \in Int
            BY <1>N
        <3> QED
            BY <3>1, EntryType DEF Entries
    <2> QED
        BY <2>1 DEF EncoderTyped, Sent
<1>8. CASE SendAgain
    <2>1. /\ encoding = "send" /\ encoding' = "pop" /\ Working /\ Working' /\ Encoding = 1 /\ Encoding' = 0
          /\ Len(codec) < codecDelay /\ codec' = Append(codec, Sent) /\ acks' = Append(acks, 0)
          /\ UNCHANGED <<commands, threadTerminated, encodeFrameCount, videoFrame, file, missed>>
        BY <1>8 DEF SendAgain, Working, Encoding
    <2>2. Len(acks') = Len(acks) + 1 /\ acks'[Len(acks) + 1] = 0 /\ \A k \in 1..Len(acks): acks'[k] = acks[k]
        BY <2>1, <1>N, Appended
    <2>3. Len(codec') = Len(codec) + 1
        BY <2>1, <1>C
    <2>4. Pictured' = Pictured
        BY <2>1, <1>F DEF Pictured
    <2>5. AbortIsLast'
        BY <2>1, <1>1
    <2>6. Terminates'
        BY <2>1, <2>2, <1>I, <1>K, <1>G, <1>N DEF Terminates
    <2>7. Room'
        <3>1. Len(acks) + 1 + Pictured + 0 + Filling = Len(acks) + Pictured + 1 + Filling
            BY <1>N
        <3> QED
            BY <3>1, <2>1, <2>2, <2>4, <1>I, <1>F DEF Room
    <2>8. Accounts'
        <3> SUFFICES ASSUME ~missed PROVE Accounts'
            BY <2>1 DEF Accounts
        <3>1. encodeFrameCount + Pictured + 0 + Submitting + (Len(codec) + 1)
                  = encodeFrameCount + Pictured + 1 + Submitting + Len(codec)
            BY <1>N
        <3>2. encodeFrameCount = 0 /\ Len(codec) + 1 <= codecDelay
            BY <2>1, <1>I, <1>N DEF Accounts
        <3>3. Len(file) + (Len(codec) + 1) <= Len(submitted)
            BY <2>1, <1>H, <1>N
        <3>4. encoding' \notin {"flush", "stop", "tell", "exit"} /\ ~(encodeFrameCount' > 0)
            BY <3>2, <2>1
        <3> QED
            BY <3>1, <3>2, <3>3, <3>4, <2>1, <2>3, <2>4, <1>I, <1>K, <1>F DEF Accounts
    <2>9. Handed'
        <3> SUFFICES ASSUME ~gpuInput, ~missed PROVE Handed'
            BY <2>1, <1>K DEF Handed
        <3>1. Len(file') + Len(codec') = Len(file) + Len(codec) + 1
            BY <2>1, <2>3, <1>N
        <3>2. /\ \A k \in 1..Len(file) + Len(codec): Kth(file', codec', k) = Kth(file, codec, k)
              /\ Kth(file', codec', Len(file) + Len(codec) + 1) = Sent
            BY <2>1, <1>S, HandedOn
        <3> QED
            BY <3>1, <3>2, <2>1, <1>K, HandedNext
    <2> QED
        BY <2>5, <2>6, <2>7, <2>8, <2>9 DEF EncoderInv
<1>9. CASE SendPicture
    <2>1. /\ encoding = "send" /\ encoding' = "pop" /\ Working /\ Working' /\ Encoding = 1 /\ Encoding' = 0
          /\ Len(codec) >= codecDelay
          /\ codec' = Tail(Append(codec, Sent)) /\ file' = Append(file, Head(Append(codec, Sent)))
          /\ acks' = Append(acks, 0) /\ encodeFrameCount' = encodeFrameCount + 1
          /\ UNCHANGED <<commands, threadTerminated, videoFrame, missed>>
        BY <1>9 DEF SendPicture, Working, Encoding
    <2>2. Len(acks') = Len(acks) + 1 /\ acks'[Len(acks) + 1] = 0 /\ \A k \in 1..Len(acks): acks'[k] = acks[k]
        BY <2>1, <1>N, Appended
    <2>3. Len(codec') = Len(codec) /\ Len(file') = Len(file) + 1
        BY <2>1, <1>C
    <2>4. Pictured' = Pictured
        BY <2>1, <1>F DEF Pictured
    <2>5. AbortIsLast'
        BY <2>1, <1>1
    <2>6. Terminates'
        BY <2>1, <2>2, <1>I, <1>K, <1>G, <1>N DEF Terminates
    <2>7. Room'
        <3>1. Len(acks) + 1 + Pictured + 0 + Filling = Len(acks) + Pictured + 1 + Filling
            BY <1>N
        <3> QED
            BY <3>1, <2>1, <2>2, <2>4, <1>I, <1>F DEF Room
    <2>8. Accounts'
        <3> SUFFICES ASSUME ~missed PROVE Accounts'
            BY <2>1 DEF Accounts
        <3>1. (encodeFrameCount + 1) + Pictured + 0 + Submitting + Len(codec)
                  = encodeFrameCount + Pictured + 1 + Submitting + Len(codec)
            BY <1>N
        <3>2. Len(codec) = codecDelay
            BY <2>1, <1>I, <1>N DEF Accounts
        <3>3. (Len(file) + 1) + Len(codec) <= Len(submitted)
            BY <2>1, <1>H, <1>N
        <3>4. encoding' \notin {"flush", "stop", "tell", "exit"}
            BY <2>1
        <3> QED
            BY <3>1, <3>2, <3>3, <3>4, <2>1, <2>3, <2>4, <1>I, <1>K, <1>F, <1>N DEF Accounts
    <2>9. Handed'
        <3> SUFFICES ASSUME ~gpuInput, ~missed PROVE Handed'
            BY <2>1, <1>K DEF Handed
        <3>1. Len(file') + Len(codec') = Len(file) + Len(codec) + 1
            BY <2>3, <1>N
        <3>2. /\ \A k \in 1..Len(file) + Len(codec): Kth(file', codec', k) = Kth(file, codec, k)
              /\ Kth(file', codec', Len(file) + Len(codec) + 1) = Sent
            <4> DEFINE Q == P \cup {NoPicture}
                       x == Sent
            <4>1. codec \in Seq(Q) /\ file \in Seq(Q) /\ x \in Q
                BY <1>S
            <4>2. codec' = Tail(Append(codec, x)) /\ file' = Append(file, Head(Append(codec, x)))
                BY <2>1
            <4> HIDE DEF Q, x
            <4>3. /\ \A k \in 1..Len(file) + Len(codec): Kth(file', codec', k) = Kth(file, codec, k)
                  /\ Kth(file', codec', Len(file) + Len(codec) + 1) = x
                BY <4>1, <4>2, HandedThrough
            <4> QED
                BY <4>3 DEF x
        <3> QED
            BY <3>1, <3>2, <2>1, <1>K, HandedNext
    <2> QED
        BY <2>5, <2>6, <2>7, <2>8, <2>9 DEF EncoderInv
<1>10. CASE Flush
    <2>1. /\ encoding = "flush" /\ encoding' = "stop" /\ ~Working /\ ~Working'
          /\ UNCHANGED <<commands, acks, threadTerminated, encodeFrameCount, videoFrame, missed>>
        BY <1>10 DEF Flush, Working
    <2>2. AbortIsLast' /\ Terminates'
        BY <2>1, <1>1, <1>2
    <2>3. Room'
        BY <2>1 DEF Room
    <2>4. CASE codec = <<>>
        <3>1. UNCHANGED <<codec, file>> /\ Len(codec) = 0
            BY <1>10, <2>4 DEF Flush
        <3>2. Handed'
            BY <2>1, <3>1, <1>3
        <3>3. Accounts'
            <4>1. ~missed => Len(submitted) - Len(file) <= (IF codecDelay <= 1 THEN 0 ELSE codecDelay - 1)
                BY <3>1, <2>1, <1>I, <1>N DEF Accounts
            <4> QED
                BY <4>1, <3>1, <2>1, <1>I, <1>K, <1>F DEF Accounts
        <3> QED
            BY <2>2, <2>3, <3>2, <3>3 DEF EncoderInv
    <2>5. CASE codec # <<>>
        <3>0. file' = Append(file, Head(codec)) /\ codec' = Tail(codec)
            BY <1>10, <2>5 DEF Flush
        <3>1. /\ file' = Append(file, Head(codec)) /\ codec' = Tail(codec)
              /\ Len(codec) > 0 /\ Len(codec') = Len(codec) - 1 /\ Len(file') = Len(file) + 1
            BY <3>0, <2>5, <1>C
        <3> DEFINE f == Len(file)
                   c == Len(codec)
                   l == Len(submitted)
        <3>N. f \in Nat /\ c \in Nat /\ l \in Nat /\ codecDelay \in Nat /\ c > 0 /\ Len(codec') = c - 1 /\ Len(file') = f + 1
            BY <3>1, <1>N
        <3>2. Handed'
            <4>1. Len(file') + Len(codec') = Len(file) + Len(codec)
                <5>1. (f + 1) + (c - 1) = f + c
                    <6> HIDE DEF f, c
                    <6> QED
                        BY <3>N
                <5> QED
                    BY <5>1, <3>N
            <4>2. \A k \in 1..Len(file) + Len(codec): Kth(file', codec', k) = Kth(file, codec, k)
                BY <3>1, <2>5, <1>S, HandedOn
            <4>3. \A k: Turn(k)' = Turn(k)
                BY <1>K, TurnStays
            <4> QED
                BY <4>1, <4>2, <4>3, <2>1, <1>I, <1>K DEF Handed, Entry, Kth
        <3>3. Accounts'
            <4> SUFFICES ASSUME ~missed PROVE Accounts'
                BY <2>1 DEF Accounts
            <4>1. Len(codec) <= codecDelay /\ Len(file) + Len(codec) = Len(submitted) /\ inputFrameCount = Len(submitted)
                BY <2>1, <1>I DEF Accounts
            <4>2. /\ Len(codec') <= codecDelay /\ Len(file') + Len(codec') <= Len(submitted)
                  /\ Len(submitted) - Len(file') <= (IF codecDelay <= 1 THEN 0 ELSE codecDelay - 1)
                <5>1. c <= codecDelay /\ f + c = l
                    BY <4>1
                <5>2. c - 1 <= codecDelay /\ (f + 1) + (c - 1) <= l /\ l - (f + 1) <= (IF codecDelay <= 1 THEN 0 ELSE codecDelay - 1)
                    <6> HIDE DEF f, c, l
                    <6> QED
                        BY <5>1, <3>N
                <5> QED
                    BY <5>2, <3>N
            <4> QED
                BY <4>1, <4>2, <2>1, <1>K DEF Accounts
        <3> QED
            BY <2>2, <2>3, <3>2, <3>3 DEF EncoderInv
    <2> QED
        BY <2>4, <2>5
<1>11. CASE FlushFails
    <2>1. /\ encoding = "flush" /\ encoding' = "stop" /\ ~Working /\ ~Working' /\ missed'
          /\ UNCHANGED <<commands, acks, threadTerminated>>
        BY <1>11 DEF FlushFails, Working
    <2>2. AbortIsLast' /\ Terminates'
        BY <2>1, <1>1, <1>2
    <2>3. Room' /\ Accounts' /\ Handed'
        BY <2>1 DEF Room, Accounts, Handed
    <2> QED
        BY <2>2, <2>3 DEF EncoderInv
<1>12. CASE MarkTerminated \/ AckTermination
    <2>1. /\ encoding \in {"stop", "tell"} /\ encoding' \in {"tell", "exit"} /\ ~Working /\ ~Working'
          /\ threadTerminated' /\ (acks' = acks \/ acks' = Append(acks, -1))
          /\ UNCHANGED <<commands, encodeFrameCount, videoFrame, codec, file, missed>>
        BY <1>12, <1>I DEF MarkTerminated, AckTermination, Working, Terminates
    <2>2. AbortIsLast' /\ Handed'
        BY <2>1, <1>1, <1>3
    <2>3. Terminates'
        BY <2>1, <1>G, <1>K DEF Terminates
    <2>4. Room' /\ Accounts'
        BY <2>1, <1>I, <1>K, <1>F DEF Room, Accounts
    <2> QED
        BY <2>2, <2>3, <2>4 DEF EncoderInv
<1> QED
    BY <1>4, <1>5, <1>6, <1>7, <1>8, <1>9, <1>10, <1>11, <1>12 DEF EncodeLoop

\* A step of the node's callbacks.
EncoderCall(picture, buf) == EncoderNode(picture, buf) \/ EncodeFrame \/ Accepted \/ EncoderClose

LEMMA EncoderCallStep ==
    ASSUME NEW P, NEW B, EncoderTyped(P, B), EncoderTyped(P, B)', EncoderInv, Modes,
           NEW picture, NEW buf, EncoderCall(picture, buf)
    PROVE  EncoderInv'
<1> USE DEF encoderArguments, pool, link, encoderHistory
<1>N. /\ inputFrameCount \in Nat /\ encodeFrameCount \in Nat /\ codecDelay \in Nat
      /\ acks \in Seq({0, -1}) /\ commands \in Seq({"encode", "abort"})
      /\ Len(acks) \in Nat /\ Len(commands) \in Nat /\ Len(codec) \in Nat /\ Len(file) \in Nat
      /\ Len(submitted) \in Nat
      /\ Filling \in 0..1 /\ Submitting \in 0..1 /\ Encoding \in 0..1 /\ Pictured \in Int
      /\ (~Tearing => Pictured = Len(commands)) /\ (Tearing => Pictured = Len(commands) - 1)
    BY EncoderNumbers
<1>I. AbortIsLast /\ Terminates /\ Room /\ Accounts /\ Handed
    BY DEF EncoderInv
<1>K. UNCHANGED <<encodes, gpuInput, codecDelay, encoding, threadTerminated, encodeFrameCount, codec, file>>
    BY DEF EncoderCall, EncoderNode, TakeEntry, ConvertPicture, ConvertFails, UpdateBuffer, UpdateFails, Submit, SubmitFails,
        DrainAcks, TakeLastAck, JoinEncoder, EncodeFrame, Accepted, EncoderClose
<1>F. (Working' <=> Working) /\ Encoding' = Encoding
    BY <1>K DEF Working, Encoding
<1>3. ASSUME UNCHANGED <<videoFrame, submitted, missed>> PROVE Handed'
    <2>1. \A k: Turn(k)' = Turn(k)
        BY <1>3, <1>K, TurnStays
    <2> QED
        BY <2>1, <1>3, <1>I, <1>K DEF Handed, Entry, Kth
\* Nothing that is counted changes.
<1>1. ASSUME UNCHANGED <<commands, inputFrameCount, videoFrame, submitted, missed>>,
             Tearing' <=> Tearing, Submitting' = Submitting
      PROVE  AbortIsLast' /\ Accounts' /\ Handed'
    <2>1. Pictured' = Pictured
        BY <1>1 DEF Pictured
    <2>2. AbortIsLast'
        BY <1>1, <1>I, <1>F DEF AbortIsLast
    <2>3. Accounts'
        BY <1>1, <2>1, <1>I, <1>F, <1>K DEF Accounts
    <2>4. Handed'
        BY <1>1, <1>3
    <2> QED
        BY <2>2, <2>3, <2>4
<1>2. ASSUME UNCHANGED <<acks, refused>>, takes' # "gone" PROVE Terminates'
    BY <1>2, <1>I, <1>K DEF Terminates
<1>4. CASE EncodeFrame \/ Accepted
    <2>1. /\ takes \in {"idle", "out"} /\ takes' \in {"idle", "wait"}
          /\ UNCHANGED <<commands, acks, inputFrameCount, videoFrame, submitted, refused, missed>>
        BY <1>4 DEF EncodeFrame, Accepted
    <2>2. ~Tearing /\ ~Tearing' /\ Filling = 0 /\ Filling' = 0 /\ Submitting = 0 /\ Submitting' = 0
        BY <2>1 DEF Tearing, Filling, Submitting
    <2>3. Room'
        BY <2>1, <2>2, <1>I, <1>K, <1>F DEF Room, Pictured
    <2> QED
        BY <2>1, <2>2, <2>3, <1>1, <1>2 DEF EncoderInv
<1>5. CASE TakeEntry \/ TakeLastAck
    <2>1. /\ takes \in {"wait", "take"} /\ acks # <<>> /\ acks' = Tail(acks)
          /\ UNCHANGED <<commands, inputFrameCount, videoFrame, submitted, missed>>
        BY <1>5 DEF TakeEntry, TakeLastAck
    <2>2. /\ (takes = "wait" => takes' \in {"idle", "update", "convert"})
          /\ (takes = "take" => takes' \in {"join", "drain"})
        BY <1>5 DEF TakeEntry, TakeLastAck
    <2>3. (Tearing' <=> Tearing) /\ Filling = 0 /\ Filling' \in 0..1 /\ Submitting = 0 /\ Submitting' = 0
        BY <2>1, <2>2 DEF Tearing, Filling, Submitting
    <2>4. /\ Len(acks') = Len(acks) - 1 /\ Head(acks) = acks[1] /\ Len(acks) \in Nat \ {0} /\ acks[1] \in {0, -1}
          /\ \A k \in 1..Len(acks) - 1: acks'[k] = acks[k + 1]
        BY <2>1, <1>N, Shortened
    <2>5. encoding # "start"
        BY <2>1, <1>I DEF Room
    <2>6. Terminates'
        <3>1. \A k \in 1..Len(acks'): acks'[k] = -1 => threadTerminated
            <4> SUFFICES ASSUME NEW k \in 1..Len(acks'), acks'[k] = -1 PROVE threadTerminated
                OBVIOUS
            <4>1. k + 1 \in 1..Len(acks) /\ acks[k + 1] = -1
                BY <2>4
            <4> QED
                BY <4>1, <1>I DEF Terminates
        <3>2. refused' => threadTerminated
            <4>1. CASE TakeLastAck
                BY <4>1, <1>I DEF TakeLastAck, Terminates
            <4>2. CASE TakeEntry
                <5>1. refused' => (refused \/ Head(acks) < 0 \/ threadTerminated)
                    BY <4>2 DEF TakeEntry
                <5>2. Head(acks) < 0 => threadTerminated
                    <6>1. 1 \in 1..Len(acks)
                        BY <2>4
                    <6>2. acks[1] < 0 => acks[1] = -1
                        BY <2>4
                    <6> QED
                        BY <6>1, <6>2, <2>4, <1>I DEF Terminates
                <5> QED
                    BY <5>1, <5>2, <1>I DEF Terminates
            <4> QED
                BY <1>5, <4>1, <4>2
        <3>3. takes' # "gone"
            BY <2>1, <2>2
        <3> QED
            BY <3>1, <3>2, <3>3, <1>I, <1>K DEF Terminates
    <2>7. Room'
        <3> DEFINE a == Len(acks)
                   p == Pictured
                   e == Encoding
                   f == Filling'
        <3>1. a \in Nat \ {0} /\ p \in Int /\ e \in 0..1 /\ f \in 0..1 /\ Len(acks') = a - 1 /\ Pictured' = p
            BY <2>1, <2>3, <2>4, <1>N DEF Pictured
        <3>2. Working => a + p + e + 0 <= EntryCount - 1
            BY <2>3, <1>I DEF Room
        <3>3. Working => (a - 1) + p + e + f <= EntryCount - 1
            <4> HIDE DEF a, p, e, f
            <4> QED
                BY <3>1, <3>2
        <3> QED
            BY <3>1, <3>3, <2>5, <1>K, <1>F DEF Room
    <2> QED
        BY <2>1, <2>3, <2>6, <2>7, <1>1 DEF EncoderInv
\* The next entry is filled: its number is counted, whatever it holds.
<1>6. CASE ConvertPicture(picture) \/ UpdateBuffer(picture, buf)
    <2>1. /\ takes \in {"convert", "update"} /\ takes' = "submit"
          /\ inputFrameCount' = inputFrameCount + 1 /\ submitted' = Append(submitted, picture)
          /\ UNCHANGED <<commands, acks, refused, missed>>
        BY <1>6 DEF ConvertPicture, UpdateBuffer
    <2>2. ~Tearing /\ ~Tearing' /\ Filling = 1 /\ Filling' = 1 /\ Submitting = 0 /\ Submitting' = 1
        BY <2>1 DEF Tearing, Filling, Submitting
    <2>3. /\ Len(submitted') = Len(submitted) + 1 /\ submitted'[Len(submitted) + 1] = picture
          /\ \A k \in 1..Len(submitted): submitted'[k] = submitted[k]
        <3>1. submitted \in Seq(P)
            BY DEF EncoderTyped
        <3> QED
            BY <2>1, <3>1, JoinOne
    <2>4. AbortIsLast'
        BY <2>1, <2>2, <1>I, <1>F DEF AbortIsLast
    <2>5. Terminates'
        BY <2>1, <1>2
    <2>6. Room'
        BY <2>1, <2>2, <1>I, <1>K, <1>F DEF Room, Pictured
    <2>7. Accounts'
        <3>1. Pictured = Len(commands) /\ Pictured' = Len(commands)
            <4>1. Pictured = Len(commands)
                BY <2>2, <1>N
            <4>2. Pictured' = Pictured
                BY <2>1, <2>2 DEF Pictured
            <4> QED
                BY <4>1, <4>2
        <3>2. (encodeFrameCount + Pictured + Encoding + 0 + Len(codec)) + 1
                  = encodeFrameCount + Pictured + Encoding + 1 + Len(codec)
            BY <1>N
        <3> QED
            BY <3>1, <3>2, <2>1, <2>2, <2>3, <1>I, <1>K, <1>F DEF Accounts
    <2>8. Handed'
        <3> SUFFICES ASSUME ~gpuInput, ~missed PROVE Handed'
            BY <2>1, <1>K DEF Handed
        <3>1. inputFrameCount = Len(submitted)
            BY <1>I DEF Accounts
        <3>2. videoFrame' = [videoFrame EXCEPT ![Entry(inputFrameCount)] = picture]
            BY <1>6 DEF ConvertPicture, UpdateBuffer, Modes
        <3>3. videoFrame \in [Entries -> P \cup {NoPicture}] /\ submitted \in Seq(P)
            BY DEF EncoderTyped
        <3>4. ASSUME NEW j \in 1..Len(submitted'), j > Len(submitted') - EntryCount
              PROVE  videoFrame'[Entry(j - 1)] = submitted'[j]
            <4>1. j - 1 \in Int /\ inputFrameCount \in Int /\ EntryCount \in Nat \ {0} /\ EntryCount \in Int
                BY <1>N
            <4>2. Entry(j - 1) \in Entries /\ Entry(inputFrameCount) \in Entries
                BY <4>1, EntryType
            <4>3. CASE j = Len(submitted) + 1
                <5>1. j - 1 = inputFrameCount
                    BY <4>3, <3>1, <1>N
                <5> QED
                    BY <5>1, <4>2, <4>3, <3>2, <3>3, <2>3
            <4>4. CASE j # Len(submitted) + 1
                <5>1. /\ j \in 1..Len(submitted) /\ j > Len(submitted) - EntryCount
                      /\ j - 1 < inputFrameCount /\ inputFrameCount < (j - 1) + EntryCount
                    <6> DEFINE l == Len(submitted)
                    <6>1. l \in Nat /\ j \in 1..l + 1 /\ j > l + 1 - EntryCount /\ j # l + 1 /\ inputFrameCount = l
                        BY <4>4, <3>1, <3>4, <2>3, <1>N
                    <6> HIDE DEF l
                    <6>2. j \in 1..l /\ j > l - EntryCount /\ j - 1 < l /\ l < (j - 1) + EntryCount
                        BY <6>1, <4>1
                    <6> QED
                        BY <6>1, <6>2 DEF l
                <5>2. Entry(j - 1) # Entry(inputFrameCount)
                    BY <5>1, <4>1, SlotsDiffer DEF Entry
                <5>3. videoFrame'[Entry(j - 1)] = videoFrame[Entry(j - 1)]
                    BY <5>2, <4>2, <3>2, <3>3
                <5> QED
                    BY <5>1, <5>3, <2>3, <1>I DEF Handed
            <4> QED
                BY <4>3, <4>4
        <3>5. ASSUME NEW k \in 1..Len(file) + Len(codec)
              PROVE  \E j \in Turn(k)': Kth(file, codec, k) = submitted'[j]
            <4>1. PICK j \in Turn(k): Kth(file, codec, k) = submitted[j]
                BY <1>I DEF Handed
            <4>2. j \in Turn(k)' /\ submitted'[j] = submitted[j]
                BY <2>1, <3>3, <1>K, TurnGrows
            <4> QED
                BY <4>1, <4>2
        <3> QED
            BY <3>4, <3>5, <1>K DEF Handed, Entry, Kth
    <2> QED
        BY <2>4, <2>5, <2>6, <2>7, <2>8 DEF EncoderInv
<1>7. CASE ConvertFails \/ UpdateFails
    <2>1. /\ takes \in {"convert", "update"} /\ takes' \in {"idle", "submit"} /\ missed'
          /\ UNCHANGED <<commands, acks, refused>>
        BY <1>7 DEF ConvertFails, UpdateFails
    <2>2. ~Tearing /\ ~Tearing' /\ Filling = 1 /\ Filling' \in 0..1
        BY <2>1 DEF Tearing, Filling
    <2>3. AbortIsLast' /\ Accounts' /\ Handed'
        BY <2>1, <2>2, <1>I, <1>F DEF AbortIsLast, Accounts, Handed
    <2>4. Terminates'
        BY <2>1, <1>2
    <2>5. Room'
        <3> DEFINE a == Len(acks)
                   p == Pictured
                   e == Encoding
                   f == Filling'
        <3>0. Pictured' = p
            BY <2>1, <2>2 DEF Pictured
        <3>1. a \in Nat /\ p \in Int /\ e \in 0..1 /\ f \in 0..1 /\ Pictured' = p
            BY <3>0, <2>2, <1>N
        <3>2. Working => a + p + e + 1 <= EntryCount - 1
            BY <2>2, <1>I DEF Room
        <3>3. Working => a + p + e + f <= EntryCount - 1
            <4> HIDE DEF a, p, e, f
            <4> QED
                BY <3>1, <3>2
        <3>4. encoding # "start"
            BY <2>2, <1>I DEF Room
        <3> QED
            BY <3>1, <3>3, <3>4, <2>1, <1>K, <1>F DEF Room
    <2> QED
        BY <2>3, <2>4, <2>5 DEF EncoderInv
<1>8. CASE Submit \/ SubmitFails
    <2>1. /\ takes = "submit" /\ takes' \in {"out", "idle"} /\ commands' = Append(commands, "encode")
          /\ UNCHANGED <<acks, inputFrameCount, videoFrame, submitted, refused, missed>>
        BY <1>8 DEF Submit, SubmitFails
    <2>2. ~Tearing /\ ~Tearing' /\ Filling = 1 /\ Filling' = 0 /\ Submitting = 1 /\ Submitting' = 0
        BY <2>1 DEF Tearing, Filling, Submitting
    <2>3. /\ Len(commands') = Len(commands) + 1 /\ commands'[Len(commands) + 1] = "encode"
          /\ \A k \in 1..Len(commands): commands'[k] = commands[k]
        BY <2>1, <1>N, Appended
    <2>4. AbortIsLast'
        BY <2>2, <2>3, <1>I, <1>N DEF AbortIsLast
    <2>5. Terminates' /\ Handed'
        BY <2>1, <1>2, <1>3
    <2>6. Room'
        <3>0. Pictured' = Pictured + 1
            <4>1. Len(commands) \in Nat /\ Len(commands') = Len(commands) + 1
                BY <2>3, <1>N
            <4>2. Pictured = Len(commands) - 0 /\ Pictured' = Len(commands') - 0
                BY <2>2 DEF Pictured
            <4> QED
                BY <4>1, <4>2
        <3>1. Len(acks) + (Pictured + 1) + Encoding + 0 = Len(acks) + Pictured + Encoding + 1
            BY <1>N
        <3>2. encoding # "start"
            BY <2>2, <1>I DEF Room
        <3> QED
            BY <3>0, <3>1, <3>2, <2>1, <2>2, <2>3, <1>I, <1>K, <1>F DEF Room
    <2>7. Accounts'
        <3>1. Pictured = Len(commands) /\ Pictured' = Len(commands) + 1
            <4>1. Len(commands) \in Nat /\ Len(commands') = Len(commands) + 1
                BY <2>3, <1>N
            <4>2. Pictured = Len(commands) - 0 /\ Pictured' = Len(commands') - 0
                BY <2>2 DEF Pictured
            <4> QED
                BY <4>1, <4>2
        <3>2. encodeFrameCount + (Len(commands) + 1) + Encoding + 0 + Len(codec)
                  = encodeFrameCount + Len(commands) + Encoding + 1 + Len(codec)
            BY <1>N
        <3>3. encoding # "flush" \/ missed
            BY <2>2, <1>I DEF Accounts
        <3> QED
            BY <3>1, <3>2, <3>3, <2>1, <2>2, <1>I, <1>K, <1>F DEF Accounts
    <2> QED
        BY <2>4, <2>5, <2>6, <2>7 DEF EncoderInv
<1>9. CASE EncoderClose
    <2>1. /\ takes = "idle" /\ takes' = "drain" /\ commands' = Append(commands, "abort")
          /\ UNCHANGED <<acks, inputFrameCount, videoFrame, submitted, refused, missed>>
        BY <1>9 DEF EncoderClose
    <2>2. ~Tearing /\ Tearing' /\ Filling = 0 /\ Filling' = 0 /\ Submitting = 0 /\ Submitting' = 0
        BY <2>1 DEF Tearing, Filling, Submitting
    <2>3. /\ Len(commands') = Len(commands) + 1 /\ commands'[Len(commands) + 1] = "abort"
          /\ \A k \in 1..Len(commands): commands'[k] = commands[k]
        BY <2>1, <1>N, Appended
    <2>4. AbortIsLast'
        BY <2>2, <2>3, <1>I, <1>N DEF AbortIsLast
    <2>5. Terminates' /\ Handed'
        BY <2>1, <1>2, <1>3
    <2>0. Pictured' = Pictured /\ commands' # <<>>
        <3>1. Len(commands) \in Nat /\ Len(commands') = Len(commands) + 1
            BY <2>3, <1>N
        <3>2. Pictured = Len(commands) - 0 /\ Pictured' = Len(commands') - 1
            BY <2>2 DEF Pictured
        <3>3. Len(commands') # 0
            BY <3>1
        <3> QED
            BY <3>1, <3>2, <3>3
    <2>6. Room'
        BY <2>0, <2>1, <2>2, <1>I, <1>K, <1>F DEF Room
    <2>7. Accounts'
        <3>1. Pictured' = Pictured /\ commands' # <<>>
            BY <2>0
        <3>2. encoding # "flush" \/ missed
            BY <2>2, <1>I DEF Accounts
        <3> QED
            BY <3>1, <3>2, <2>1, <2>2, <1>I, <1>K, <1>F DEF Accounts
    <2> QED
        BY <2>4, <2>5, <2>6, <2>7 DEF EncoderInv
<1>10. CASE DrainAcks \/ JoinEncoder
    <2>1. /\ takes \in {"drain", "join"} /\ takes' \in {"take", "join", "gone"}
          /\ UNCHANGED <<commands, acks, inputFrameCount, videoFrame, submitted, refused, missed>>
          /\ (takes' = "gone" => encoding = "exit")
        BY <1>10 DEF DrainAcks, JoinEncoder
    <2>2. Tearing /\ Tearing' /\ Filling = 0 /\ Filling' = 0 /\ Submitting = 0 /\ Submitting' = 0
        BY <2>1 DEF Tearing, Filling, Submitting
    <2>3. Terminates'
        BY <2>1, <1>I, <1>K DEF Terminates
    <2>4. Room'
        BY <2>1, <2>2, <1>I, <1>K, <1>F DEF Room, Pictured
    <2> QED
        BY <2>1, <2>2, <2>3, <2>4, <1>1 DEF EncoderInv
<1> QED
    BY <1>4, <1>5, <1>6, <1>7, <1>8, <1>9, <1>10 DEF EncoderCall, EncoderNode

------------------------------------------------------------------------------
(***************************************************************************)
(* What follows for the encoder, whatever the images show.                 *)
(***************************************************************************)
EncoderAll(P, B) == EncoderTyped(P, B) /\ Modes /\ EncoderInv

LEMMA EncoderAllInit == ASSUME NEW P, NEW B PROVE EncoderInit => EncoderAll(P, B)
<1>1. EncoderInit => Modes
    BY DEF EncoderInit, Modes
<1> QED
    BY <1>1, EncoderTypeInit, EncoderInvInit DEF EncoderAll

LEMMA EncoderAllStep ==
    ASSUME NEW P, NEW B, EncoderAll(P, B), EncoderStep(P, B) \/ UNCHANGED encoderVars
    PROVE  EncoderAll(P, B)'
<1> USE DEF encoderArguments, pool, link, encoderHistory
<1>1. CASE EncoderStep(P, B)
    <2>1. EncoderTyped(P, B) /\ EncoderTyped(P, B)' /\ Modes /\ EncoderInv
        BY <1>1, EncoderTypeStep DEF EncoderAll
    <2>2. ASSUME NEW memory, EncodeLoop(memory) PROVE Modes' /\ EncoderInv'
        <3>1. Modes'
            BY <2>1, <2>2 DEF Modes, EncodeLoop, AckEntries, PacketFails, TakeCommand, FetchPicture, FetchFails, SendAgain,
                SendPicture, EncodeFails, Flush, FlushFails, MarkTerminated, AckTermination
        <3> QED
            BY <2>1, <2>2, <3>1, EncodeLoopStep
    <2>3. ASSUME NEW picture, NEW buf, EncoderCall(picture, buf) PROVE Modes' /\ EncoderInv'
        <3>1. Modes'
            BY <2>1, <2>3 DEF Modes, EncoderCall, EncoderNode, TakeEntry, ConvertPicture, ConvertFails, UpdateBuffer, UpdateFails,
                Submit, SubmitFails, DrainAcks, TakeLastAck, JoinEncoder, EncodeFrame, Accepted, EncoderClose
        <3> QED
            BY <2>1, <2>3, <3>1, EncoderCallStep
    <2>4. CASE EncodeFrame \/ Accepted \/ EncoderClose
        <3>1. \A picture, buf: EncoderCall(picture, buf)
            BY <2>4 DEF EncoderCall
        <3> QED
            BY <2>1, <2>3, <3>1 DEF EncoderAll
    <2> QED
        BY <1>1, <2>1, <2>2, <2>3, <2>4 DEF EncoderStep, EncoderCall, EncoderAll
<1>2. CASE UNCHANGED encoderVars
    <2>1. EncoderTyped(P, B)' /\ Modes'
        BY <1>2 DEF encoderVars, EncoderAll, EncoderTyped, Modes
    <2>2. AbortIsLast' /\ Terminates'
        BY <1>2 DEF encoderVars, EncoderAll, EncoderInv, AbortIsLast, Terminates, Working, Tearing
    <2>3. Room' /\ Accounts'
        BY <1>2 DEF encoderVars, EncoderAll, EncoderInv, Room, Accounts, Working, Tearing, Filling, Submitting, Encoding, Pictured
    <2>4. Handed'
        <3>1. \A k: Turn(k)' = Turn(k)
            BY <1>2, TurnStays DEF encoderVars
        <3> QED
            BY <3>1, <1>2 DEF encoderVars, EncoderAll, EncoderInv, Handed, Entry, Kth
    <2> QED
        BY <2>1, <2>2, <2>3, <2>4 DEF EncoderAll, EncoderInv
<1> QED
    BY <1>1, <1>2

LEMMA NextEntryIsFree == ASSUME NEW P, NEW B, EncoderAll(P, B) PROVE EntryIsFree
<1> SUFFICES ASSUME ~missed, codecDelay <= 1, takes = "convert", encoding = "send"
             PROVE  Entry(inputFrameCount) # Entry(encodeFrameCount)
    BY DEF EntryIsFree
<1>1. /\ inputFrameCount \in Nat /\ encodeFrameCount \in Nat /\ codecDelay \in Nat
      /\ Len(acks) \in Nat /\ Len(commands) \in Nat /\ Len(codec) \in Nat
    BY EncoderNumbers DEF EncoderAll
<1>2. /\ Working /\ ~Tearing /\ Filling = 1 /\ Submitting = 0 /\ Encoding = 1
    BY DEF Working, Tearing, Filling, Submitting, Encoding
<1>3. Pictured = Len(commands)
    BY <1>2, EncoderNumbers DEF EncoderAll
<1>4. Len(acks) + Len(commands) + 1 + 1 <= EntryCount - 1
    BY <1>2, <1>3 DEF EncoderAll, EncoderInv, Room
<1>5. Len(codec) <= codecDelay /\ inputFrameCount = encodeFrameCount + Len(commands) + 1 + 0 + Len(codec)
    BY <1>2, <1>3 DEF EncoderAll, EncoderInv, Accounts
<1>6. /\ EntryCount \in Nat \ {0} /\ inputFrameCount \in Int /\ encodeFrameCount \in Int
      /\ encodeFrameCount < inputFrameCount /\ inputFrameCount < encodeFrameCount + EntryCount
    BY <1>1, <1>4, <1>5
<1> QED
    BY <1>6, SlotsDiffer DEF Entry

LEMMA WrittenInOrder == ASSUME NEW P, NEW B, EncoderAll(P, B) PROVE FileInOrder
<1> SUFFICES ASSUME ~gpuInput, ~missed
             PROVE  /\ Len(file) <= Len(submitted)
                    /\ \A k \in 1..Len(file): \E j \in Turn(k): file[k] = submitted[j]
    BY DEF FileInOrder
<1>1. Len(file) \in Nat /\ Len(codec) \in Nat /\ Len(submitted) \in Nat
    BY EncoderNumbers DEF EncoderAll
<1>2. Len(file) + Len(codec) <= Len(submitted)
    BY DEF EncoderAll, EncoderInv, Accounts
<1>3. ASSUME NEW k \in 1..Len(file) PROVE \E j \in Turn(k): file[k] = submitted[j]
    <2>1. k \in 1..Len(file) + Len(codec) /\ k <= Len(file)
        BY <1>1
    <2>2. \E j \in Turn(k): Kth(file, codec, k) = submitted[j]
        BY <2>1 DEF EncoderAll, EncoderInv, Handed
    <2> QED
        BY <2>1, <2>2 DEF Kth
<1> QED
    BY <1>1, <1>2, <1>3

LEMMA AllAreWritten == ASSUME NEW P, NEW B, EncoderAll(P, B) PROVE DelayedAreWritten
<1> SUFFICES ASSUME takes = "gone", commands = <<>>, ~missed
             PROVE  /\ Len(file) <= Len(submitted)
                    /\ Len(submitted) - Len(file) <= (IF codecDelay <= 1 THEN 0 ELSE codecDelay - 1)
    BY DEF DelayedAreWritten
<1>1. Len(file) \in Nat /\ Len(codec) \in Nat /\ Len(submitted) \in Nat
    BY EncoderNumbers DEF EncoderAll
<1>2. /\ Len(file) + Len(codec) <= Len(submitted)
      /\ Len(submitted) - Len(file) <= (IF codecDelay <= 1 THEN 0 ELSE codecDelay - 1)
    BY DEF EncoderAll, EncoderInv, Terminates, Accounts, Tearing
<1> QED
    BY <1>1, <1>2

\* The encoder alone, with an input image that shows anything at any time, keeps
\* its types.  As long as no picture was lost half way (a failing conversion, query
\* or flush): with a codec that holds back one picture at most ProcessFrame never
\* fills the entry in the codec's hands; with any codec, in host mode, the k-th
\* picture of the file is one of the thread's k-th turn; and with any codec an
\* encoder that was taken down lacks the pictures the codec held, but for one.
THEOREM EncoderAlone == EncoderSpec => [](EncoderTypeOK /\ EntryIsFree /\ FileInOrder /\ DelayedAreWritten)
<1>1. EncoderInit => EncoderAll(Pictures, GPUBuffers)
    BY EncoderAllInit
<1>2. EncoderAll(Pictures, GPUBuffers) /\ [EncoderNext]_encoderVars => EncoderAll(Pictures, GPUBuffers)'
    <2>1. EncoderNext => EncoderStep(Pictures, GPUBuffers)
        BY DEF EncoderNext, EncoderStep
    <2> QED
        BY <2>1, EncoderAllStep
<1>3. EncoderAll(Pictures, GPUBuffers) => EncoderTypeOK /\ EntryIsFree /\ FileInOrder /\ DelayedAreWritten
    <2> SUFFICES ASSUME EncoderAll(Pictures, GPUBuffers)
                 PROVE  EncoderTypeOK /\ EntryIsFree /\ FileInOrder /\ DelayedAreWritten
        OBVIOUS
    <2>1. EncoderTypeOK
        BY DEF EncoderAll, EncoderTyped, EncoderTypeOK, Stops, Calls
    <2> QED
        BY <2>1, NextEntryIsFree, WrittenInOrder, AllAreWritten
<1> QED
    BY <1>1, <1>2, <1>3, PTL DEF EncoderSpec

------------------------------------------------------------------------------
(***************************************************************************)
(* The graph.  It is a decoder, if it has one, and an encoder.             *)
(***************************************************************************)
Images == [Streams -> Nat \cup {NoFrame}]

LEMMA MediaCountStays == ASSUME [Next]_vars PROVE mediaCount' = mediaCount
<1> USE DEF arguments
<1>1. ASSUME NEW i, DecodeLoop(i) PROVE mediaCount' = mediaCount
    BY <1>1 DEF DecodeLoop, PopCommand, ReadPacket, SeekStart, ReadEnds, SendFails, ReceiveAgain,
        ReceiveFrame, ReceiveFails, StoreFrame, StoreFails, AckFrame, ReadEof, MarkEof, AckEnd
<1>2. ASSUME NodeStep PROVE mediaCount' = mediaCount
    BY <1>2, NodeFrame
<1>3. ASSUME UNCHANGED decoderVars PROVE mediaCount' = mediaCount
    BY <1>3 DEF decoderVars
<1>4. ASSUME DrawAndEncode PROVE mediaCount' = mediaCount
    BY <1>4 DEF DrawAndEncode
<1> QED
    BY <1>1, <1>2, <1>3, <1>4 DEF Next, vars, Application, DecoderRuns, EncoderRuns, ExecuteDecoder, DecoderSucceeds,
        DecoderFailed, EncoderReturns, ReleaseDecoder, ReleaseEncoder, NodeStep

\* The steps of a graph, as the decoder sees them.
LEMMA DecoderSees ==
    ASSUME [Next]_vars
    PROVE  [DecoderNext]_decoderVars \/ DrawAndEncode
<1>1. CASE UNCHANGED vars
    BY <1>1 DEF vars
<1>2. CASE Application
    BY <1>2 DEF Application, ExecuteDecoder, DecoderSucceeds, DecoderFailed, EncoderReturns, ReleaseDecoder,
        ReleaseEncoder, DecoderNext
<1>3. CASE DecoderRuns
    BY <1>3 DEF DecoderRuns, DecoderNext
<1>4. CASE EncoderRuns
    BY <1>4 DEF EncoderRuns
<1> QED
    BY <1>1, <1>2, <1>3, <1>4 DEF Next

\* A graph with a decode node is a decoder: whatever else the graph and the
\* application do, what holds of the decoder alone holds of it there.
THEOREM DecoderInGraph == Spec /\ mediaCount > 0 => DecoderSpec
<1>1. mediaCount > 0 /\ [Next]_vars => (mediaCount > 0)'
    BY MediaCountStays
<1>2. mediaCount > 0 /\ [Next]_vars => [DecoderNext]_decoderVars
    <2> SUFFICES ASSUME mediaCount > 0, [Next]_vars PROVE [DecoderNext]_decoderVars
        OBVIOUS
    <2>1. ~DrawAndEncode
        BY DEF DrawAndEncode
    <2> QED
        BY <2>1, DecoderSees
<1>3. Init => DecoderInit
    BY DEF Init
<1> QED
    BY <1>1, <1>2, <1>3, PTL DEF Spec, DecoderSpec

\* Without one nothing happens to the decoder but the application's drawing.
NoDecoder == mediaCount = 0 /\ shows = "idle" /\ shown = 0 /\ ~abandoned /\ DecoderTypeOK /\ calls \in Nat

LEMMA NoDecoderStep == ASSUME NoDecoder, [Next]_vars PROVE NoDecoder'
<1> USE DEF arguments, files, queues, counts, node, image, history
<1>1. ~DecoderNode /\ ~ProcessFrame /\ ~Shown /\ ~DecoderClose /\ ~(\E i \in Media: DecodeLoop(i))
    BY DEF NoDecoder, DecoderNode, ProcessFrame, Shown, DecoderClose, PopAck, OrderFrame, AuxFails, TellBuffer, TellFails,
        CopyFrame, CopyFails, Abort, Drain, TakeAck, Join, Media
<1>2. ASSUME UNCHANGED decoderVars
      PROVE  mediaCount' = 0 /\ shows' = "idle" /\ shown' = 0 /\ ~abandoned' /\ DecoderTypeOK'
    BY <1>2 DEF NoDecoder, decoderVars, DecoderTypeOK, Media
<1>3. ASSUME DrawAndEncode PROVE NoDecoder'
    <2>1. /\ UNCHANGED <<arguments, files, decoding, queues, counts, node, buffer, history>>
          /\ pixels' = [i \in Streams |-> calls] /\ mem' = [mem EXCEPT ![buffer] = [i \in Streams |-> calls]]
          /\ calls' = calls + 1
        BY <1>3 DEF DrawAndEncode
    <2>2. pixels' \in Images /\ calls' \in Nat
        BY <2>1 DEF NoDecoder, Images
    <2>3. mem' \in [Buffers -> Images]
        BY <2>1, <2>2 DEF NoDecoder, DecoderTypeOK, Images
    <2> QED
        BY <2>1, <2>2, <2>3 DEF NoDecoder, DecoderTypeOK, Images, Media
<1>4. ~DrawAndEncode => UNCHANGED decoderVars
    BY <1>1, DecoderSees DEF DecoderNext
<1>5. calls' \in Nat
    <2>1. calls' = calls \/ calls' = calls + 1
        BY DEF Next, vars, Application, DecoderRuns, EncoderRuns, ExecuteDecoder, DrawAndEncode, DecoderSucceeds,
            DecoderFailed, EncoderReturns, ReleaseDecoder, ReleaseEncoder
    <2> QED
        BY <2>1 DEF NoDecoder
<1> QED
    BY <1>2, <1>3, <1>4, <1>5 DEF NoDecoder

\* What holds of the decoder alone holds of a graph, if it holds without one.
LEMMA InitiallyNoDecoder == Init /\ ~(mediaCount > 0) => NoDecoder
BY TypeInit DEF Init, DecoderInit, NoDecoder, Typed

Decoding == IF mediaCount > 0 THEN DecoderInv /\ Typed ELSE NoDecoder

LEMMA DecoderHolds == Spec => []Decoding
<1>1. Spec /\ mediaCount > 0 => [](DecoderInv /\ Typed)
    BY DecoderInGraph, DecoderInvariant, PTL
<1>2. mediaCount > 0 /\ [Next]_vars => (mediaCount > 0)'
    BY MediaCountStays
<1>3. Init /\ ~(mediaCount > 0) => NoDecoder
    BY InitiallyNoDecoder
<1>4. NoDecoder /\ [Next]_vars => NoDecoder'
    BY NoDecoderStep
<1>5. (mediaCount > 0) /\ (DecoderInv /\ Typed) => Decoding
    BY DEF Decoding
<1>6. NoDecoder => Decoding
    BY DEF Decoding, NoDecoder
<1> QED
    BY <1>1, <1>2, <1>3, <1>4, <1>5, <1>6, PTL DEF Spec

\* In every graph the buffer of the output image is not refilled from one
\* ProcessFrame to the next.
THEOREM BufferStaysInGraph == Spec => []BufferIsStable
<1>1. Spec /\ mediaCount > 0 => []BufferIsStable
    BY DecoderInGraph, BufferStays, PTL
<1>2. NoDecoder => BufferIsStable
    BY DEF NoDecoder, BufferIsStable
<1>3. NoDecoder /\ [Next]_vars => NoDecoder'
    BY NoDecoderStep
<1> QED
    BY <1>1, <1>2, <1>3, InitiallyNoDecoder, PTL DEF Spec

\* In every graph the n-th call that succeeds shows the n-th frame of every
\* stream.
THEOREM FramesInStepInGraph == Spec => []ShowsInStep
<1>1. Spec /\ mediaCount > 0 => []ShowsInStep
    BY DecoderInGraph, FramesInStep, PTL
<1>2. NoDecoder => ShowsInStep
    BY DEF NoDecoder, ShowsInStep
<1>3. NoDecoder /\ [Next]_vars => NoDecoder'
    BY NoDecoderStep
<1> QED
    BY <1>1, <1>2, <1>3, InitiallyNoDecoder, PTL DEF Spec

\* In every graph with a pool of two buffers no call shows a frame once a call
\* was abandoned, even if a stream thread's flag in eof was lost to another's.
THEOREM EndIsFinalInGraph == ASSUME PoolSize = 2 PROVE Spec => EndIsFinal
<1>1. Spec /\ mediaCount > 0 => EndIsFinal
    BY DecoderInGraph, NothingAfterTheEnd, PTL
<1>2. NoDecoder => ~abandoned
    BY DEF NoDecoder
<1>3. NoDecoder /\ [Next]_vars => NoDecoder'
    BY NoDecoderStep
<1>4. NoDecoder /\ [Next]_vars => [abandoned => shown' = shown]_decoderVars
    BY DEF NoDecoder
<1> QED
    BY <1>1, <1>3, <1>4, InitiallyNoDecoder, PTL DEF Spec, EndIsFinal

\* In every graph with a pool of two buffers no frame is dropped behind the
\* marker of the end.
THEOREM NothingDroppedInGraph == ASSUME PoolSize = 2 PROVE Spec => []NothingDropped
<1>1. Spec /\ mediaCount > 0 => []NothingDropped
    BY DecoderInGraph, EveryFrameIsShown, PTL
<1>2. NoDecoder => NothingDropped
    BY DEF NoDecoder, NothingDropped
<1>3. NoDecoder /\ [Next]_vars => NoDecoder'
    BY NoDecoderStep
<1> QED
    BY <1>1, <1>2, <1>3, InitiallyNoDecoder, PTL DEF Spec

LEMMA DecoderTyped == ASSUME Decoding PROVE DecoderTypeOK
BY DEF Decoding, NoDecoder, Typed

LEMMA ShownIsImage == ASSUME DecoderTypeOK PROVE Picture \in Images /\ buffer \in Buffers /\ mem \in [Buffers -> Images]
BY DEF DecoderTypeOK, Picture, Images

\* The steps of a graph, as the encoder sees them.
LEMMA EncoderSees ==
    ASSUME DecoderTypeOK, [Next]_vars
    PROVE  EncoderStep(Images, Buffers) \/ UNCHANGED encoderVars
<1>1. CASE UNCHANGED vars
    BY <1>1 DEF vars
<1>2. CASE Application
    BY <1>2 DEF Application, ExecuteDecoder, DrawAndEncode, DecoderSucceeds, DecoderFailed, EncoderReturns,
        ReleaseDecoder, ReleaseEncoder, EncoderStep
<1>3. CASE DecoderRuns
    BY <1>3 DEF DecoderRuns
<1>4. CASE EncoderRuns
    <2>1. Memory \in [Buffers -> Images \cup {NoPicture}]
        BY ShownIsImage DEF Memory
    <2> QED
        BY <1>4, <2>1, ShownIsImage DEF EncoderRuns, EncoderStep
<1> QED
    BY <1>1, <1>2, <1>3, <1>4 DEF Next

LEMMA EncoderHolds == Spec => []EncoderAll(Images, Buffers)
<1>1. Init => EncoderAll(Images, Buffers)
    BY EncoderAllInit DEF Init
<1>2. EncoderAll(Images, Buffers) /\ Decoding /\ [Next]_vars => EncoderAll(Images, Buffers)'
    <2> SUFFICES ASSUME EncoderAll(Images, Buffers), Decoding, [Next]_vars PROVE EncoderAll(Images, Buffers)'
        OBVIOUS
    <2>1. EncoderStep(Images, Buffers) \/ UNCHANGED encoderVars
        BY DecoderTyped, EncoderSees
    <2> QED
        BY <2>1, EncoderAllStep
<1> QED
    BY <1>1, <1>2, DecoderHolds, PTL DEF Spec

\* In every graph the variables of both nodes keep their types, and what is
\* encoded is what the image showed: frames of the decoder or drawings.
THEOREM PipelineTypes == Spec => [](DecoderTypeOK /\ EncoderTyped(Images, Buffers))
<1>1. Decoding /\ EncoderAll(Images, Buffers) => DecoderTypeOK /\ EncoderTyped(Images, Buffers)
    BY DecoderTyped DEF EncoderAll
<1> QED
    BY <1>1, DecoderHolds, EncoderHolds, PTL

\* In every graph whose codec holds back one picture at most, and that lost none
\* half way, ProcessFrame never converts into the entry that the encoder's thread
\* hands to the codec.  H.264 as Initialize opens it is no such codec.
THEOREM EntriesAreFree == Spec => []EntryIsFree
<1>1. EncoderAll(Images, Buffers) => EntryIsFree
    BY NextEntryIsFree
<1> QED
    BY <1>1, EncoderHolds, PTL

\* In every graph in host mode that lost no picture half way, with any codec, the
\* k-th picture of the file is one of the thread's k-th turn: the k-th submitted if
\* the codec answers at once, and less than a pool from it otherwise.
THEOREM FileKeepsOrder == Spec => []FileInOrder
<1>1. EncoderAll(Images, Buffers) => FileInOrder
    BY WrittenInOrder
<1> QED
    BY <1>1, EncoderHolds, PTL

\* In every graph that lost no picture half way an encoder that was taken down has
\* written every picture it accepted if its codec holds back one at most, and
\* otherwise lacks all that it held back but one.
THEOREM NothingIsHeldBack == Spec => []DelayedAreWritten
<1>1. EncoderAll(Images, Buffers) => DelayedAreWritten
    BY AllAreWritten
<1> QED
    BY <1>1, EncoderHolds, PTL

------------------------------------------------------------------------------
(***************************************************************************)
(* Transcoding.                                                            *)
(***************************************************************************)
\* The graph runs one node at a time: where its place is says where the places
\* of the nodes can be.
Coupled ==
    /\ stage \in {"idle", "decode", "encode", "release", "releaseEncoder"}
    /\ stage \in {"idle", "decode", "release"} => takes = "idle"
    /\ stage = "encode" => takes \in {"wait", "convert", "update", "submit", "out", "idle"} /\ encodes
    /\ stage = "encode" /\ mediaCount > 0 => shows = "out"
    /\ stage = "releaseEncoder" => Tearing
    /\ stage \in {"idle", "release", "releaseEncoder"} => shows # "out"
    /\ shows \in {"wait", "order", "tell", "copy"} => stage = "decode"
    /\ refused => takes \in {"idle", "wait"} \/ Tearing

\* The encoder has accepted every frame shown, or all but the one that is
\* under way.
Passed ==
    mediaCount > 0 /\ encodes /\ ~missed /\ ~refused =>
        Len(submitted) = IF shows # "out" \/ takes \in {"submit", "out"} \/ (stage = "encode" /\ takes = "idle")
                            THEN shown ELSE shown - 1

\* The k-th picture accepted is the k-th frame of every stream.
InTurn ==
    mediaCount > 0 /\ ~gpuInput /\ ~failed /\ ~missed /\ (\A i \in Media: ~Silent(i)) =>
        \A k \in 1..Len(submitted), i \in Media: submitted[k][i] = k - 1

LEMMA TranscodingInit == Init => Coupled /\ Passed /\ InTurn
<1> SUFFICES ASSUME Init PROVE Coupled /\ Passed /\ InTurn
    OBVIOUS
<1>1. /\ stage = "idle" /\ takes = "idle" /\ shows = "idle" /\ ~refused /\ submitted = <<>> /\ shown = 0
    BY DEF Init, DecoderInit, EncoderInit
<1>2. Len(submitted) = 0
    BY <1>1
<1> QED
    BY <1>1, <1>2 DEF Coupled, Passed, InTurn

LEMMA CoupledStep == ASSUME Coupled, Decoding, EncoderAll(Images, Buffers), [Next]_vars PROVE Coupled'
<1> USE DEF Coupled, Tearing
<1> USE DEF arguments, files, queues, counts, node, image, history, encoderArguments, pool, link, encoderHistory
<1>1. CASE UNCHANGED vars
    BY <1>1 DEF vars, decoderVars, encoderVars
<1>2. CASE ExecuteDecoder
    BY <1>2 DEF ExecuteDecoder, ProcessFrame, encoderVars
<1>3. CASE DrawAndEncode
    BY <1>3 DEF DrawAndEncode, EncodeFrame
<1>4. CASE DecoderSucceeds
    BY <1>4 DEF DecoderSucceeds, EncodeFrame, Shown, decoderVars, encoderVars
<1>5. CASE DecoderFailed
    BY <1>5 DEF DecoderFailed, decoderVars, encoderVars
<1>6. CASE EncoderReturns
    <2>1. stage = "encode" /\ stage' = "idle" /\ takes' = "idle" /\ UNCHANGED <<encodes, refused, mediaCount>>
        BY <1>6 DEF EncoderReturns, Accepted, Shown, decoderVars, encoderVars
    <2>2. shows' = "idle"
        <3>1. CASE mediaCount > 0
            BY <1>6, <3>1 DEF EncoderReturns, Shown
        <3>2. CASE ~(mediaCount > 0)
            BY <1>6, <3>2 DEF EncoderReturns, Decoding, NoDecoder, decoderVars
        <3> QED
            BY <3>1, <3>2
    <2> QED
        BY <2>1, <2>2
<1>7. CASE ReleaseDecoder
    BY <1>7 DEF ReleaseDecoder, DecoderClose, encoderVars
<1>8. CASE ReleaseEncoder
    BY <1>8 DEF ReleaseEncoder, EncoderClose, decoderVars
<1>9. CASE DecoderRuns
    <2>1. /\ UNCHANGED <<stage, takes, encodes, refused>>
        BY <1>9 DEF DecoderRuns, encoderVars
    <2>2. CASE \E i \in Media: DecodeLoop(i)
        <3>1. UNCHANGED <<mediaCount, shows>>
            BY <2>2 DEF DecodeLoop, PopCommand, ReadPacket, SeekStart, ReadEnds, SendFails, ReceiveAgain,
                ReceiveFrame, ReceiveFails, StoreFrame, StoreFails, AckFrame, ReadEof, MarkEof, AckEnd
        <3> QED
            BY <2>1, <3>1
    <2>3. CASE DecoderNode
        <3>1. mediaCount' = mediaCount
            BY <2>3, NodeFrame DEF NodeStep
        <3>2. CASE PopAck \/ OrderFrame \/ AuxFails \/ TellBuffer \/ TellFails \/ CopyFrame \/ CopyFails
            <4>1. shows \in {"wait", "order", "tell", "copy"} /\ shows' \in {"idle", "wait", "order", "tell", "copy", "out"}
                BY <3>2 DEF PopAck, OrderFrame, AuxFails, TellBuffer, TellFails, CopyFrame, CopyFails, NextStream
            <4> QED
                BY <4>1, <3>1, <2>1
        <3>3. CASE Abort \/ Drain \/ TakeAck \/ Join
            <4>1. /\ shows \in {"abort", "drain", "take", "join"}
                  /\ shows' \in {"abort", "drain", "take", "join", "gone"}
                BY <3>3 DEF Abort, Drain, TakeAck, Join, NextStream
            <4> QED
                BY <4>1, <3>1, <2>1
        <3> QED
            BY <2>3, <3>2, <3>3 DEF DecoderNode
    <2> QED
        BY <1>9, <2>2, <2>3 DEF DecoderRuns
<1>10. CASE EncoderRuns
    <2>1. UNCHANGED <<stage, shows, mediaCount>>
        BY <1>10 DEF EncoderRuns, decoderVars
    <2>2. CASE EncodeLoop(Memory)
        <3>1. UNCHANGED <<takes, encodes, refused>>
            BY <2>2 DEF EncodeLoop, AckEntries, PacketFails, TakeCommand, FetchPicture, FetchFails, SendAgain,
                SendPicture, EncodeFails, Flush, FlushFails, MarkTerminated, AckTermination
        <3> QED
            BY <2>1, <3>1
    <2>3. CASE EncoderNode(Picture, buffer)
        <3>1. encodes' = encodes
            BY <2>3 DEF EncoderNode, TakeEntry, ConvertPicture, ConvertFails, UpdateBuffer, UpdateFails,
                Submit, SubmitFails, DrainAcks, TakeLastAck, JoinEncoder
        <3>2. CASE TakeEntry
            <4>1. takes = "wait" /\ (takes' = "idle" \/ (takes' \in {"update", "convert"} /\ refused' = refused))
                BY <3>2 DEF TakeEntry
            <4>2. refused => takes' = "idle"
                BY <3>2 DEF TakeEntry, EncoderAll, EncoderInv, Terminates
            <4>3. refused' => takes' = "idle"
                BY <3>2, <4>1, <4>2
            <4> QED
                BY <4>1, <4>3, <3>1, <2>1
        <3>3. CASE ~TakeEntry
            <4>1. /\ refused' = refused
                  /\ \/ takes \in {"convert", "update", "submit"} /\ takes' \in {"submit", "out", "idle"}
                     \/ takes \in {"drain", "take", "join"} /\ takes' \in {"drain", "take", "join", "gone"}
                BY <2>3, <3>3 DEF EncoderNode, ConvertPicture, ConvertFails, UpdateBuffer, UpdateFails,
                    Submit, SubmitFails, DrainAcks, TakeLastAck, JoinEncoder
            <4> QED
                BY <4>1, <3>1, <2>1
        <3> QED
            BY <3>2, <3>3
    <2> QED
        BY <1>10, <2>2, <2>3 DEF EncoderRuns
<1> QED
    BY <1>1, <1>2, <1>3, <1>4, <1>5, <1>6, <1>7, <1>8, <1>9, <1>10 DEF Next, Application

\* What was lost stays lost, and the arguments of the nodes stay.
LEMMA PastStays ==
    ASSUME [Next]_vars
    PROVE  /\ (missed => missed') /\ (refused => refused') /\ (failed => failed')
           /\ UNCHANGED <<encodes, gpuInput, codecDelay, gpuOutput>>
<1> USE DEF arguments, files, queues, counts, node, image, history, encoderArguments, pool, link, encoderHistory
<1>1. ASSUME NEW i, DecodeLoop(i) PROVE (failed => failed') /\ gpuOutput' = gpuOutput
    BY <1>1 DEF DecodeLoop, PopCommand, ReadPacket, SeekStart, ReadEnds, SendFails, ReceiveAgain,
        ReceiveFrame, ReceiveFails, StoreFrame, StoreFails, AckFrame, ReadEof, MarkEof, AckEnd
<1>2. ASSUME NodeStep PROVE (failed => failed') /\ gpuOutput' = gpuOutput
    BY <1>2 DEF NodeStep, DecoderNode, ProcessFrame, Shown, DecoderClose, PopAck, OrderFrame, AuxFails, TellBuffer, TellFails,
        CopyFrame, CopyFails, Abort, Drain, TakeAck, Join
<1>3. (failed => failed') /\ gpuOutput' = gpuOutput
    BY <1>1, <1>2, DecoderSees DEF DecoderNext, NodeStep, DrawAndEncode, decoderVars
<1>4. ASSUME NEW memory, EncodeLoop(memory)
      PROVE  (missed => missed') /\ (refused => refused') /\ UNCHANGED <<encodes, gpuInput, codecDelay>>
    BY <1>4 DEF EncodeLoop, AckEntries, PacketFails, TakeCommand, FetchPicture, FetchFails, SendAgain,
        SendPicture, EncodeFails, Flush, FlushFails, MarkTerminated, AckTermination
<1>5. ASSUME NEW picture, NEW buf, EncoderCall(picture, buf)
      PROVE  (missed => missed') /\ (refused => refused') /\ UNCHANGED <<encodes, gpuInput, codecDelay>>
    BY <1>5 DEF EncoderCall, EncoderNode, TakeEntry, ConvertPicture, ConvertFails, UpdateBuffer, UpdateFails,
        Submit, SubmitFails, DrainAcks, TakeLastAck, JoinEncoder, EncodeFrame, Accepted, EncoderClose
<1>6. ASSUME UNCHANGED encoderVars
      PROVE  (missed => missed') /\ (refused => refused') /\ UNCHANGED <<encodes, gpuInput, codecDelay>>
    BY <1>6 DEF encoderVars
<1>7. ASSUME EncodeFrame \/ Accepted \/ EncoderClose
      PROVE  (missed => missed') /\ (refused => refused') /\ UNCHANGED <<encodes, gpuInput, codecDelay>>
    BY <1>7 DEF EncodeFrame, Accepted, EncoderClose
<1>8. (missed => missed') /\ (refused => refused') /\ UNCHANGED <<encodes, gpuInput, codecDelay>>
    BY <1>4, <1>5, <1>6, <1>7 DEF Next, vars, Application, DecoderRuns, EncoderRuns, ExecuteDecoder, DrawAndEncode,
        DecoderSucceeds, DecoderFailed, EncoderReturns, ReleaseDecoder, ReleaseEncoder, EncoderCall
<1> QED
    BY <1>3, <1>8

LEMMA PassedStep == ASSUME Coupled, Passed, Decoding, EncoderAll(Images, Buffers), [Next]_vars PROVE Passed'
<1> USE DEF arguments, files, queues, counts, node, image, history, encoderArguments, pool, link, encoderHistory
<1> SUFFICES ASSUME mediaCount > 0, encodes, ~missed, ~refused, ~missed', ~refused' PROVE Passed'
    BY PastStays, MediaCountStays DEF Passed
<1>1. Len(submitted) = IF shows # "out" \/ takes \in {"submit", "out"} \/ (stage = "encode" /\ takes = "idle")
                          THEN shown ELSE shown - 1
    BY DEF Passed
<1>T. shown \in Nat /\ Typed /\ submitted \in Seq(Images)
    BY DEF Decoding, Typed, DecoderTypeOK, EncoderAll, EncoderTyped
\* The same frames are shown and accepted, at places with the same meaning.
<1>2. ASSUME UNCHANGED <<submitted, shown>>,
             (shows' # "out" \/ takes' \in {"submit", "out"} \/ (stage' = "encode" /\ takes' = "idle"))
                 <=> (shows # "out" \/ takes \in {"submit", "out"} \/ (stage = "encode" /\ takes = "idle"))
      PROVE  Passed'
    BY <1>1, <1>2 DEF Passed
<1>3. CASE UNCHANGED vars
    BY <1>2, <1>3 DEF vars, decoderVars, encoderVars
<1>4. CASE ExecuteDecoder
    BY <1>2, <1>4 DEF ExecuteDecoder, ProcessFrame, encoderVars
<1>5. ~DrawAndEncode
    BY DEF DrawAndEncode
<1>6. CASE DecoderSucceeds
    BY <1>2, <1>6 DEF DecoderSucceeds, EncodeFrame, Shown, decoderVars, encoderVars, Coupled
<1>7. CASE DecoderFailed
    BY <1>2, <1>7 DEF DecoderFailed, decoderVars, encoderVars
<1>8. CASE EncoderReturns
    <2>1. /\ stage = "encode" /\ takes \in {"idle", "out"} /\ shows' = "idle" /\ UNCHANGED <<submitted, shown>>
        BY <1>8 DEF EncoderReturns, Accepted, Shown, encoderVars
    <2> QED
        BY <2>1, <1>2
<1>9. CASE ReleaseDecoder
    BY <1>2, <1>9 DEF ReleaseDecoder, DecoderClose, encoderVars
<1>10. CASE ReleaseEncoder
    BY <1>2, <1>10 DEF ReleaseEncoder, EncoderClose, decoderVars, Coupled
<1>11. CASE DecoderRuns
    <2>1. UNCHANGED <<stage, takes, submitted>>
        BY <1>11 DEF DecoderRuns, encoderVars
    <2>2. ASSUME NEW i \in Media, DecodeLoop(i) PROVE Passed'
        <3>1. UNCHANGED <<shows, shown>>
            BY <2>2, <1>T, ThreadFrame DEF Kept
        <3> QED
            BY <2>1, <3>1, <1>2
    <2>3. CASE TellBuffer \/ CopyFrame
        <3>1. takes = "idle" /\ stage = "decode" /\ shows \in {"tell", "copy"}
            BY <2>3 DEF TellBuffer, TellFails, CopyFrame, Coupled
        <3>2. (shows' = "out" /\ shown' = shown + 1) \/ (shows' = "copy" /\ shown' = shown)
            <4>1. CASE TellBuffer
                BY <4>1 DEF TellBuffer
            <4>2. CASE CopyFrame
                <5>1. mediaIndex \in Media
                    BY <3>1, <1>T DEF Typed, DecoderTypeOK
                <5>2. mediaIndex < mediaCount <=> mediaIndex # mediaCount
                    BY <5>1, <1>T DEF Media, Typed, DecoderTypeOK
                <5> QED
                    BY <4>2, <5>2 DEF CopyFrame, NextStream
            <4> QED
                BY <2>3, <4>1, <4>2
        <3>3. Len(submitted) = shown /\ takes' = "idle" /\ stage' = "decode"
            BY <1>1, <2>1, <3>1
        <3>4. shown + 1 - 1 = shown
            BY <1>T
        <3> QED
            BY <2>1, <3>2, <3>3, <3>4 DEF Passed
    <2>4. CASE PopAck \/ OrderFrame \/ AuxFails \/ TellFails \/ CopyFails \/ Abort \/ Drain \/ TakeAck \/ Join
        <3>1. shows # "out" /\ shows' # "out" /\ shown' = shown
            BY <2>4 DEF PopAck, OrderFrame, AuxFails, TellFails, CopyFails, Abort, Drain, TakeAck, Join, NextStream
        <3> QED
            BY <2>1, <3>1, <1>2
    <2> QED
        BY <1>11, <2>2, <2>3, <2>4 DEF DecoderRuns, DecoderNode
<1>12. CASE EncoderRuns
    <2>1. UNCHANGED <<stage, shows, shown, mediaCount>>
        BY <1>12 DEF EncoderRuns, decoderVars
    <2>2. CASE EncodeLoop(Memory)
        <3>1. UNCHANGED <<takes, submitted>>
            BY <2>2 DEF EncodeLoop, AckEntries, PacketFails, TakeCommand, FetchPicture, FetchFails, SendAgain,
                SendPicture, EncodeFails, Flush, FlushFails, MarkTerminated, AckTermination
        <3> QED
            BY <2>1, <3>1, <1>2
    <2>3. CASE TakeEntry \/ Submit \/ SubmitFails \/ DrainAcks \/ TakeLastAck \/ JoinEncoder
        <3>1. /\ submitted' = submitted
              /\ \/ takes = "wait" /\ takes' \in {"convert", "update"}
                 \/ takes = "submit" /\ takes' \in {"out", "idle"}
                 \/ takes \in {"drain", "take", "join"} /\ takes' \in {"drain", "take", "join", "gone"}
            BY <2>3 DEF TakeEntry, Submit, SubmitFails, DrainAcks, TakeLastAck, JoinEncoder
        <3>2. takes = "submit" => stage = "encode"
            BY DEF Coupled, Tearing
        <3> QED
            BY <2>1, <3>1, <3>2, <1>2
    <2>4. CASE ConvertPicture(Picture) \/ UpdateBuffer(Picture, buffer)
        <3>1. /\ takes \in {"convert", "update"} /\ takes' = "submit"
              /\ submitted' = Append(submitted, Picture)
            BY <2>4 DEF ConvertPicture, UpdateBuffer
        <3>2. stage = "encode" /\ shows = "out"
            BY <3>1 DEF Coupled, Tearing
        <3>3. Len(submitted) = shown - 1 /\ Len(submitted') = Len(submitted) + 1
            BY <3>1, <3>2, <1>1, <1>T, JoinOne
        <3>4. Len(submitted') = shown
            BY <3>3, <1>T
        <3> QED
            BY <2>1, <3>1, <3>4 DEF Passed
    <2>5. ~ConvertFails /\ ~UpdateFails
        BY DEF ConvertFails, UpdateFails
    <2> QED
        BY <1>12, <2>2, <2>3, <2>4, <2>5 DEF EncoderRuns, EncoderNode
<1> QED
    BY <1>3, <1>4, <1>5, <1>6, <1>7, <1>8, <1>9, <1>10, <1>11, <1>12 DEF Next, Application

\* A thread that has fallen silent is so for good.
LEMMA SilentStays ==
    ASSUME Decoding, mediaCount > 0, [Next]_vars, NEW i \in Media, Silent(i)
    PROVE  Silent(i)'
<1> USE DEF arguments, files, queues, counts, node, image, history
<1>T. /\ Typed /\ i \in Streams
      /\ decoding \in [Streams -> Labels] /\ received \in [Streams -> Nat] /\ decodeFrameCount \in [Streams -> Nat]
      /\ received[i] \in Nat /\ decodeFrameCount[i] \in Nat
    BY MediaAreStreams DEF Decoding, Typed, DecoderTypeOK
<1>1. ASSUME decoding'[i] = decoding[i], received'[i] = received[i], decodeFrameCount'[i] = decodeFrameCount[i]
      PROVE  Silent(i)'
    BY <1>1 DEF Silent, At
<1>2. CASE UNCHANGED decoderVars
    BY <1>1, <1>2 DEF decoderVars
<1>3. CASE NodeStep
    BY <1>1, <1>3, NodeFrame
<1>4. ASSUME NEW j \in Media, DecodeLoop(j) PROVE Silent(i)'
    <2>1. CASE i # j
        <3>1. i \in Media \ {j}
            BY <2>1
        <3> QED
            BY <1>1, <1>4, <1>T, <3>1, ThreadFrame
    <2>2. CASE i = j
        BY <1>4, <1>T, <2>2, SilentThread
    <2> QED
        BY <2>1, <2>2
<1>5. ~DrawAndEncode
    BY DEF DrawAndEncode
<1> QED
    BY <1>2, <1>3, <1>4, <1>5, DecoderSees DEF DecoderNext, NodeStep

LEMMA InTurnStep ==
    ASSUME Coupled, Passed, InTurn, Decoding, ShowsInStep, EncoderAll(Images, Buffers), [Next]_vars
    PROVE  InTurn'
<1> USE DEF encoderArguments, pool, link, encoderHistory
<1> SUFFICES ASSUME mediaCount > 0, ~gpuInput, ~failed, ~missed, \A i \in Media: ~Silent(i)
             PROVE  \A k \in 1..Len(submitted'), i \in Media: submitted'[k][i] = k - 1
    <2>1. Media' = Media
        BY MediaCountStays DEF Media
    <2>2. ASSUME mediaCount > 0, \A i \in Media: ~Silent(i)' PROVE \A i \in Media: ~Silent(i)
        BY <2>2, SilentStays
    <2> QED
        BY <2>1, <2>2, PastStays, MediaCountStays DEF InTurn
<1>1. \A k \in 1..Len(submitted), i \in Media: submitted[k][i] = k - 1
    BY DEF InTurn
<1>T. shown \in Nat /\ Media \subseteq Streams /\ submitted \in Seq(Images)
    BY DecoderTyped, MediaAreStreams DEF DecoderTypeOK, EncoderAll, EncoderTyped
<1>2. CASE submitted' = submitted
    BY <1>1, <1>2
<1>3. CASE EncoderRuns /\ (ConvertPicture(Picture) \/ UpdateBuffer(Picture, buffer))
    <2>1. takes = "convert" /\ submitted' = Append(submitted, Picture) /\ encodes
        BY <1>3 DEF ConvertPicture, UpdateBuffer, EncoderRuns, EncoderAll, Modes
    <2>2. stage = "encode" /\ shows = "out" /\ ~refused
        BY <2>1 DEF Coupled, Tearing
    <2>3. Len(submitted) = shown - 1
        BY <2>1, <2>2 DEF Passed
    <2>4. ASSUME NEW i \in Media PROVE Picture[i] = shown - 1
        <3>1. Frame(i) = shown - 1
            BY <2>2 DEF ShowsInStep
        <3> QED
            BY <3>1 DEF Frame, Picture
    <2>5. /\ Len(submitted') = Len(submitted) + 1 /\ submitted'[Len(submitted) + 1] = Picture
          /\ \A k \in 1..Len(submitted): submitted'[k] = submitted[k]
        BY <2>1, <1>T, JoinOne
    <2> SUFFICES ASSUME NEW k \in 1..Len(submitted'), NEW i \in Media PROVE submitted'[k][i] = k - 1
        OBVIOUS
    <2>6. k \in 1..Len(submitted) \/ k = Len(submitted) + 1
        BY <2>3, <2>5, <1>T
    <2>7. CASE k \in 1..Len(submitted)
        BY <2>7, <2>5, <1>1
    <2>8. CASE k = Len(submitted) + 1
        BY <2>8, <2>3, <2>4, <2>5, <1>T
    <2> QED
        BY <2>6, <2>7, <2>8
<1>4. submitted' = submitted \/ (EncoderRuns /\ (ConvertPicture(Picture) \/ UpdateBuffer(Picture, buffer)))
    <2>1. CASE EncoderRuns
        BY <2>1 DEF EncoderRuns, EncodeLoop, AckEntries, PacketFails, TakeCommand, FetchPicture, FetchFails, SendAgain,
            SendPicture, EncodeFails, Flush, FlushFails, MarkTerminated, AckTermination,
            EncoderNode, TakeEntry, ConvertFails, UpdateFails, Submit, SubmitFails, DrainAcks, TakeLastAck, JoinEncoder
    <2>2. CASE ~EncoderRuns
        BY <2>2 DEF Next, vars, encoderVars, Application, DecoderRuns, ExecuteDecoder, DrawAndEncode, DecoderSucceeds,
            DecoderFailed, EncoderReturns, ReleaseDecoder, ReleaseEncoder, EncodeFrame, Accepted, EncoderClose
    <2> QED
        BY <2>1, <2>2
<1> QED
    BY <1>2, <1>3, <1>4

\* Transcoding in host mode, any codec, while no node failed half way and no frame
\* was lost: the k-th picture of the file is the frame, of every stream at once, of
\* the encoder's k-th turn.  A codec that holds pictures back repeats and skips some.
THEOREM TranscodingKeepsOrder == Spec => []TranscodedInOrder
<1> DEFINE J == Coupled /\ Passed /\ InTurn
<1>1. Init => J
    BY TranscodingInit
<1>2. J /\ Decoding /\ ShowsInStep /\ EncoderAll(Images, Buffers) /\ [Next]_vars => J'
    BY CoupledStep, PassedStep, InTurnStep
<1>3. J /\ FileInOrder => TranscodedInOrder
    <2> SUFFICES ASSUME J, FileInOrder, mediaCount > 0, ~gpuInput, ~failed, ~missed, \A i \in Media: ~Silent(i),
                        NEW k \in 1..Len(file)
                 PROVE  \E j \in Turn(k): \A i \in Media: file[k][i] = j - 1
        BY DEF TranscodedInOrder
    <2>1. PICK j \in Turn(k): file[k] = submitted[j]
        BY DEF FileInOrder
    <2>2. j \in 1..Len(submitted)
        BY DEF Turn
    <2>3. \A i \in Media: submitted[j][i] = j - 1
        BY <2>2 DEF InTurn
    <2> QED
        BY <2>1, <2>3
<1> QED
    BY <1>1, <1>2, <1>3, DecoderHolds, EncoderHolds, FramesInStepInGraph, FileKeepsOrder, PTL DEF Spec

------------------------------------------------------------------------------
(***************************************************************************)
(* GPU mode: the pictures in a buffer only get newer.                      *)
(***************************************************************************)
NotOlder(p, q) == \A i \in Streams: p[i] >= q[i]

\* What is in a buffer was decoded, or drawn, before.
Newest(i) == IF mediaCount > 0 THEN (IF i \in Media THEN received[i] ELSE 0) ELSE calls
Recent == \A b \in Buffers, i \in Streams: mem[b][i] < Newest(i)

Grows == \A b \in Buffers: NotOlder(mem'[b], mem[b])

LEMMA RecentInit == Init => Recent
<1> SUFFICES ASSUME Init, NEW b \in Buffers, NEW i \in Streams PROVE mem[b][i] < Newest(i)
    BY DEF Recent
<1>1. mem[b][i] = -1 /\ calls = 0 /\ received[i] = 0
    BY DEF Init, DecoderInit, NoFrame
<1> QED
    BY <1>1 DEF Newest

\* A thread stores the frame it received last, the application draws the picture
\* of the call: each is newer than all that are in the buffers.
LEMMA RecentStep == ASSUME Decoding, Recent, [Next]_vars PROVE Recent' /\ Grows
<1> USE DEF arguments, files, queues, counts, node, image, history
<1>T. DecoderTypeOK /\ (mediaCount > 0 => Typed) /\ mediaCount \in Nat
    BY DecoderTyped, CountType DEF Decoding
<1>1. \A b \in Buffers, i \in Streams: mem[b][i] \in Int /\ received[i] \in Nat
    BY <1>T DEF DecoderTypeOK, NoFrame
<1>2. mediaCount' = mediaCount /\ Media' = Media
    BY MediaCountStays DEF Media
<1>3. ASSUME \A b \in Buffers, i \in Streams: mem'[b][i] < Newest(i)' /\ mem'[b][i] >= mem[b][i]
      PROVE  Recent' /\ Grows
    BY <1>3 DEF Recent, Grows, NotOlder
<1> SUFFICES ASSUME NEW b \in Buffers, NEW i \in Streams
             PROVE  mem'[b][i] < Newest(i)' /\ mem'[b][i] >= mem[b][i]
    BY <1>3
<1>4. mem[b][i] < Newest(i) /\ mem[b][i] \in Int /\ received[i] \in Nat
    BY <1>1 DEF Recent
<1>5. CASE mediaCount = 0
    <2>1. calls \in Nat /\ (calls' = calls \/ calls' = calls + 1) /\ mem[b][i] < calls /\ Newest(i)' = calls'
        <3>1. calls \in Nat /\ Newest(i) = calls /\ Newest(i)' = calls'
            BY <1>2, <1>5 DEF Decoding, NoDecoder, Newest
        <3>2. calls' = calls \/ calls' = calls + 1
            BY DEF Next, vars, Application, DecoderRuns, EncoderRuns, ExecuteDecoder, DrawAndEncode,
                DecoderSucceeds, DecoderFailed, EncoderReturns, ReleaseDecoder, ReleaseEncoder
        <3> QED
            BY <3>1, <3>2, <1>4
    <2>2. CASE DrawAndEncode
        <3>1. calls' = calls + 1 /\ mem' = [mem EXCEPT ![buffer] = [s \in Streams |-> calls]]
            BY <2>2 DEF DrawAndEncode
        <3>2. mem'[b][i] = mem[b][i] \/ mem'[b][i] = calls
            BY <3>1, <1>T DEF DecoderTypeOK
        <3> QED
            BY <2>1, <3>1, <3>2, <1>4
    <2>3. CASE ~DrawAndEncode
        <3>1. mem' = mem
            BY <2>3, <1>5, <1>T, DecoderSees DEF DecoderNext, decoderVars, Decoding, NoDecoder, DecoderNode, ProcessFrame,
                Shown, DecoderClose, PopAck, OrderFrame, AuxFails, TellBuffer, TellFails, CopyFrame, CopyFails, Abort, Drain,
                TakeAck, Join, Media
        <3> QED
            BY <2>1, <3>1, <1>4
    <2> QED
        BY <2>2, <2>3
<1>6. CASE mediaCount > 0
    <2>1. /\ Newest(i) = (IF i \in Media THEN received[i] ELSE 0)
          /\ Newest(i)' = (IF i \in Media THEN received'[i] ELSE 0)
        BY <1>2, <1>6 DEF Newest
    <2>2. ASSUME mem' = mem, received'[i] = received[i] PROVE mem'[b][i] < Newest(i)' /\ mem'[b][i] >= mem[b][i]
        BY <2>1, <2>2, <1>4
    <2>3. CASE UNCHANGED decoderVars
        BY <2>2, <2>3 DEF decoderVars
    <2>4. CASE NodeStep
        BY <2>2, <2>4 DEF NodeStep, DecoderNode, ProcessFrame, Shown, DecoderClose, PopAck, OrderFrame, AuxFails,
            TellBuffer, TellFails, CopyFrame, CopyFails, Abort, Drain, TakeAck, Join
    <2>5. ASSUME NEW j \in Media, DecodeLoop(j) PROVE mem'[b][i] < Newest(i)' /\ mem'[b][i] >= mem[b][i]
        <3>1. CASE ReceiveFrame(j)
            <4>1. mem' = mem /\ received' = [received EXCEPT ![j] = @ + 1] /\ received \in [Streams -> Nat]
                BY <3>1, <1>T DEF ReceiveFrame, DecoderTypeOK
            <4>2. received'[i] = received[i] \/ received'[i] = received[i] + 1
                BY <4>1
            <4> QED
                BY <4>1, <4>2, <2>1, <1>4
        <3>2. CASE StoreFrame(j)
            <4>1. UNCHANGED received /\ At(j, "store")
                BY <3>2 DEF StoreFrame
            <4>2. mem' = mem \/ mem' = [mem EXCEPT ![Filled(j)][j] = received[j] - 1]
                BY <3>2 DEF StoreFrame
            <4>3. mem'[b][i] = mem[b][i] \/ (i = j /\ mem'[b][i] = received[j] - 1)
                <5>1. mem \in [Buffers -> [Streams -> Nat \cup {NoFrame}]]
                    BY <1>T DEF DecoderTypeOK
                <5>2. CASE mem' = mem
                    BY <5>2
                <5>3. CASE mem' = [mem EXCEPT ![Filled(j)][j] = received[j] - 1]
                    <6>1. CASE b = Filled(j)
                        BY <5>1, <5>3, <6>1
                    <6>2. CASE b # Filled(j)
                        BY <5>1, <5>3, <6>2
                    <6> QED
                        BY <6>1, <6>2
                <5> QED
                    BY <4>2, <5>2, <5>3
            <4> QED
                BY <4>1, <4>3, <2>1, <1>4
        <3>3. CASE ~ReceiveFrame(j) /\ ~StoreFrame(j)
            <4>1. mem' = mem /\ received' = received
                BY <2>5, <3>3 DEF DecodeLoop, PopCommand, ReadPacket, SeekStart, ReadEnds, SendFails, ReceiveAgain,
                    ReceiveFails, StoreFails, AckFrame, ReadEof, MarkEof, AckEnd
            <4> QED
                BY <4>1, <2>2
        <3> QED
            BY <3>1, <3>2, <3>3
    <2>6. ~DrawAndEncode
        BY <1>6 DEF DrawAndEncode
    <2> QED
        BY <2>3, <2>4, <2>5, <2>6, DecoderSees DEF DecoderNext, NodeStep
<1> QED
    BY <1>5, <1>6, <1>T

\* No step gives a pool back that was released.
LEMMA ReleasedStays == ASSUME [Next]_vars, Released PROVE Released'
<1> USE DEF arguments, files, queues, counts, node, image, history
<1>1. gpuOutput' /\ shows = "gone"
    BY PastStays DEF Released
<1>2. ASSUME NEW i, DecodeLoop(i) PROVE shows' = shows
    BY <1>2 DEF DecodeLoop, PopCommand, ReadPacket, SeekStart, ReadEnds, SendFails, ReceiveAgain,
        ReceiveFrame, ReceiveFails, StoreFrame, StoreFails, AckFrame, ReadEof, MarkEof, AckEnd
<1>3. ~NodeStep
    BY <1>1 DEF NodeStep, DecoderNode, ProcessFrame, Shown, DecoderClose, PopAck, OrderFrame, AuxFails, TellBuffer,
        TellFails, CopyFrame, CopyFails, Abort, Drain, TakeAck, Join
<1>4. shows' = shows
    BY <1>2, <1>3, DecoderSees DEF DecoderNext, NodeStep, DrawAndEncode, decoderVars
<1> QED
    BY <1>1, <1>4 DEF Released

\* What the thread took in its k-th turn, or is about to: a picture that is not
\* older than one of that turn; or anything, if the pool was released while it waited.
Written(x, k) ==
    IF x = NoPicture
       THEN Released /\ Len(submitted) - k < EntryCount - 1
       ELSE \E j \in Turn(k): NotOlder(x, submitted[j])

\* GPU mode: the entries have the buffers of the pictures accepted last, and those
\* show no older ones.
Fresh ==
    gpuInput /\ ~missed =>
        /\ takes # "convert"
        /\ \A j \in 1..Len(submitted): j > Len(submitted) - EntryCount =>
              /\ submittedBuffer[Entry(j - 1)] \in Buffers
              /\ NotOlder(mem[submittedBuffer[Entry(j - 1)]], submitted[j])
        /\ \A k \in 1..Len(file) + Len(codec): Written(Kth(file, codec, k), k)
        /\ encoding = "send" => Written(videoFrame[0], Len(file) + Len(codec) + 1)

LEMMA FreshInit == Init => Fresh
<1> SUFFICES ASSUME Init PROVE Fresh
    OBVIOUS
<1>1. encoding = "start" /\ takes = "idle" /\ file = <<>> /\ codec = <<>> /\ submitted = <<>>
    BY DEF Init, EncoderInit
<1>2. Len(file) + Len(codec) = 0 /\ Len(submitted) = 0
    BY <1>1
<1> QED
    BY <1>1, <1>2 DEF Fresh

\* What was written stays so, while no picture is accepted.
LEMMA WrittenStays ==
    ASSUME UNCHANGED <<submitted, codecDelay>>, Released => Released', NEW x, NEW k, Written(x, k)
    PROVE  IF x = NoPicture
              THEN Released' /\ Len(submitted') - k < EntryCount - 1
              ELSE \E j \in Turn(k)': NotOlder(x, submitted'[j])
<1>1. Turn(k)' = Turn(k)
    BY TurnStays
<1> QED
    BY <1>1 DEF Written

LEMMA WrittenGrows ==
    ASSUME NEW P, submitted \in Seq(P), NEW y, submitted' = Append(submitted, y), codecDelay' = codecDelay, ~Released,
           NEW x, NEW k, Written(x, k)
    PROVE  IF x = NoPicture
              THEN Released' /\ Len(submitted') - k < EntryCount - 1
              ELSE \E j \in Turn(k)': NotOlder(x, submitted'[j])
<1>1. x # NoPicture /\ \E j \in Turn(k): NotOlder(x, submitted[j])
    BY DEF Written
<1>2. \A j \in Turn(k): j \in Turn(k)' /\ submitted'[j] = submitted[j]
    BY TurnGrows
<1> QED
    BY <1>1, <1>2

\* The images get newer, and no entry changes.
LEMMA FreshWhileImagesChange ==
    ASSUME EncoderAll(Images, Buffers), Fresh, DecoderTypeOK, DecoderTypeOK', Grows, takes' # "convert",
           Released => Released',
           UNCHANGED <<gpuInput, missed, codecDelay, file, codec, submitted, encoding, videoFrame, submittedBuffer>>
    PROVE  Fresh'
<1> SUFFICES ASSUME gpuInput, ~missed PROVE Fresh'
    BY DEF Fresh
<1>1. ASSUME NEW j \in 1..Len(submitted), j > Len(submitted) - EntryCount
      PROVE  /\ submittedBuffer[Entry(j - 1)] \in Buffers
             /\ NotOlder(mem'[submittedBuffer[Entry(j - 1)]], submitted[j])
    <2> DEFINE b == submittedBuffer[Entry(j - 1)]
    <2>1. b \in Buffers /\ NotOlder(mem[b], submitted[j])
        BY <1>1 DEF Fresh
    <2>2. NotOlder(mem'[b], mem[b])
        BY <2>1 DEF Grows
    <2>3. submitted[j] \in Images
        BY DEF EncoderAll, EncoderTyped
    <2>4. mem[b] \in Images /\ mem'[b] \in Images
        BY <2>1 DEF DecoderTypeOK, Images
    <2> HIDE DEF b
    <2>5. ASSUME NEW i \in Streams PROVE mem'[b][i] >= submitted[j][i]
        <3>1. mem'[b][i] \in Int /\ mem[b][i] \in Int /\ submitted[j][i] \in Int
            BY <2>3, <2>4 DEF Images, NoFrame
        <3>2. mem'[b][i] >= mem[b][i] /\ mem[b][i] >= submitted[j][i]
            BY <2>1, <2>2 DEF NotOlder
        <3> QED
            BY <3>1, <3>2
    <2> QED
        BY <2>1, <2>5 DEF NotOlder, b
<1>2. \A x, k: Written(x, k) => IF x = NoPicture
                                   THEN Released' /\ Len(submitted') - k < EntryCount - 1
                                   ELSE \E j \in Turn(k)': NotOlder(x, submitted'[j])
    BY WrittenStays
<1>3. /\ \A k \in 1..Len(file) + Len(codec): Written(Kth(file, codec, k), k)
      /\ encoding = "send" => Written(videoFrame[0], Len(file) + Len(codec) + 1)
    BY DEF Fresh
<1> QED
    BY <1>1, <1>2, <1>3 DEF Fresh, Written, Kth, Entry, NotOlder

\* The encoder's thread reads the buffer of the entry it is commanded to take.
LEMMA FreshThread ==
    ASSUME EncoderAll(Images, Buffers), Fresh, DecoderTypeOK, EncodeLoop(Memory), UNCHANGED <<mem, gpuOutput, shows>>
    PROVE  Fresh'
<1> USE DEF encoderArguments, pool, link, encoderHistory
<1>K. UNCHANGED <<encodes, gpuInput, codecDelay, inputFrameCount, takes, submitted, refused, submittedBuffer>>
    BY DEF EncodeLoop, AckEntries, PacketFails, TakeCommand, FetchPicture, FetchFails, SendAgain, SendPicture,
        EncodeFails, Flush, FlushFails, MarkTerminated, AckTermination
<1>N. Len(codec) \in Nat /\ Len(file) \in Nat
    BY EncoderNumbers DEF EncoderAll
<1>T. codec \in Seq(Images \cup {NoPicture}) /\ file \in Seq(Images \cup {NoPicture})
    BY DEF EncoderAll, EncoderTyped
<1>1. CASE FlushFails
    BY <1>1 DEF FlushFails, Fresh
<1> SUFFICES ASSUME ~FlushFails, gpuInput, ~missed, missed' = missed PROVE Fresh'
    <2>1. ~FlushFails => missed' = missed
        BY DEF EncodeLoop, AckEntries, PacketFails, TakeCommand, FetchPicture, FetchFails, SendAgain, SendPicture,
            EncodeFails, Flush, MarkTerminated, AckTermination
    <2> QED
        BY <1>1, <1>K, <2>1 DEF Fresh
<1>F. /\ takes # "convert"
      /\ \A j \in 1..Len(submitted): j > Len(submitted) - EntryCount =>
            /\ submittedBuffer[Entry(j - 1)] \in Buffers
            /\ NotOlder(mem[submittedBuffer[Entry(j - 1)]], submitted[j])
      /\ \A k \in 1..Len(file) + Len(codec): Written(Kth(file, codec, k), k)
      /\ encoding = "send" => Written(videoFrame[0], Len(file) + Len(codec) + 1)
    BY DEF Fresh
<1>W. \A x, k: Written(x, k) => IF x = NoPicture
                                   THEN Released' /\ Len(submitted') - k < EntryCount - 1
                                   ELSE \E j \in Turn(k)': NotOlder(x, submitted'[j])
    <2>1. Released => Released'
        BY DEF Released
    <2> QED
        BY <2>1, <1>K, WrittenStays
\* It is enough that what was taken is still as it was, and what is in hand is known.
<1>2. ASSUME \A k \in 1..Len(file') + Len(codec'): Written(Kth(file', codec', k), k),
             encoding' = "send" => Written(videoFrame'[0], Len(file') + Len(codec') + 1)
      PROVE  Fresh'
    BY <1>2, <1>W, <1>K, <1>F DEF Fresh, Written, Kth, Entry, NotOlder
<1>3. CASE AckEntries \/ PacketFails \/ FetchFails(Memory) \/ EncodeFails \/ MarkTerminated \/ AckTermination
    <2>1. UNCHANGED <<file, codec>> /\ encoding' # "send"
        BY <1>3 DEF AckEntries, PacketFails, FetchFails, EncodeFails, MarkTerminated, AckTermination
    <2> QED
        BY <2>1, <1>2, <1>F
<1>4. CASE TakeCommand
    <2>1. UNCHANGED <<file, codec>> /\ encoding' # "send"
        BY <1>4 DEF TakeCommand
    <2> QED
        BY <2>1, <1>2, <1>F
<1>5. CASE FetchPicture(Memory)
    <2>1. /\ encoding = "fetch" /\ videoFrame' = [videoFrame EXCEPT ![0] = Memory[Fetched]]
          /\ UNCHANGED <<file, codec>>
        BY <1>5 DEF FetchPicture
    <2> DEFINE t == Len(file) + Len(codec) + 1
    <2>2. /\ Len(submitted) - t < EntryCount - 1
          /\ \E j \in Turn(t): j > Len(submitted) - EntryCount /\ Entry(j - 1) = Entry(encodeFrameCount)
        BY <2>1, ItsTurn DEF EncoderAll
    <2> HIDE DEF t
    <2>3. PICK j \in Turn(t): j > Len(submitted) - EntryCount /\ Entry(j - 1) = Entry(encodeFrameCount)
        BY <2>2
    <2>4. Fetched \in Buffers /\ NotOlder(mem[Fetched], submitted[j])
        BY <2>3, <1>F DEF Fetched, Turn
    <2>5. videoFrame'[0] = Memory[Fetched]
        <3>1. videoFrame \in [Entries -> Images \cup {NoPicture}] /\ 0 \in Entries
            BY DEF EncoderAll, EncoderTyped, Entries
        <3> QED
            BY <2>1, <3>1
    <2>6. Written(Memory[Fetched], t)
        <3>1. CASE Released
            <4>1. Memory[Fetched] = NoPicture
                BY <3>1, <2>4 DEF Memory
            <4> QED
                BY <3>1, <4>1, <2>2 DEF Written
        <3>2. CASE ~Released
            <4>1. Memory[Fetched] = mem[Fetched] /\ mem[Fetched] \in Images
                BY <3>2, <2>4 DEF Memory, DecoderTypeOK, Images
            <4>2. Memory[Fetched] # NoPicture
                BY <4>1, PipelineAssumption DEF Images
            <4> QED
                BY <4>1, <4>2, <2>3, <2>4 DEF Written
        <3> QED
            BY <3>1, <3>2
    <2> QED
        BY <2>1, <2>5, <2>6, <1>2, <1>F DEF t
<1>S. gpuInput => Sent = videoFrame[0]
    BY DEF Sent
<1>V. videoFrame[0] \in Images \cup {NoPicture}
    BY DEF EncoderAll, EncoderTyped, Entries
\* The codec takes the picture in hand.
<1>6. ASSUME encoding = "send", encoding' = "pop",
             Len(file') + Len(codec') = Len(file) + Len(codec) + 1,
             \A k \in 1..Len(file) + Len(codec): Kth(file', codec', k) = Kth(file, codec, k),
             Kth(file', codec', Len(file) + Len(codec) + 1) = videoFrame[0]
      PROVE  Fresh'
    <2> DEFINE n == Len(file) + Len(codec)
    <2>1. n \in Nat
        BY <1>N
    <2>2. ASSUME NEW k \in 1..n + 1 PROVE Written(Kth(file', codec', k), k)
        <3>1. k \in 1..n \/ k = n + 1
            BY <2>1
        <3>2. CASE k \in 1..n
            BY <3>2, <1>6, <1>F
        <3>3. CASE k = n + 1
            BY <3>3, <1>6, <1>F
        <3> QED
            BY <3>1, <3>2, <3>3
    <2> QED
        BY <2>2, <1>2, <1>6
<1>7. CASE SendAgain
    <2>1. encoding = "send" /\ encoding' = "pop" /\ codec' = Append(codec, videoFrame[0]) /\ file' = file
        BY <1>7, <1>S DEF SendAgain
    <2> DEFINE Q == Images \cup {NoPicture}
               x == videoFrame[0]
    <2>2. codec \in Seq(Q) /\ file \in Seq(Q) /\ x \in Q
        BY <1>T, <1>V
    <2>3. codec' = Append(codec, x) /\ file' = file
        BY <2>1
    <2> HIDE DEF Q, x
    <2>4. /\ \A k \in 1..Len(file) + Len(codec): Kth(file', codec', k) = Kth(file, codec, k)
          /\ Kth(file', codec', Len(file) + Len(codec) + 1) = x
        BY <2>2, <2>3, HandedOn
    <2>5. Len(codec') = Len(codec) + 1
        BY <2>2, <2>3, HoldAndWrite
    <2>6. Len(file') + Len(codec') = Len(file) + Len(codec) + 1
        BY <2>3, <2>5, <1>N
    <2> QED
        BY <2>1, <2>4, <2>6, <1>6 DEF x
<1>8. CASE SendPicture
    <2>1. /\ encoding = "send" /\ encoding' = "pop"
          /\ codec' = Tail(Append(codec, videoFrame[0])) /\ file' = Append(file, Head(Append(codec, videoFrame[0])))
        BY <1>8, <1>S DEF SendPicture
    <2> DEFINE Q == Images \cup {NoPicture}
               x == videoFrame[0]
    <2>2. codec \in Seq(Q) /\ file \in Seq(Q) /\ x \in Q
        BY <1>T, <1>V
    <2>3. codec' = Tail(Append(codec, x)) /\ file' = Append(file, Head(Append(codec, x)))
        BY <2>1
    <2> HIDE DEF Q, x
    <2>4. /\ \A k \in 1..Len(file) + Len(codec): Kth(file', codec', k) = Kth(file, codec, k)
          /\ Kth(file', codec', Len(file) + Len(codec) + 1) = x
        BY <2>2, <2>3, HandedThrough
    <2>5. Len(codec') = Len(codec) /\ Len(file') = Len(file) + 1
        BY <2>2, <2>3, HoldAndWrite
    <2>6. Len(file') + Len(codec') = Len(file) + Len(codec) + 1
        BY <2>5, <1>N
    <2> QED
        BY <2>1, <2>4, <2>6, <1>6 DEF x
<1>9. CASE Flush
    <2>1. CASE codec = <<>>
        <3>1. UNCHANGED <<file, codec>> /\ encoding' # "send"
            BY <1>9, <2>1 DEF Flush
        <3> QED
            BY <3>1, <1>2, <1>F
    <2>2. CASE codec # <<>>
        <3>1. file' = Append(file, Head(codec)) /\ codec' = Tail(codec) /\ encoding' # "send"
            BY <1>9, <2>2 DEF Flush
        <3> DEFINE Q == Images \cup {NoPicture}
        <3>2. codec \in Seq(Q) /\ file \in Seq(Q)
            BY <1>T
        <3> HIDE DEF Q
        <3>3. \A k \in 1..Len(file) + Len(codec): Kth(file', codec', k) = Kth(file, codec, k)
            <4>1. Head(codec) \in Q
                BY <3>2, <2>2, Shortened
            <4> QED
                BY <3>1, <3>2, <4>1, <2>2, HandedOn
        <3>4. Len(file') = Len(file) + 1 /\ Len(codec') = Len(codec) - 1
            <4>1. Len(file') = Len(file) + 1
                BY <3>1, <3>2, JoinOne
            <4>2. Len(codec') = Len(codec) - 1
                BY <3>1, <3>2, <2>2, Shortened
            <4> QED
                BY <4>1, <4>2
        <3>5. Len(file') + Len(codec') = Len(file) + Len(codec)
            BY <3>4, <1>N
        <3> QED
            BY <3>1, <3>3, <3>5, <1>2, <1>F
    <2> QED
        BY <2>1, <2>2
<1> QED
    BY <1>3, <1>4, <1>5, <1>7, <1>8, <1>9 DEF EncodeLoop

\* The node remembers the buffer of the image that it accepts.
LEMMA FreshNode ==
    ASSUME EncoderAll(Images, Buffers), Coupled, Decoding, Fresh, EncoderNode(Picture, buffer), UNCHANGED decoderVars
    PROVE  Fresh'
<1> USE DEF encoderArguments, pool, link, encoderHistory
<1>D. DecoderTypeOK /\ mem' = mem /\ (Released' <=> Released)
    BY DecoderTyped DEF decoderVars, image, arguments, node, Released
<1>K. UNCHANGED <<encodes, gpuInput, codecDelay, encoding, encodeFrameCount, file, codec>>
    BY DEF EncoderNode, TakeEntry, ConvertPicture, ConvertFails, UpdateBuffer, UpdateFails, Submit, SubmitFails,
        DrainAcks, TakeLastAck, JoinEncoder
<1>1. CASE ConvertFails \/ UpdateFails
    BY <1>1 DEF ConvertFails, UpdateFails, Fresh
<1> SUFFICES ASSUME ~ConvertFails, ~UpdateFails, gpuInput, ~missed PROVE Fresh'
    <2>1. ~ConvertFails /\ ~UpdateFails => missed' = missed
        BY DEF EncoderNode, TakeEntry, ConvertPicture, UpdateBuffer, Submit, SubmitFails, DrainAcks, TakeLastAck,
            JoinEncoder
    <2> QED
        BY <1>1, <1>K, <2>1 DEF Fresh
<1>F. /\ takes # "convert"
      /\ \A j \in 1..Len(submitted): j > Len(submitted) - EntryCount =>
            /\ submittedBuffer[Entry(j - 1)] \in Buffers
            /\ NotOlder(mem[submittedBuffer[Entry(j - 1)]], submitted[j])
      /\ \A k \in 1..Len(file) + Len(codec): Written(Kth(file, codec, k), k)
      /\ encoding = "send" => Written(videoFrame[0], Len(file) + Len(codec) + 1)
    BY DEF Fresh
<1>2. CASE TakeEntry \/ Submit \/ SubmitFails \/ DrainAcks \/ TakeLastAck \/ JoinEncoder
    <2>1. takes' # "convert" /\ UNCHANGED <<submitted, missed, videoFrame, submittedBuffer>>
        BY <1>2 DEF TakeEntry, Submit, SubmitFails, DrainAcks, TakeLastAck, JoinEncoder
    <2>2. \A x, k: Written(x, k) => IF x = NoPicture
                                       THEN Released' /\ Len(submitted') - k < EntryCount - 1
                                       ELSE \E j \in Turn(k)': NotOlder(x, submitted'[j])
        BY <2>1, <1>D, <1>K, WrittenStays
    <2> QED
        BY <2>1, <2>2, <1>D, <1>K, <1>F DEF Fresh, Written, Kth, Entry, NotOlder
<1>3. ~ConvertPicture(Picture)
    BY <1>F DEF ConvertPicture
<1>4. CASE UpdateBuffer(Picture, buffer)
    <2>1. /\ takes = "update" /\ takes' = "submit"
          /\ submittedBuffer' = [submittedBuffer EXCEPT ![Entry(inputFrameCount)] = buffer]
          /\ submitted' = Append(submitted, Picture) /\ Picture = mem[buffer]
          /\ UNCHANGED <<missed, videoFrame>>
        BY <1>4 DEF UpdateBuffer, Picture
    <2>2. inputFrameCount \in Nat /\ Len(submitted) \in Nat
        BY EncoderNumbers DEF EncoderAll
    <2>3. inputFrameCount = Len(submitted)
        BY DEF EncoderAll, EncoderInv, Accounts
    <2>S. submitted \in Seq(Images)
        BY DEF EncoderAll, EncoderTyped
    <2>4. /\ Len(submitted') = Len(submitted) + 1 /\ submitted'[Len(submitted) + 1] = mem[buffer]
          /\ \A k \in 1..Len(submitted): submitted'[k] = submitted[k]
        BY <2>1, <2>S, JoinOne
    \* The node runs before the pool is released.
    <2>R. ~Released
        <3>1. stage = "encode"
            BY <2>1 DEF Coupled, Tearing
        <3>2. mediaCount > 0 => shows = "out"
            BY <3>1 DEF Coupled
        <3>3. ~(mediaCount > 0) => shows = "idle"
            BY DEF Decoding, NoDecoder
        <3> QED
            BY <3>2, <3>3 DEF Released
    <2>5. \A x, k: Written(x, k) => IF x = NoPicture
                                       THEN Released' /\ Len(submitted') - k < EntryCount - 1
                                       ELSE \E j \in Turn(k)': NotOlder(x, submitted'[j])
        BY <2>1, <2>R, <2>S, <1>K, WrittenGrows
    <2>6. ASSUME NEW j \in 1..Len(submitted'), j > Len(submitted') - EntryCount
          PROVE  /\ submittedBuffer'[Entry(j - 1)] \in Buffers
                 /\ NotOlder(mem[submittedBuffer'[Entry(j - 1)]], submitted'[j])
        <3>1. j - 1 \in Int /\ inputFrameCount \in Int /\ EntryCount \in Nat \ {0} /\ EntryCount \in Int
            BY <2>2
        <3>2. Entry(j - 1) \in Entries /\ Entry(inputFrameCount) \in Entries
            BY <3>1, EntryType
        <3>3. submittedBuffer \in [Entries -> Buffers \cup {NoBuffer}]
            BY DEF EncoderAll, EncoderTyped
        <3>4. CASE j = Len(submitted) + 1
            <4>0. j - 1 = inputFrameCount
                BY <3>4, <2>2, <2>3
            <4>1. submittedBuffer'[Entry(j - 1)] = buffer /\ submitted'[j] = mem[buffer]
                BY <4>0, <2>1, <2>4, <3>2, <3>3, <3>4
            <4>2. buffer \in Buffers /\ mem[buffer] \in Images
                BY <1>D DEF DecoderTypeOK, Images
            <4>3. \A i \in Streams: mem[buffer][i] \in Int
                BY <4>2 DEF Images, NoFrame
            <4> QED
                BY <4>1, <4>2, <4>3 DEF NotOlder
        <3>5. CASE j # Len(submitted) + 1
            <4>1. /\ j \in 1..Len(submitted) /\ j > Len(submitted) - EntryCount
                  /\ j - 1 < inputFrameCount /\ inputFrameCount < (j - 1) + EntryCount
                <5> DEFINE l == Len(submitted)
                <5>1. l \in Nat /\ j \in 1..l + 1 /\ j > l + 1 - EntryCount /\ j # l + 1 /\ inputFrameCount = l
                    BY <3>5, <2>2, <2>3, <2>4, <2>6
                <5> HIDE DEF l
                <5>2. j \in 1..l /\ j > l - EntryCount /\ j - 1 < l /\ l < (j - 1) + EntryCount
                    BY <5>1, <3>1
                <5> QED
                    BY <5>1, <5>2 DEF l
            <4>2. Entry(j - 1) # Entry(inputFrameCount)
                BY <4>1, <3>1, SlotsDiffer DEF Entry
            <4>3. submittedBuffer'[Entry(j - 1)] = submittedBuffer[Entry(j - 1)] /\ submitted'[j] = submitted[j]
                BY <4>1, <4>2, <2>1, <2>4, <3>2, <3>3
            <4> QED
                BY <4>1, <4>3, <1>F
        <3> QED
            BY <3>4, <3>5
    <2> QED
        BY <2>1, <2>5, <2>6, <1>D, <1>K, <1>F DEF Fresh, Written, Kth, Entry, NotOlder
<1> QED
    BY <1>2, <1>3, <1>4 DEF EncoderNode

\* GPU mode, any codec, no picture lost half way: the encoder's thread reads the
\* buffer when it comes to it, so it may write a picture that came later than one
\* of its turn, but never an older one; unless the decoder has released the pool
\* meanwhile: of the pictures that waited then, fewer than the pool has entries,
\* any may be anything.
THEOREM NeverAnOlderPicture == Spec => []NeverOlder
<1>1. Init => Recent /\ Fresh /\ Coupled
    BY RecentInit, FreshInit, TranscodingInit
<1>2. Recent /\ Decoding /\ [Next]_vars => Recent' /\ Grows
    BY RecentStep
<1>3. Coupled /\ Decoding /\ EncoderAll(Images, Buffers) /\ [Next]_vars => Coupled'
    BY CoupledStep
<1>4. Fresh /\ Coupled /\ Recent /\ Decoding /\ Decoding' /\ EncoderAll(Images, Buffers) /\ [Next]_vars => Fresh'
    <2> SUFFICES ASSUME Fresh, Coupled, Recent, Decoding, Decoding', EncoderAll(Images, Buffers), [Next]_vars
                 PROVE  Fresh'
        OBVIOUS
    <2>T. DecoderTypeOK /\ DecoderTypeOK' /\ Grows
        <3>1. DecoderTypeOK'
            BY DEF Decoding, NoDecoder, Typed
        <3> QED
            BY <3>1, DecoderTyped, RecentStep
    <2>1. CASE EncoderRuns
        <3>1. UNCHANGED decoderVars /\ UNCHANGED <<mem, gpuOutput, shows>>
            BY <2>1 DEF EncoderRuns, decoderVars, image, arguments, node
        <3> QED
            BY <2>1, <2>T, <3>1, FreshThread, FreshNode DEF EncoderRuns
    <2>2. CASE EncodeFrame \/ Accepted \/ EncoderClose \/ UNCHANGED encoderVars
        <3>1. /\ UNCHANGED <<gpuInput, missed, codecDelay, file, codec, submitted, encoding, videoFrame, submittedBuffer>>
              /\ (takes' = takes \/ takes' \in {"wait", "idle", "drain"})
            BY <2>2 DEF EncodeFrame, Accepted, EncoderClose, encoderVars, encoderArguments, pool, link, encoderHistory
        <3>2. takes' # "convert" \/ ~(gpuInput /\ ~missed)
            BY <3>1 DEF Fresh
        <3>3. CASE takes' # "convert"
            <4>1. Released => Released'
                BY ReleasedStays
            <4> QED
                BY <2>T, <3>1, <3>3, <4>1, FreshWhileImagesChange
        <3>4. CASE ~(gpuInput /\ ~missed)
            BY <3>1, <3>4 DEF Fresh
        <3> QED
            BY <3>2, <3>3, <3>4
    <2>3. EncoderRuns \/ EncodeFrame \/ Accepted \/ EncoderClose \/ UNCHANGED encoderVars
        BY DEF Next, vars, Application, DecoderRuns, ExecuteDecoder, DrawAndEncode, DecoderSucceeds, DecoderFailed,
            EncoderReturns, ReleaseDecoder, ReleaseEncoder
    <2> QED
        BY <2>1, <2>2, <2>3
<1>5. Fresh /\ EncoderAll(Images, Buffers) => NeverOlder
    <2> SUFFICES ASSUME Fresh, EncoderAll(Images, Buffers), gpuInput, ~missed, NEW k \in 1..Len(file)
                 PROVE  IF file[k] = NoPicture
                           THEN Released /\ Len(submitted) - k < EntryCount - 1
                           ELSE \E j \in Turn(k): \A i \in Streams: file[k][i] >= submitted[j][i]
        BY DEF NeverOlder
    <2>1. k \in 1..Len(file) + Len(codec) /\ k <= Len(file)
        <3>1. Len(file) \in Nat /\ Len(codec) \in Nat
            BY EncoderNumbers DEF EncoderAll
        <3> QED
            BY <3>1
    <2>2. Written(Kth(file, codec, k), k)
        BY <2>1 DEF Fresh
    <2> QED
        BY <2>1, <2>2 DEF Kth, Written, NotOlder
<1> QED
    BY <1>1, <1>2, <1>3, <1>4, <1>5, DecoderHolds, EncoderHolds, PTL DEF Spec

------------------------------------------------------------------------------
(***************************************************************************)
(* Nobody waits for ever.                                                  *)
(***************************************************************************)
\* Every entry of the pool but one is free, submitted, in the thread's or in
\* ProcessFrame's hands.
AllPromised ==
    encoding \in {"pop", "fetch", "send"} /\ ~Tearing /\ ~missed =>
        Len(acks) + Len(commands) + Encoding + Filling = EntryCount - 1

\* The last acknowledgement is still there for the call, or the destructor,
\* that will ask for it.
TerminationIsTold ==
    encoding = "exit" /\ threadTerminated /\ ((~Tearing /\ ~refused) \/ takes = "take") => acks # <<>>

JoinsTerminated == takes = "join" => threadTerminated

Promised == AllPromised /\ TerminationIsTold /\ JoinsTerminated

\* The thread can do nothing.
EncoderRests == encoding = "exit" \/ (encoding = "pop" /\ commands = <<>>)

\* A callback can do nothing.
EncoderWaits ==
    \/ takes \in {"wait", "take"} /\ acks = <<>>
    \/ takes = "join" /\ encoding # "exit"

\* Both rest only when the thread is gone without a word, or a call follows one
\* that was refused or has lost its entry.
EncoderGoesOn ==
    encodes /\ EncoderWaits /\ EncoderRests => EncoderSilent \/ (takes = "wait" /\ (refused \/ missed))

LEMMA PromisedInit == EncoderInit => Promised
BY DEF EncoderInit, Promised, AllPromised, TerminationIsTold, JoinsTerminated

LEMMA PromisedThread ==
    ASSUME NEW P, NEW B, EncoderTyped(P, B), EncoderInv, Promised, NEW memory, EncodeLoop(memory)
    PROVE  Promised'
<1> USE DEF encoderArguments, pool, link, encoderHistory
<1>N. /\ acks \in Seq({0, -1}) /\ commands \in Seq({"encode", "abort"})
      /\ Len(acks) \in Nat /\ Len(commands) \in Nat /\ Filling \in 0..1
    BY EncoderNumbers
<1>I. Terminates /\ Room
    BY DEF EncoderInv
<1>D. AllPromised /\ TerminationIsTold /\ JoinsTerminated
    BY DEF Promised
<1>K. UNCHANGED <<takes, refused>> /\ (Tearing' <=> Tearing) /\ Filling' = Filling
    BY DEF EncodeLoop, AckEntries, PacketFails, TakeCommand, FetchPicture, FetchFails, SendAgain, SendPicture,
        EncodeFails, Flush, FlushFails, MarkTerminated, AckTermination, Tearing, Filling
<1>1. ASSUME encoding' \in {"start", "flush", "stop", "tell"}, threadTerminated => threadTerminated' PROVE Promised'
    BY <1>1, <1>K, <1>D DEF Promised, AllPromised, TerminationIsTold, JoinsTerminated
<1>2. CASE FetchFails(memory) \/ EncodeFails \/ Flush \/ FlushFails \/ MarkTerminated
    BY <1>2, <1>1 DEF FetchFails, EncodeFails, Flush, FlushFails, MarkTerminated
<1>3. CASE AckEntries
    <2>1. /\ encoding = "start" /\ encoding' = "pop" /\ acks' = [k \in 1..EntryCount - 1 |-> 0]
          /\ UNCHANGED <<commands, threadTerminated, missed>>
        BY <1>3 DEF AckEntries
    <2>2. Len(acks') = EntryCount - 1 /\ Encoding' = 0
        BY <2>1 DEF Encoding
    <2>3. Filling = 0 /\ (~Tearing => Len(commands) = 0)
        BY <2>1, <1>I, EncoderNumbers DEF Room
    <2>4. AllPromised'
        BY <2>1, <2>2, <2>3, <1>K DEF AllPromised
    <2> QED
        BY <2>1, <2>4, <1>K, <1>D DEF Promised, TerminationIsTold, JoinsTerminated
<1>4. CASE PacketFails
    <2>1. encoding = "start" /\ encoding' = "exit" /\ threadTerminated' = threadTerminated
        BY <1>4 DEF PacketFails
    <2>2. ~threadTerminated
        BY <2>1, <1>I DEF Terminates
    <2> QED
        BY <2>1, <2>2, <1>K, <1>D DEF Promised, AllPromised, TerminationIsTold, JoinsTerminated
<1>5. CASE TakeCommand
    <2>1. /\ encoding = "pop" /\ commands # <<>> /\ commands' = Tail(commands) /\ encoding' \in {"flush", "fetch", "send"}
          /\ UNCHANGED <<acks, threadTerminated, missed>>
        BY <1>5 DEF TakeCommand
    <2>2. Len(Tail(commands)) = Len(commands) - 1
        BY <2>1, <1>N, Shortened
    <2>3. AllPromised'
        <3> SUFFICES ASSUME encoding' \in {"fetch", "send"}, ~Tearing, ~missed
                     PROVE  Len(acks) + Len(commands') + Encoding' + Filling = EntryCount - 1
            BY <2>1, <1>K DEF AllPromised
        <3>1. Len(acks) + Len(commands) + 0 + Filling = EntryCount - 1
            BY <2>1, <1>D DEF AllPromised, Encoding
        <3>2. Encoding' = 1 /\ Len(commands') = Len(commands) - 1
            BY <2>1, <2>2 DEF Encoding
        <3> DEFINE a == Len(acks)
                   c == Len(commands)
                   f == Filling
        <3>3. a \in Int /\ c \in Int /\ f \in Int
            BY <1>N
        <3> HIDE DEF a, c, f
        <3>4. a + (c - 1) + 1 + f = a + c + 0 + f
            BY <3>3
        <3> QED
            BY <3>1, <3>2, <3>4 DEF a, c, f
    <2> QED
        BY <2>1, <2>3, <1>K, <1>D DEF Promised, TerminationIsTold, JoinsTerminated
<1>6. CASE FetchPicture(memory)
    <2>1. encoding = "fetch" /\ encoding' = "send" /\ UNCHANGED <<acks, commands, threadTerminated, missed>>
        BY <1>6 DEF FetchPicture
    <2>2. Encoding' = Encoding
        BY <2>1 DEF Encoding
    <2> QED
        BY <2>1, <2>2, <1>K, <1>D DEF Promised, AllPromised, TerminationIsTold, JoinsTerminated
<1>7. CASE SendAgain \/ SendPicture
    <2>1. /\ encoding = "send" /\ encoding' = "pop" /\ acks' = Append(acks, 0)
          /\ UNCHANGED <<commands, threadTerminated, missed>>
        BY <1>7 DEF SendAgain, SendPicture
    <2>2. Len(Append(acks, 0)) = Len(acks) + 1
        BY <1>N
    <2>3. AllPromised'
        <3> SUFFICES ASSUME ~Tearing, ~missed
                     PROVE  Len(acks') + Len(commands) + Encoding' + Filling = EntryCount - 1
            BY <2>1, <1>K DEF AllPromised
        <3>1. Len(acks) + Len(commands) + 1 + Filling = EntryCount - 1
            BY <2>1, <1>D DEF AllPromised, Encoding
        <3>2. Encoding' = 0 /\ Len(acks') = Len(acks) + 1
            BY <2>1, <2>2 DEF Encoding
        <3> DEFINE a == Len(acks)
                   c == Len(commands)
                   f == Filling
        <3>3. a \in Int /\ c \in Int /\ f \in Int
            BY <1>N
        <3> HIDE DEF a, c, f
        <3>4. (a + 1) + c + 0 + f = a + c + 1 + f
            BY <3>3
        <3> QED
            BY <3>1, <3>2, <3>4 DEF a, c, f
    <2> QED
        BY <2>1, <2>3, <1>K, <1>D DEF Promised, TerminationIsTold, JoinsTerminated
<1>8. CASE AckTermination
    <2>1. encoding' = "exit" /\ acks' = Append(acks, -1) /\ threadTerminated' = threadTerminated
        BY <1>8 DEF AckTermination
    <2>2. Append(acks, -1) # <<>>
        BY <1>N
    <2> QED
        BY <2>1, <2>2, <1>K, <1>D DEF Promised, AllPromised, TerminationIsTold, JoinsTerminated
<1> QED
    BY <1>2, <1>3, <1>4, <1>5, <1>6, <1>7, <1>8 DEF EncodeLoop

LEMMA PromisedCall ==
    ASSUME NEW P, NEW B, EncoderTyped(P, B), EncoderInv, Promised, NEW picture, NEW buf, EncoderCall(picture, buf)
    PROVE  Promised'
<1> USE DEF encoderArguments, pool, link, encoderHistory
<1>N. /\ acks \in Seq({0, -1}) /\ commands \in Seq({"encode", "abort"})
      /\ Len(acks) \in Nat /\ Len(commands) \in Nat /\ Encoding \in 0..1
    BY EncoderNumbers
<1>I. Terminates
    BY DEF EncoderInv
<1>D. AllPromised /\ TerminationIsTold /\ JoinsTerminated
    BY DEF Promised
<1>K. UNCHANGED <<encoding, threadTerminated>> /\ Encoding' = Encoding
    BY DEF EncoderCall, EncoderNode, TakeEntry, ConvertPicture, ConvertFails, UpdateBuffer, UpdateFails, Submit, SubmitFails,
        DrainAcks, TakeLastAck, JoinEncoder, EncodeFrame, Accepted, EncoderClose, Encoding
\* A call goes on without a queue.
<1>1. ASSUME ~Tearing, ~Tearing', UNCHANGED <<acks, commands, refused>>, missed' \/ (missed' = missed /\ Filling' = Filling)
      PROVE  Promised'
    <2>1. takes # "take" /\ takes' # "take" /\ takes' # "join"
        BY <1>1 DEF Tearing
    <2> QED
        BY <2>1, <1>1, <1>K, <1>D DEF Promised, AllPromised, TerminationIsTold, JoinsTerminated
<1>2. CASE EncodeFrame \/ Accepted \/ ConvertPicture(picture) \/ ConvertFails \/ UpdateBuffer(picture, buf) \/ UpdateFails
    <2>1. /\ ~Tearing /\ ~Tearing' /\ UNCHANGED <<acks, commands, refused>>
          /\ missed' \/ (missed' = missed /\ Filling' = Filling)
        BY <1>2 DEF EncodeFrame, Accepted, ConvertPicture, ConvertFails, UpdateBuffer, UpdateFails, Tearing, Filling
    <2> QED
        BY <2>1, <1>1
<1>3. CASE TakeEntry
    <2>1. /\ takes = "wait" /\ acks # <<>> /\ acks' = Tail(acks) /\ UNCHANGED <<commands, missed>>
          /\ takes' \in {"idle", "update", "convert"}
        BY <1>3 DEF TakeEntry
    <2>2. ~Tearing /\ ~Tearing' /\ takes' # "take" /\ takes' # "join" /\ Filling = 0
        BY <2>1 DEF Tearing, Filling
    <2>3. /\ Len(Tail(acks)) = Len(acks) - 1 /\ Head(acks) = acks[1] /\ 1 \in 1..Len(acks) /\ Head(acks) \in {0, -1}
        <3>1. /\ Len(Tail(acks)) = Len(acks) - 1 /\ Head(acks) = acks[1] /\ Len(acks) \in Nat \ {0} /\ Head(acks) \in {0, -1}
            BY <2>1, <1>N, Shortened
        <3> QED
            BY <3>1
    <2>4. CASE threadTerminated
        <3>1. refused' /\ encoding \in {"tell", "exit"}
            BY <1>3, <2>4, <1>I DEF TakeEntry, Terminates
        <3> QED
            BY <3>1, <2>2, <1>K DEF Promised, AllPromised, TerminationIsTold, JoinsTerminated
    <2>5. CASE ~threadTerminated
        <3>1. ~(Head(acks) < 0)
            BY <2>3, <2>5, <1>I DEF Terminates
        <3>2. takes' \in {"update", "convert"}
            BY <1>3, <2>5, <3>1 DEF TakeEntry
        <3>3. Filling' = 1
            BY <3>2 DEF Filling
        <3>4. AllPromised'
            <4> SUFFICES ASSUME encoding \in {"pop", "fetch", "send"}, ~missed
                         PROVE  (Len(acks) - 1) + Len(commands) + Encoding + 1 = EntryCount - 1
                BY <2>1, <2>2, <2>3, <3>3, <1>K DEF AllPromised
            <4>1. Len(acks) + Len(commands) + Encoding + 0 = EntryCount - 1
                BY <2>2, <1>D DEF AllPromised
            <4> DEFINE a == Len(acks)
                       c == Len(commands)
                       e == Encoding
            <4>2. a \in Int /\ c \in Int /\ e \in Int
                BY <1>N
            <4> HIDE DEF a, c, e
            <4>3. (a - 1) + c + e + 1 = a + c + e + 0
                BY <4>2
            <4> QED
                BY <4>1, <4>3 DEF a, c, e
        <3> QED
            BY <2>2, <2>5, <3>4, <1>K DEF Promised, TerminationIsTold, JoinsTerminated
    <2> QED
        BY <2>4, <2>5
<1>4. CASE Submit \/ SubmitFails
    <2>1. /\ takes = "submit" /\ takes' \in {"out", "idle"} /\ commands' = Append(commands, "encode")
          /\ UNCHANGED <<acks, missed, refused>>
        BY <1>4 DEF Submit, SubmitFails
    <2>2. /\ ~Tearing /\ ~Tearing' /\ takes # "take" /\ takes' # "take" /\ takes' # "join" /\ Filling = 1 /\ Filling' = 0
          /\ Len(commands') = Len(commands) + 1
        <3>1. Len(Append(commands, "encode")) = Len(commands) + 1
            BY <1>N
        <3> QED
            BY <3>1, <2>1 DEF Tearing, Filling
    <2>3. AllPromised'
        <3> SUFFICES ASSUME encoding \in {"pop", "fetch", "send"}, ~missed
                     PROVE  Len(acks) + (Len(commands) + 1) + Encoding + 0 = EntryCount - 1
            BY <2>1, <2>2, <1>K DEF AllPromised
        <3>1. Len(acks) + Len(commands) + Encoding + 1 = EntryCount - 1
            BY <2>2, <1>D DEF AllPromised
        <3> DEFINE a == Len(acks)
                   c == Len(commands)
                   e == Encoding
        <3>2. a \in Int /\ c \in Int /\ e \in Int
            BY <1>N
        <3> HIDE DEF a, c, e
        <3>3. a + (c + 1) + e + 0 = a + c + e + 1
            BY <3>2
        <3> QED
            BY <3>1, <3>3 DEF a, c, e
    <2> QED
        BY <2>1, <2>2, <2>3, <1>K, <1>D DEF Promised, TerminationIsTold, JoinsTerminated
\* The destructor.
<1>5. CASE EncoderClose \/ JoinEncoder
    <2>1. Tearing' /\ takes' \in {"drain", "gone"}
        BY <1>5 DEF EncoderClose, JoinEncoder, Tearing
    <2> QED
        BY <2>1 DEF Promised, AllPromised, TerminationIsTold, JoinsTerminated
<1>6. CASE DrainAcks
    <2>1. Tearing' /\ takes' = (IF threadTerminated THEN "join" ELSE "take")
        BY <1>6 DEF DrainAcks, Tearing
    <2> QED
        BY <2>1, <1>K DEF Promised, AllPromised, TerminationIsTold, JoinsTerminated
<1>7. CASE TakeLastAck
    <2>1. /\ acks # <<>> /\ takes' = (IF Head(acks) < 0 THEN "join" ELSE "drain") /\ Tearing'
        BY <1>7 DEF TakeLastAck, Tearing
    <2>2. Head(acks) = acks[1] /\ 1 \in 1..Len(acks) /\ Head(acks) \in {0, -1}
        <3>1. Head(acks) = acks[1] /\ Len(acks) \in Nat \ {0} /\ Head(acks) \in {0, -1}
            BY <2>1, <1>N, Shortened
        <3> QED
            BY <3>1
    <2>3. Head(acks) < 0 => threadTerminated
        BY <2>2, <1>I DEF Terminates
    <2> QED
        BY <2>1, <2>3, <1>K DEF Promised, AllPromised, TerminationIsTold, JoinsTerminated
<1> QED
    BY <1>2, <1>3, <1>4, <1>5, <1>6, <1>7 DEF EncoderCall, EncoderNode

LEMMA PromisedStep ==
    ASSUME NEW P, NEW B, EncoderAll(P, B), Promised, EncoderStep(P, B) \/ UNCHANGED encoderVars
    PROVE  Promised'
<1> USE DEF EncoderAll
<1>1. CASE UNCHANGED encoderVars
    BY <1>1 DEF encoderVars, encoderArguments, link, pool, encoderHistory, Promised, AllPromised, TerminationIsTold,
        JoinsTerminated, Tearing, Encoding, Filling
<1>2. ASSUME NEW memory, EncodeLoop(memory) PROVE Promised'
    BY <1>2, PromisedThread
<1>3. ASSUME NEW picture, NEW buf, EncoderCall(picture, buf) PROVE Promised'
    BY <1>3, PromisedCall
<1>4. CASE EncoderStep(P, B)
    <2>1. CASE \E memory \in [B -> P \cup {NoPicture}]: EncodeLoop(memory)
        BY <2>1, <1>2
    <2>2. CASE \E picture \in P, buf \in B: EncoderNode(picture, buf)
        BY <2>2, <1>3 DEF EncoderCall
    <2>3. CASE EncodeFrame \/ Accepted \/ EncoderClose
        <3>1. EncoderCall(0, 0)
            BY <2>3 DEF EncoderCall
        <3> QED
            BY <3>1, <1>3
    <2> QED
        BY <1>4, <2>1, <2>2, <2>3 DEF EncoderStep
<1> QED
    BY <1>1, <1>4

LEMMA EncoderCannotHang == ASSUME NEW P, NEW B, EncoderAll(P, B), Promised PROVE EncoderGoesOn
<1> SUFFICES ASSUME EncoderWaits, EncoderRests, ~EncoderSilent, ~(takes = "wait" /\ (refused \/ missed)) PROVE FALSE
    BY DEF EncoderGoesOn
<1>N. /\ acks \in Seq({0, -1}) /\ commands \in Seq({"encode", "abort"})
    BY EncoderNumbers DEF EncoderAll
<1>I. Terminates /\ AbortIsLast /\ AllPromised /\ TerminationIsTold /\ JoinsTerminated
    BY DEF EncoderAll, EncoderInv, Promised
<1>R. (encoding = "exit" /\ threadTerminated) \/ (encoding = "pop" /\ commands = <<>> /\ ~threadTerminated)
    BY <1>I DEF EncoderRests, EncoderSilent, Terminates
<1>1. CASE takes = "wait" /\ acks = <<>>
    <2>1. ~Tearing /\ Filling = 0 /\ Len(acks) = 0
        BY <1>1 DEF Tearing, Filling
    <2>2. ~refused /\ ~missed
        BY <1>1
    <2>3. encoding = "pop" /\ Len(commands) = 0
        BY <2>1, <2>2, <1>1, <1>R, <1>I DEF TerminationIsTold
    <2>4. 0 + 0 + 0 + 0 = EntryCount - 1
        BY <2>1, <2>2, <2>3, <1>I DEF AllPromised, Encoding
    <2> QED
        BY <2>4
<1>2. CASE takes = "take" /\ acks = <<>>
    <2>1. encoding = "pop" /\ commands = <<>>
        BY <1>2, <1>R, <1>I DEF TerminationIsTold
    <2> QED
        BY <1>2, <2>1, <1>I DEF AbortIsLast, Working, Tearing
<1>3. CASE takes = "join" /\ encoding # "exit"
    BY <1>3, <1>R, <1>I DEF JoinsTerminated
<1> QED
    BY <1>1, <1>2, <1>3 DEF EncoderWaits

\* Alone, on any images: ProcessFrame and the destructor of an encoder never
\* wait for a thread of EncodeLoop that waits for them, unless the thread ended
\* without a word, or the call follows one that was refused or kept its entry.
THEOREM EncoderNeverHangs == EncoderSpec => []EncoderGoesOn
<1>1. EncoderInit => EncoderAll(Pictures, GPUBuffers) /\ Promised
    BY EncoderAllInit, PromisedInit
<1>2. EncoderAll(Pictures, GPUBuffers) /\ Promised /\ [EncoderNext]_encoderVars
         => EncoderAll(Pictures, GPUBuffers)' /\ Promised'
    <2> SUFFICES ASSUME EncoderAll(Pictures, GPUBuffers), Promised, [EncoderNext]_encoderVars
                 PROVE  EncoderAll(Pictures, GPUBuffers)' /\ Promised'
        OBVIOUS
    <2>1. EncoderStep(Pictures, GPUBuffers) \/ UNCHANGED encoderVars
        BY DEF EncoderNext, EncoderStep
    <2> QED
        BY <2>1, EncoderAllStep, PromisedStep
<1>3. EncoderAll(Pictures, GPUBuffers) /\ Promised => EncoderGoesOn
    BY EncoderCannotHang
<1> QED
    BY <1>1, <1>2, <1>3, PTL DEF EncoderSpec

\* In every graph the calls and the destructors of both nodes go on: whenever
\* one waits, what it waits for has come or its thread has something to do.  The
\* exceptions are those of the nodes alone: a thread that fell silent, a call after
\* one that was abandoned, refused or kept its entry, and a flag of eof that was
\* lost when a call has taken that stream's last word.
THEOREM NobodyHangs == Spec => [](DecoderGoesOn /\ EncoderGoesOn)
<1>1. Spec /\ mediaCount > 0 => []DecoderGoesOn
    BY DecoderInGraph, DecoderNeverHangs, PTL
<1>2. NoDecoder => DecoderGoesOn
    BY DEF NoDecoder, DecoderGoesOn, DecoderWaits
<1>3. NoDecoder /\ [Next]_vars => NoDecoder'
    BY NoDecoderStep
<1>4. Spec => []DecoderGoesOn
    BY <1>1, <1>2, <1>3, InitiallyNoDecoder, PTL DEF Spec
<1>5. Init => Promised
    BY PromisedInit DEF Init
<1>6. EncoderAll(Images, Buffers) /\ Decoding /\ Promised /\ [Next]_vars => Promised'
    <2> SUFFICES ASSUME EncoderAll(Images, Buffers), Decoding, Promised, [Next]_vars PROVE Promised'
        OBVIOUS
    <2>1. EncoderStep(Images, Buffers) \/ UNCHANGED encoderVars
        BY DecoderTyped, EncoderSees
    <2> QED
        BY <2>1, PromisedStep
<1>7. EncoderAll(Images, Buffers) /\ Promised => EncoderGoesOn
    BY EncoderCannotHang
<1>8. Spec => []EncoderGoesOn
    BY <1>5, <1>6, <1>7, EncoderHolds, DecoderHolds, PTL DEF Spec
<1> QED
    BY <1>4, <1>8, PTL
==============================================================================
