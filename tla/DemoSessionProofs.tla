--------------------------- MODULE DemoSessionProofs ---------------------------
(***************************************************************************)
(* One upload of the demo application, of any number of chunks and with any*)
(* number of replies: the page is told one outcome, and the input of the   *)
(* controller is the preamble, the chunks in their order and the end.      *)
(* Then the build of the pipeline behind it, PipelineBuild, for any number *)
(* of builds: one that succeeds leaves nothing older than itself.          *)
(***************************************************************************)
EXTENDS DemoSession, PipelineBuild, SequenceTheorems, TLAPS

-----------------------------------------------------------------------------
(* The inductive invariant.                                                *)

(* The messages on the socket and on the call.                             *)
Message == {<<"config">>, <<"end">>, <<"close">>} \cup {<<"chunk", n>> : n \in 1 .. MaxChunks}
Setting == {<<"controller_config">>, <<"asd_config">>, <<"lipsync_config">>,
            <<"diarization_info">>, <<"s2s_config">>}
Piece   == Setting \cup {<<"end">>} \cup {<<"data", n>> : n \in 1 .. MaxChunks}

TypeInv ==
  /\ option \in [enabled : BOOLEAN, isolation : BOOLEAN, diarization : Diarization]
  /\ custom \in BOOLEAN
  /\ config \in BOOLEAN
  /\ sent \in 0 .. MaxChunks + 1
  /\ up \in Seq(Message)
  /\ preprocess \in BOOLEAN
  /\ buffer \in Seq(1 .. MaxChunks)
  /\ doing \in {"receiving", "preprocessing", "waiting", "closed", "closed_preprocessing"}
  /\ call \in {"none", "open", "over"}
  /\ wire \in Seq(Piece)
  /\ replies \in Seq({"video", "ok", "failed"})
  /\ returned \in Nat
  /\ file \in Nat
  /\ ffmpeg \in {"none", "up", "failed", "killed", "finalizing", "done", "unwritten"}
  /\ outcomes \in Seq({"error", "result"})

(* The replies that are still to be read: video, and at most one message   *)
(* after it, which ends the call.                                          *)
VideoOnly(q) == \A i \in 1 .. Len(q) : q[i] = "video"
VideoThen(q) == /\ Len(q) > 0
                /\ \A i \in 1 .. Len(q) - 1 : q[i] = "video"
                /\ q[Len(q)] # "video"

OutcomeInv ==
  /\ call = "none" => /\ replies = <<>> /\ returned = 0 /\ file = 0
                      /\ outcomes = <<>> /\ ffmpeg = "none"
  /\ call = "open" => /\ VideoOnly(replies) /\ file + Len(replies) = returned
                      /\ outcomes = <<>> /\ ffmpeg \in {"up", "failed"}
  /\ call = "over" =>
       \/ /\ VideoThen(replies)
          /\ replies[Len(replies)] = "ok" => Ended /\ file + Len(replies) = returned + 1
          /\ outcomes = <<>> /\ ffmpeg \in {"up", "failed", "killed"}
       \/ /\ replies = <<>> /\ outcomes = <<>> /\ ffmpeg = "finalizing"
          /\ Ended /\ file = returned
       \/ replies = <<>> /\ outcomes = <<>> /\ ffmpeg = "unwritten"
       \/ /\ replies = <<>> /\ Len(outcomes) = 1 /\ ffmpeg # "finalizing"
          /\ outcomes = <<"result">> => Ended /\ file = returned

(* The messages of the page that are under way: chunks in their order, and *)
(* the end behind the last of them.                                        *)
UpInv ==
  /\ \A i, k \in 1 .. Len(up) :
       i < k /\ up[i][1] = "chunk" /\ up[k][1] = "chunk" => up[i][2] < up[k][2]
  /\ \A i, k \in 1 .. Len(up) : i < k /\ up[i][1] = "end" => up[k][1] \notin {"chunk", "end"}
  /\ \A i \in 1 .. Len(up) : up[i][1] = "chunk" => up[i][2] <= sent
  /\ \A i \in 1 .. Len(up) : up[i][1] = "end" => sent = MaxChunks + 1
  /\ doing \in {"preprocessing", "waiting"} =>
       sent = MaxChunks + 1 /\ \A i \in 1 .. Len(up) : up[i][1] \notin {"chunk", "end"}

(* A chunk was taken from the socket: those under way come after it.       *)
Taken(n, s, q) == n <= s /\ \A i \in 1 .. Len(q) : q[i][1] = "chunk" => n < q[i][2]

Rising(chunks) == \A i, k \in 1 .. Len(chunks) : i < k => chunks[i] < chunks[k]

(* The preamble, then chunks in order, and nothing behind the end.         *)
Behind(w, n) ==
  /\ \A i \in n + 1 .. Len(w) : w[i][1] = "data" \/ (w[i] = <<"end">> /\ i = Len(w))
  /\ \A i, k \in n + 1 .. Len(w) : i < k /\ w[k][1] = "data" => w[i][2] < w[k][2]
Ordered(w) ==
  \E d \in BOOLEAN :
    /\ Len(Preamble(d)) <= Len(w)
    /\ \A i \in 1 .. Len(Preamble(d)) : w[i] = Preamble(d)[i]
    /\ Behind(w, Len(Preamble(d)))

(* The configuration, early or late, turns the preprocessing off for good; *)
(* before that, and before the preprocessing is done, nothing is sent.     *)
Preprocesses == option.enabled /\ (option.isolation \/ option.diarization = "none")

InputInv ==
  /\ ~preprocess => ~Preprocesses
  /\ (preprocess /\ doing = "receiving") \/ doing \in {"preprocessing", "closed_preprocessing"} =>
       call = "none"
  /\ call = "none" => wire = <<>>
  /\ doing = "receiving" => \A i \in 1 .. Len(wire) : wire[i][1] # "end"
  /\ Rising(buffer)
  /\ \A i \in 1 .. Len(buffer) : Taken(buffer[i], sent, up)
  /\ \A i \in 1 .. Len(wire) : wire[i][1] = "data" => Taken(wire[i][2], sent, up)
  /\ call # "none" => Ordered(wire)

(* The messages to the page.                                               *)
DownInv == down \in Seq({"preview", "error", "result"})

Inv == TypeInv /\ DownInv /\ OutcomeInv /\ UpInv /\ InputInv

-----------------------------------------------------------------------------
(* Sequences of pieces.                                                    *)

(* The configurations come before the media.                               *)
LEMMA PreambleType ==
  ASSUME NEW d \in BOOLEAN
  PROVE  Preamble(d) \in Seq(Setting) /\ Preamble(d) # <<>>
PROOF
  <1>1. /\ <<<<"controller_config">>>> \in Seq(Setting) /\ <<<<"asd_config">>>> \in Seq(Setting)
        /\ <<<<"lipsync_config">>>> \in Seq(Setting) /\ <<<<"diarization_info">>>> \in Seq(Setting)
        /\ <<<<"s2s_config">>>> \in Seq(Setting) /\ <<>> \in Seq(Setting)
    BY DEF Setting
  <1>2. \A s, t \in Seq(Setting) : s \o t \in Seq(Setting)
    OBVIOUS
  <1>3. \A s \in Seq(Setting) : s \o <<<<"s2s_config">>>> # <<>>
    <2> TAKE s \in Seq(Setting)
    <2>1. Len(s \o <<<<"s2s_config">>>>) = Len(s) + 1
      BY <1>1, ConcatProperties
    <2> QED BY <2>1, EmptySeq
  <1> DEFINE two == IF d THEN <<<<"asd_config">>>> ELSE <<>>
             four == IF d THEN <<<<"diarization_info">>>> ELSE <<>>
             most == ((<<<<"controller_config">>>> \o two) \o <<<<"lipsync_config">>>>) \o four
  <1>4. two \in Seq(Setting) /\ four \in Seq(Setting)
    BY <1>1
  <1>5. most \in Seq(Setting)
    <2> HIDE DEF two, four
    <2> QED BY <1>1, <1>2, <1>4
  <1>6. Preamble(d) = most \o <<<<"s2s_config">>>>
    BY DEF Preamble
  <1> HIDE DEF most
  <1> QED BY <1>1, <1>2, <1>3, <1>5, <1>6

(* The chunks as pieces.                                                   *)
LEMMA FlatType ==
  ASSUME NEW chunks \in Seq(1 .. MaxChunks)
  PROVE  /\ Flat(chunks) \in Seq(Piece)
         /\ Len(Flat(chunks)) = Len(chunks)
         /\ \A i \in 1 .. Len(chunks) : Flat(chunks)[i] = <<"data", chunks[i]>>
PROOF
  <1>1. DOMAIN chunks = 1 .. Len(chunks) /\ Len(chunks) \in Nat
    OBVIOUS
  <1>2. \A i \in 1 .. Len(chunks) : <<"data", chunks[i]>> \in Piece
    <2>1. \A m \in 1 .. MaxChunks : <<"data", m>> \in Piece
      BY DEF Piece
    <2> QED BY <2>1, ElementOfSeq
  <1>3. Flat(chunks) = [i \in 1 .. Len(chunks) |-> <<"data", chunks[i]>>]
    BY <1>1 DEF Flat
  <1>4. Flat(chunks) \in [1 .. Len(chunks) -> Piece]
    BY <1>2, <1>3
  <1>5. Flat(chunks) \in Seq(Piece)
    BY <1>1, <1>4, SeqDef
  <1>6. Len(Flat(chunks)) = Len(chunks)
    BY <1>1, <1>4, <1>5, LenProperties
  <1> QED BY <1>3, <1>5, <1>6

(* What is written at once: the parts, one behind the other.               *)
LEMMA Parts ==
  ASSUME NEW p \in Seq(Piece), NEW f \in Seq(Piece), NEW m \in Seq(Piece)
  PROVE  /\ p \o f \o m \in Seq(Piece)
         /\ Len(p \o f \o m) = Len(p) + Len(f) + Len(m)
         /\ Len(p) \in Nat /\ Len(f) \in Nat /\ Len(m) \in Nat
         /\ \A i \in 1 .. Len(p) + Len(f) + Len(m) :
              (p \o f \o m)[i] = IF i <= Len(p) THEN p[i]
                                ELSE IF i <= Len(p) + Len(f) THEN f[i - Len(p)]
                                ELSE m[i - (Len(p) + Len(f))]
PROOF
  <1>1. /\ p \o f \in Seq(Piece) /\ Len(p \o f) = Len(p) + Len(f)
        /\ \A i \in 1 .. Len(p) + Len(f) : (p \o f)[i] = IF i <= Len(p) THEN p[i] ELSE f[i - Len(p)]
    BY ConcatProperties
  <1>2. Len(p) \in Nat /\ Len(f) \in Nat /\ Len(m) \in Nat
    BY LenProperties
  <1> DEFINE both == p \o f
  <1>3. /\ both \o m \in Seq(Piece) /\ Len(both \o m) = Len(both) + Len(m)
        /\ \A i \in 1 .. Len(both) + Len(m) :
             (both \o m)[i] = IF i <= Len(both) THEN both[i] ELSE m[i - Len(both)]
    BY <1>1, ConcatProperties
  <1>4. /\ Len(both) = Len(p) + Len(f)
        /\ \A i \in 1 .. Len(p) + Len(f) : both[i] = IF i <= Len(p) THEN p[i] ELSE f[i - Len(p)]
    BY <1>1
  <1> HIDE DEF both
  <1>5. Len(both \o m) = Len(p) + Len(f) + Len(m)
    BY <1>2, <1>3, <1>4
  <1>6. ASSUME NEW i \in 1 .. Len(p) + Len(f) + Len(m)
        PROVE  (both \o m)[i] = IF i <= Len(p) THEN p[i]
                                ELSE IF i <= Len(p) + Len(f) THEN f[i - Len(p)]
                                ELSE m[i - (Len(p) + Len(f))]
    <2>1. i \in 1 .. Len(both) + Len(m)
      BY <1>4
    <2>2. CASE i <= Len(both)
      <3>1. i \in 1 .. Len(p) + Len(f) /\ (both \o m)[i] = both[i]
        BY <1>2, <1>3, <1>4, <2>1, <2>2
      <3> QED BY <1>2, <1>4, <2>2, <3>1
    <2>3. CASE ~(i <= Len(both))
      BY <1>2, <1>3, <1>4, <2>1, <2>3
    <2> QED BY <2>2, <2>3
  <1> QED BY <1>2, <1>3, <1>5, <1>6 DEF both

-----------------------------------------------------------------------------
(* Sequences of replies and of messages.                                   *)

(* A reply is added at the end of the videos, or taken from their front.   *)
LEMMA ReplySteps ==
  ASSUME NEW q \in Seq({"video", "ok", "failed"})
  PROVE  /\ VideoOnly(q) => VideoOnly(Append(q, "video"))
         /\ VideoOnly(q) => VideoThen(Append(q, "ok")) /\ VideoThen(Append(q, "failed"))
         /\ q # <<>> /\ Head(q) = "video" /\ VideoOnly(q) => VideoOnly(Tail(q))
         /\ q # <<>> /\ Head(q) = "video" /\ VideoThen(q) =>
              VideoThen(Tail(q)) /\ Tail(q)[Len(Tail(q))] = q[Len(q)]
         /\ q # <<>> /\ Head(q) # "video" => ~VideoOnly(q)
         /\ q # <<>> /\ Head(q) # "video" /\ VideoThen(q) => Tail(q) = <<>> /\ q[Len(q)] = Head(q)
PROOF
  <1>1. VideoOnly(q) => VideoOnly(Append(q, "video"))
    BY DEF VideoOnly
  <1>2. VideoOnly(q) => VideoThen(Append(q, "ok")) /\ VideoThen(Append(q, "failed"))
    BY DEF VideoOnly, VideoThen
  <1>3. ASSUME q # <<>>
        PROVE  /\ Head(q) = q[1] /\ Len(q) \in Nat /\ Len(q) > 0 /\ Len(Tail(q)) = Len(q) - 1
               /\ \A i \in 1 .. Len(q) - 1 : Tail(q)[i] = q[i + 1]
    BY <1>3, HeadTailProperties, EmptySeq
  <1>4. q # <<>> /\ Head(q) = "video" /\ VideoOnly(q) => VideoOnly(Tail(q))
    BY <1>3 DEF VideoOnly
  <1>5. ASSUME q # <<>>, Head(q) = "video", VideoThen(q)
        PROVE  VideoThen(Tail(q)) /\ Tail(q)[Len(Tail(q))] = q[Len(q)]
    <2>1. Len(q) > 1
      BY <1>3, <1>5 DEF VideoThen
    <2>2. Tail(q)[Len(Tail(q))] = q[Len(q)]
      BY <1>3, <1>5, <2>1
    <2>3. \A i \in 1 .. Len(Tail(q)) - 1 : Tail(q)[i] = "video"
      BY <1>3, <1>5, <2>1 DEF VideoThen
    <2> QED BY <1>3, <1>5, <2>1, <2>2, <2>3 DEF VideoThen
  <1>6. q # <<>> /\ Head(q) # "video" => ~VideoOnly(q)
    BY <1>3 DEF VideoOnly
  <1>7. ASSUME q # <<>>, Head(q) # "video", VideoThen(q)
        PROVE  Tail(q) = <<>> /\ q[Len(q)] = Head(q)
    <2>1. Len(q) = 1
      <3>1. Head(q) = q[1] /\ Len(q) \in Nat /\ Len(q) > 0
        BY <1>3, <1>7
      <3>2. Len(q) > 1 => 1 \in 1 .. Len(q) - 1
        BY <3>1
      <3>3. ~(Len(q) > 1)
        BY <1>7, <3>1, <3>2 DEF VideoThen
      <3>4. \A n \in Nat : n > 0 /\ ~(n > 1) => n = 1
        OBVIOUS
      <3> QED BY <3>1, <3>3, <3>4
    <2>2. Len(Tail(q)) = 0 /\ Tail(q) \in Seq({"video", "ok", "failed"})
      BY <1>3, <1>7, <2>1, HeadTailProperties
    <2> QED BY <1>3, <1>7, <2>1, <2>2, EmptySeq
  <1> QED BY <1>1, <1>2, <1>4, <1>5, <1>6, <1>7

(* The first message is taken.                                             *)
LEMMA MessageTaken ==
  ASSUME NEW s \in Seq(Message), s # <<>>
  PROVE  /\ Head(s) = s[1] /\ s[1] \in Message /\ Tail(s) \in Seq(Message)
         /\ Len(s) \in Nat /\ Len(s) > 0 /\ Len(Tail(s)) = Len(s) - 1
         /\ \A i \in 1 .. Len(s) - 1 : i + 1 \in 1 .. Len(s) /\ Tail(s)[i] = s[i + 1]
PROOF
  <1>1. /\ Head(s) = s[1] /\ Tail(s) \in Seq(Message) /\ Len(Tail(s)) = Len(s) - 1
        /\ \A i \in 1 .. Len(Tail(s)) : Tail(s)[i] = s[i + 1]
    BY HeadTailProperties
  <1>2. Len(s) \in Nat /\ Len(s) > 0
    BY EmptySeq, LenProperties
  <1>3. s[1] \in Message
    BY <1>2, ElementOfSeq
  <1> QED BY <1>1, <1>2, <1>3

-----------------------------------------------------------------------------
(* The steps.                                                              *)

(* An upload starts from nothing.                                          *)
LEMMA InitInv == Init => Inv
PROOF
  <1> SUFFICES ASSUME Init PROVE Inv
    OBVIOUS
  <1> USE BoundsAssumption DEF Init
  <1>1. \A S : <<>> \in Seq(S) /\ Len(<<>>) = 0
    BY EmptySeq
  <1>2. TypeInv
    <2>1. /\ up \in Seq(Message) /\ buffer \in Seq(1 .. MaxChunks) /\ wire \in Seq(Piece)
          /\ replies \in Seq({"video", "ok", "failed"}) /\ outcomes \in Seq({"error", "result"})
      BY <1>1
    <2>2. sent \in 0 .. MaxChunks + 1 /\ returned \in Nat /\ file \in Nat
      OBVIOUS
    <2>3. preprocess \in BOOLEAN /\ custom \in BOOLEAN /\ config \in BOOLEAN
      OBVIOUS
    <2> QED BY <2>1, <2>2, <2>3 DEF TypeInv
  <1>3. OutcomeInv /\ DownInv
    BY <1>1 DEF OutcomeInv, DownInv
  <1>4. UpInv
    BY <1>1 DEF UpInv
  <1>5. InputInv
    BY <1>1 DEF InputInv, Rising
  <1> QED BY <1>2, <1>3, <1>4, <1>5 DEF Inv

(* What streamToUpstream writes.                                           *)
LEMMA UpstreamType ==
  ASSUME TypeInv, NEW chunks \in Seq(1 .. MaxChunks), NEW d, NEW more \in Seq(Piece),
         Upstream(chunks, d, more)
  PROVE  /\ call' \in {"none", "open", "over"}
         /\ wire' \in Seq(Piece)
         /\ ffmpeg' \in {"none", "up", "failed", "killed", "finalizing", "done", "unwritten"}
PROOF
  <1>1. wire \in Seq(Piece) /\ Flat(chunks) \in Seq(Piece) /\ Preamble(d = "readable") \in Seq(Piece)
    <2>1. Setting \subseteq Piece
      BY DEF Piece
    <2>2. (d = "readable") \in BOOLEAN
      BY Zenon
    <2>3. Preamble(d = "readable") \in Seq(Piece)
      BY <2>1, <2>2, PreambleType, SeqMonotonic
    <2> QED BY <2>3, FlatType DEF TypeInv
  <1>2. /\ wire \o Flat(chunks) \o more \in Seq(Piece)
        /\ Preamble(d = "readable") \o Flat(chunks) \o more \in Seq(Piece)
    BY <1>1, Parts
  <1> QED BY <1>1, <1>2 DEF Upstream, TypeInv

(* The variables keep their types.                                         *)
LEMMA StepType ==
  ASSUME TypeInv, Next
  PROVE  TypeInv'
PROOF
  <1> USE BoundsAssumption
  <1> USE DEF pageVars, inputVars, callVars, outputVars
  <1>1. CASE PageSends
    <2>1. SerializationFails \/ \E m \in Message : Sends(m)
      <3>1. sent \in 0 .. MaxChunks + 1
        BY DEF TypeInv
      <3>2. <<"config">> \in Message /\ <<"end">> \in Message
        BY DEF Message
      <3>3. sent < MaxChunks => <<"chunk", sent + 1>> \in Message
        BY <3>1 DEF Message
      <3> QED BY <1>1, <3>2, <3>3 DEF PageSends, SendConfig, SendChunk, SendEnd, ChunkIsNext
    <2>2. up' \in Seq(Message)
      <3>1. up \in Seq(Message) /\ (up' = up \/ \E m \in Message : up' = Append(up, m))
        BY <2>1 DEF Sends, SerializationFails, TypeInv
      <3> QED BY <3>1, AppendProperties
    <2>3. config' \in BOOLEAN /\ sent' \in 0 .. MaxChunks + 1
      <3>1. sent \in 0 .. MaxChunks + 1 /\ config \in BOOLEAN
        BY DEF TypeInv
      <3>2. config' \in BOOLEAN
        BY <1>1, <3>1 DEF PageSends, SendConfig, SendChunk, SendEnd, SerializationFails
      <3>3. sent' = sent \/ (sent <= MaxChunks /\ sent' = sent + 1)
        <4>1. CASE SendConfig
          BY <4>1 DEF SendConfig
        <4>2. CASE SendChunk \/ SerializationFails
          BY <3>1, <4>2 DEF SendChunk, SerializationFails, ChunkIsNext
        <4>3. CASE SendEnd
          BY <3>1, <4>3 DEF SendEnd
        <4> QED BY <1>1, <4>1, <4>2, <4>3 DEF PageSends
      <3> QED BY <3>1, <3>2, <3>3
    <2> QED BY <2>1, <2>2, <2>3 DEF Sends, SerializationFails, TypeInv
  <1>2. CASE Receive \/ Leave \/ ConnectionBreaks
    <2>1. <<"close">> \in Message /\ <<<<"close">>>> \in Seq(Message)
      BY DEF Message
    <2>2. Append(up, <<"close">>) \in Seq(Message) /\ up \in Seq(Message)
      BY <2>1, AppendProperties DEF TypeInv
    <2>3. up' \in Seq(Message)
      BY <1>2, <2>1, <2>2 DEF Receive, Leave, ConnectionBreaks
    <2>4. UNCHANGED <<option, custom, config, sent, preprocess, buffer, doing, call, wire, replies,
                      returned, file, ffmpeg, outcomes>>
      BY <1>2 DEF Receive, Leave, ConnectionBreaks, PageUnchanged
    <2> QED BY <2>3, <2>4 DEF TypeInv
  <1>3. CASE SessionStep
    <2>1. /\ up' \in Seq(Message) /\ up # <<>> /\ Head(up) \in Message
          /\ UNCHANGED <<option, config, sent, returned, file, outcomes>>
      <3>1. up \in Seq(Message)
        BY DEF TypeInv
      <3>2. up # <<>> /\ up' = Tail(up)
        BY <1>3 DEF SessionStep, HandleConfig, HandleChunk, HandleEnd, HandleClose, Arrives
      <3>3. UNCHANGED <<option, config, sent, returned, file, outcomes>>
        BY <1>3 DEF SessionStep, HandleConfig, HandleChunk, HandleEnd, HandleClose
      <3> QED BY <3>1, <3>2, <3>3, HeadTailProperties
    <2>2. CASE HandleConfig
      <3>1. option.enabled \in BOOLEAN /\ option.isolation \in BOOLEAN
        BY DEF TypeInv
      <3>2. custom' \in BOOLEAN /\ preprocess' \in BOOLEAN
        BY <2>2, <3>1, Zenon DEF HandleConfig
      <3>3. UNCHANGED <<buffer, doing, call, wire, replies, ffmpeg>>
        BY <2>2 DEF HandleConfig
      <3> QED BY <2>1, <3>2, <3>3 DEF TypeInv
    <2>3. CASE HandleChunk
      <3>1. Head(up)[2] \in 1 .. MaxChunks
        BY <2>1, <2>3 DEF HandleChunk, Arrives, Message
      <3>2. <<Head(up)[2]>> \in Seq(1 .. MaxChunks) /\ <<>> \in Seq(Piece)
        BY <3>1
      <3>3. buffer' \in Seq(1 .. MaxChunks)
        <4>1. buffer \in Seq(1 .. MaxChunks)
          BY DEF TypeInv
        <4>2. Append(buffer, Head(up)[2]) \in Seq(1 .. MaxChunks)
          BY <3>1, <4>1, AppendProperties
        <4> QED BY <2>3, <4>1, <4>2 DEF HandleChunk
      <3>4. /\ call' \in {"none", "open", "over"} /\ wire' \in Seq(Piece)
            /\ ffmpeg' \in {"none", "up", "failed", "killed", "finalizing", "done", "unwritten"}
        <4>1. CASE preprocess
          BY <2>3, <4>1 DEF HandleChunk, TypeInv
        <4>2. CASE ~preprocess
          <5>1. Upstream(<<Head(up)[2]>>, IF custom THEN option.diarization ELSE "none", <<>>)
            BY <2>3, <4>2 DEF HandleChunk
          <5> QED BY <3>2, <5>1, UpstreamType
        <4> QED BY <4>1, <4>2
      <3>5. UNCHANGED <<custom, preprocess, doing, replies>>
        BY <2>3 DEF HandleChunk
      <3> QED BY <2>1, <3>3, <3>4, <3>5 DEF TypeInv
    <2>4. CASE HandleEnd
      <3>1. <<"end">> \in Piece
        BY DEF Piece
      <3>2. wire' \in Seq(Piece)
        BY <2>4, <3>1, AppendProperties DEF HandleEnd, TypeInv
      <3> QED BY <2>1, <2>4, <3>2 DEF HandleEnd, TypeInv
    <2>5. CASE HandleClose
      <3>1. replies' \in Seq({"video", "ok", "failed"})
        <4>1. replies \in Seq({"video", "ok", "failed"}) /\ <<"failed">> \in Seq({"video", "ok", "failed"})
          BY DEF TypeInv
        <4> QED BY <2>5, <4>1 DEF HandleClose
      <3> QED BY <2>1, <2>5, <3>1 DEF HandleClose, TypeInv
    <2> QED BY <1>3, <2>2, <2>3, <2>4, <2>5 DEF SessionStep
  <1>4. CASE Preprocessed
    <2>1. PICK found : Upstream(buffer, found, <<<<"end">>>>)
      BY <1>4 DEF Preprocessed
    <2>2. <<<<"end">>>> \in Seq(Piece) /\ buffer \in Seq(1 .. MaxChunks)
      BY DEF Piece, TypeInv
    <2>3. /\ call' \in {"none", "open", "over"} /\ wire' \in Seq(Piece)
          /\ ffmpeg' \in {"none", "up", "failed", "killed", "finalizing", "done", "unwritten"}
      BY <2>1, <2>2, UpstreamType
    <2> QED BY <1>4, <2>3 DEF Preprocessed, TypeInv
  <1>5. CASE ReturnsVideo \/ EndsTheCall
    <2>1. replies' \in Seq({"video", "ok", "failed"})
      <3>1. PICK r \in {"video", "ok", "failed"} : Replies(r)
        BY <1>5 DEF ReturnsVideo, EndsTheCall
      <3> QED BY <3>1, AppendProperties DEF Replies, TypeInv
    <2>2. call' \in {"none", "open", "over"} /\ returned' \in Nat
      BY <1>5 DEF ReturnsVideo, EndsTheCall, TypeInv
    <2>3. UNCHANGED <<option, custom, config, sent, up, preprocess, buffer, doing, wire, file, ffmpeg, outcomes>>
      BY <1>5 DEF ReturnsVideo, EndsTheCall, Replies
    <2> QED BY <2>1, <2>2, <2>3 DEF TypeInv
  <1>6. CASE CallbackStep \/ PreviewEncoded \/ FfmpegFails
    <2>1. UNCHANGED <<option, custom, config, sent, up, preprocess, buffer, doing, call, wire, returned>>
      BY <1>6 DEF CallbackStep, OnData, OnEnd, OnError, Finalized, FinalizingFails, TakesReply, PreviewEncoded, FfmpegFails
    <2>2. replies' \in Seq({"video", "ok", "failed"})
      <3>1. replies \in Seq({"video", "ok", "failed"})
        BY DEF TypeInv
      <3>2. replies' = replies \/ (replies # <<>> /\ replies' = Tail(replies))
        <4>1. CASE OnData \/ OnEnd \/ OnError
          BY <4>1 DEF OnData, OnEnd, OnError, TakesReply
        <4>2. CASE Finalized \/ FinalizingFails
          BY <4>2, Zenon DEF Finalized, FinalizingFails
        <4>3. CASE PreviewEncoded \/ FfmpegFails
          BY <4>3, Zenon DEF PreviewEncoded, FfmpegFails
        <4> QED BY <1>6, <4>1, <4>2, <4>3 DEF CallbackStep
      <3> QED BY <3>1, <3>2, HeadTailProperties
    <2>3. outcomes' = outcomes \/ \E kind \in {"error", "result"} : outcomes' = Append(outcomes, kind)
      <3>1. CASE OnData \/ FinalizingFails \/ PreviewEncoded \/ FfmpegFails
        BY <3>1 DEF OnData, FinalizingFails, PreviewEncoded, FfmpegFails
      <3>2. CASE OnEnd \/ OnError \/ Finalized
        BY <3>2 DEF OnEnd, OnError, Finalized, FinalizingFails, Outcome
      <3> QED BY <1>6, <3>1, <3>2 DEF CallbackStep
    <2>4. outcomes' \in Seq({"error", "result"})
      <3>1. outcomes \in Seq({"error", "result"})
        BY DEF TypeInv
      <3> QED BY <2>3, <3>1, AppendProperties
    <2>5. file' \in Nat
      BY <1>6 DEF CallbackStep, OnData, OnEnd, OnError, Finalized, FinalizingFails, PreviewEncoded, FfmpegFails, TypeInv
    <2>6. ffmpeg' \in {"none", "up", "failed", "killed", "finalizing", "done", "unwritten"}
      BY <1>6 DEF CallbackStep, OnData, OnEnd, OnError, Finalized, FinalizingFails, PreviewEncoded, FfmpegFails, TypeInv
    <2> QED BY <2>1, <2>2, <2>4, <2>5, <2>6 DEF TypeInv
  <1> QED BY <1>1, <1>2, <1>3, <1>4, <1>5, <1>6 DEF Next

(* The messages to the page.                                               *)
LEMMA StepDown ==
  ASSUME DownInv, Next
  PROVE  DownInv'
PROOF
  <1> USE DEF pageVars, inputVars, callVars, outputVars
  <1>1. \/ down' = down \/ down' = <<>>
        \/ down # <<>> /\ down' = Tail(down)
        \/ \E kind \in {"preview", "error", "result"} : down' = Append(down, kind)
    <2>1. CASE PageSends \/ Leave \/ ConnectionBreaks
      BY <2>1 DEF PageSends, SendConfig, SendChunk, SendEnd, SerializationFails, Sends, Leave, ConnectionBreaks
    <2>2. CASE Receive
      BY <2>2 DEF Receive
    <2>3. CASE SessionStep \/ Preprocessed
      BY <2>3 DEF SessionStep, HandleConfig, HandleChunk, HandleEnd, HandleClose, Preprocessed
    <2>4. CASE ReturnsVideo \/ EndsTheCall
      BY <2>4 DEF ReturnsVideo, EndsTheCall, Replies
    <2>5. CASE OnData \/ FinalizingFails \/ FfmpegFails
      BY <2>5 DEF OnData, FinalizingFails, FfmpegFails
    <2>6. CASE OnEnd
      BY <2>6 DEF OnEnd, Outcome, Sent
    <2>7. CASE OnError
      BY <2>7 DEF OnError, Outcome, Sent
    <2>8. CASE Finalized \/ PreviewEncoded
      BY <2>8 DEF Finalized, PreviewEncoded, Outcome, Sent
    <2> QED BY <2>1, <2>2, <2>3, <2>4, <2>5, <2>6, <2>7, <2>8 DEF Next, CallbackStep
  <1>2. down \in Seq({"preview", "error", "result"})
    BY DEF DownInv
  <1>3. down' \in Seq({"preview", "error", "result"})
    <2>1. ASSUME down # <<>> PROVE Tail(down) \in Seq({"preview", "error", "result"})
      BY <1>2, <2>1, HeadTailProperties
    <2>2. ASSUME NEW kind \in {"preview", "error", "result"}
          PROVE  Append(down, kind) \in Seq({"preview", "error", "result"})
      BY <1>2, AppendProperties
    <2>3. <<>> \in Seq({"preview", "error", "result"})
      OBVIOUS
    <2> QED BY <1>1, <1>2, <2>1, <2>2, <2>3
  <1> QED BY <1>3 DEF DownInv

(* The outcome is not touched.                                             *)
LEMMA OutcomeStays ==
  ASSUME OutcomeInv, UNCHANGED <<call, replies, returned, file, outcomes>>,
         ffmpeg' = ffmpeg \/ (ffmpeg = "up" /\ call # "none" /\ ffmpeg' = "failed"),
         call = "over" => UNCHANGED wire
  PROVE  OutcomeInv'
PROOF
  <1>1. UNCHANGED <<call, replies, returned, file, outcomes>>
    OBVIOUS
  <1>2. CASE call = "none"
    BY <1>1, <1>2 DEF OutcomeInv
  <1>3. CASE call = "open"
    BY <1>1, <1>3 DEF OutcomeInv
  <1>4. CASE call = "over"
    <2>1. Ended => Ended'
      BY <1>4 DEF Ended
    <2> QED BY <1>1, <1>4, <2>1 DEF OutcomeInv
  <1>5. CASE call \notin {"none", "open", "over"}
    BY <1>1, <1>5 DEF OutcomeInv
  <1> QED BY <1>2, <1>3, <1>4, <1>5

(* A call is opened, or goes on.                                           *)
LEMMA OutcomeUpstream ==
  ASSUME TypeInv, OutcomeInv, NEW chunks, NEW d, NEW more, Upstream(chunks, d, more),
         UNCHANGED <<replies, returned, file, outcomes>>
  PROVE  OutcomeInv'
PROOF
  <1>1. CASE call = "none" /\ d # "malformed"
    <2>1. /\ call' = "open" /\ ffmpeg' = "up" /\ replies' = <<>> /\ returned' = 0 /\ file' = 0
          /\ outcomes' = <<>>
      BY <1>1 DEF Upstream, OutcomeInv
    <2>2. VideoOnly(<<>>) /\ Len(<<>>) = 0
      BY EmptySeq DEF VideoOnly
    <2> QED BY <2>1, <2>2 DEF OutcomeInv
  <1>2. CASE ~(call = "none" /\ d # "malformed")
    <2>1. UNCHANGED <<call, ffmpeg>> /\ (call = "over" => UNCHANGED wire)
      BY <1>2 DEF Upstream
    <2> QED BY <2>1, OutcomeStays
  <1> QED BY <1>1, <1>2

(* One outcome, and a result only for all of the video.                    *)
LEMMA StepOutcome ==
  ASSUME TypeInv, OutcomeInv, Next
  PROVE  OutcomeInv'
PROOF
  <1> USE DEF pageVars, inputVars, callVars, outputVars
  <1>0. replies \in Seq({"video", "ok", "failed"}) /\ outcomes \in Seq({"error", "result"})
        /\ call \in {"none", "open", "over"} /\ file \in Nat /\ returned \in Nat /\ Len(replies) \in Nat
    BY LenProperties DEF TypeInv
  <1>1. CASE PageSends \/ Receive \/ Leave \/ ConnectionBreaks
    <2>1. UNCHANGED <<call, replies, returned, file, outcomes, ffmpeg, wire>>
      BY <1>1 DEF PageSends, SendConfig, SendChunk, SendEnd, SerializationFails, Sends,
         Receive, Leave, ConnectionBreaks, PageUnchanged
    <2> QED BY <2>1, OutcomeStays
  <1>2. CASE HandleConfig
    <2>1. UNCHANGED <<call, replies, returned, file, outcomes, ffmpeg, wire>>
      BY <1>2 DEF HandleConfig
    <2> QED BY <2>1, OutcomeStays
  <1>3. CASE HandleChunk
    <2>1. CASE preprocess
      <3>1. UNCHANGED <<call, replies, returned, file, outcomes, ffmpeg, wire>>
        BY <1>3, <2>1 DEF HandleChunk
      <3> QED BY <3>1, OutcomeStays
    <2>2. CASE ~preprocess
      <3>1. Upstream(<<Head(up)[2]>>, IF custom THEN option.diarization ELSE "none", <<>>)
        BY <1>3, <2>2 DEF HandleChunk
      <3>2. UNCHANGED <<replies, returned, file, outcomes>>
        BY <1>3 DEF HandleChunk
      <3> QED BY <3>1, <3>2, OutcomeUpstream
    <2> QED BY <2>1, <2>2
  <1>4. CASE HandleEnd
    <2>1. UNCHANGED <<call, replies, returned, file, outcomes, ffmpeg>> /\ (call = "over" => UNCHANGED wire)
      BY <1>4 DEF HandleEnd
    <2> QED BY <2>1, OutcomeStays
  <1>5. CASE HandleClose
    <2>1. UNCHANGED <<returned, file, outcomes, wire>>
      BY <1>5 DEF HandleClose
    <2>2. CASE call = "open"
      <3>1. call' = "over" /\ replies' = <<"failed">> /\ outcomes' = <<>> /\ ffmpeg' \in {"failed", "killed"}
        BY <1>5, <2>1, <2>2 DEF HandleClose, OutcomeInv
      <3>2. VideoThen(<<"failed">>) /\ Len(<<"failed">>) = 1 /\ <<"failed">>[1] = "failed"
        BY DEF VideoThen
      <3> QED BY <3>1, <3>2 DEF OutcomeInv
    <2>3. CASE call = "none"
      <3>1. UNCHANGED <<call, replies, ffmpeg>>
        BY <1>5, <2>3 DEF HandleClose, OutcomeInv
      <3> QED BY <2>1, <3>1, OutcomeStays
    <2>4. CASE call = "over"
      <3>1. UNCHANGED <<call, replies>> /\ (ffmpeg' = ffmpeg \/ (ffmpeg = "up" /\ ffmpeg' = "killed"))
        BY <1>5, <2>4 DEF HandleClose
      <3>2. Ended => Ended'
        BY <2>1 DEF Ended
      <3> QED BY <2>1, <2>4, <3>1, <3>2 DEF OutcomeInv
    <2> QED BY <1>0, <2>2, <2>3, <2>4
  <1>6. CASE Preprocessed
    <2>1. PICK found : Upstream(buffer, found, <<<<"end">>>>)
      BY <1>6 DEF Preprocessed
    <2>2. UNCHANGED <<replies, returned, file, outcomes>>
      BY <1>6 DEF Preprocessed
    <2> QED BY <2>1, <2>2, OutcomeUpstream
  <1>7. CASE ReturnsVideo
    <2>1. /\ call = "open" /\ call' = "open" /\ replies' = Append(replies, "video")
          /\ returned' = returned + 1 /\ UNCHANGED <<file, outcomes, ffmpeg>>
      BY <1>7 DEF ReturnsVideo, Replies
    <2>2. VideoOnly(replies') /\ Len(replies') = Len(replies) + 1
      BY <1>0, <2>1, ReplySteps, AppendProperties DEF OutcomeInv
    <2>3. file' + Len(replies') = returned'
      BY <1>0, <2>1, <2>2 DEF OutcomeInv
    <2> QED BY <2>1, <2>2, <2>3 DEF OutcomeInv
  <1>8. CASE EndsTheCall
    <2>1. PICK r \in {"ok", "failed"} :
            /\ call = "open" /\ call' = "over" /\ replies' = Append(replies, r)
            /\ UNCHANGED <<returned, file, outcomes, ffmpeg, wire>>
            /\ r = "ok" => Ended
      BY <1>8 DEF EndsTheCall, Replies
    <2>2. VideoOnly(replies) /\ file + Len(replies) = returned /\ outcomes = <<>> /\ ffmpeg \in {"up", "failed"}
      BY <2>1 DEF OutcomeInv
    <2>3. VideoThen(replies') /\ Len(replies') = Len(replies) + 1 /\ replies'[Len(replies')] = r
      BY <1>0, <2>1, <2>2, ReplySteps, AppendProperties
    <2>4. Ended => Ended'
      BY <2>1 DEF Ended
    <2>5. file' + Len(replies') = returned' + 1
      BY <1>0, <2>1, <2>2, <2>3
    <2> QED BY <2>1, <2>2, <2>3, <2>4, <2>5 DEF OutcomeInv
  <1>9. CASE OnData
    <2>1. /\ replies # <<>> /\ Head(replies) = "video" /\ replies' = Tail(replies)
          /\ file' = file + 1 /\ UNCHANGED <<call, wire, returned, outcomes, ffmpeg>>
      BY <1>9 DEF OnData, TakesReply
    <2>2. Len(replies') = Len(replies) - 1
      BY <1>0, <2>1, HeadTailProperties
    <2>3. Ended => Ended'
      BY <2>1 DEF Ended
    <2>4. call # "none"
      BY <2>1 DEF OutcomeInv
    <2>5. CASE call = "open"
      <3>1. VideoOnly(replies') /\ file' + Len(replies') = returned'
        BY <1>0, <2>1, <2>2, <2>5, ReplySteps DEF OutcomeInv
      <3> QED BY <2>1, <2>5, <3>1 DEF OutcomeInv
    <2>6. CASE call = "over"
      <3>1. /\ VideoThen(replies) /\ outcomes = <<>> /\ ffmpeg \in {"up", "failed", "killed"}
            /\ replies[Len(replies)] = "ok" => Ended /\ file + Len(replies) = returned + 1
        BY <2>1, <2>6 DEF OutcomeInv
      <3>2. VideoThen(replies') /\ replies'[Len(replies')] = replies[Len(replies)]
        BY <1>0, <2>1, <3>1, ReplySteps
      <3>3. file' + Len(replies') = file + Len(replies)
        BY <1>0, <2>1, <2>2
      <3> QED BY <2>1, <2>3, <2>6, <3>1, <3>2, <3>3 DEF OutcomeInv
    <2> QED BY <1>0, <2>4, <2>5, <2>6
  <1>10. ASSUME NEW kind \in {"ok", "failed"}, TakesReply(kind)
         PROVE  /\ call = "over" /\ call' = "over" /\ replies' = <<>> /\ outcomes = <<>>
                /\ UNCHANGED <<wire, returned>> /\ ffmpeg \in {"up", "failed", "killed"}
                /\ kind = "ok" => Ended /\ Ended' /\ file = returned
    <2>1. /\ replies # <<>> /\ Head(replies) = kind /\ replies' = Tail(replies)
          /\ UNCHANGED <<call, wire, returned>>
      BY <1>10 DEF TakesReply
    <2>2. call = "over"
      <3>1. ~VideoOnly(replies)
        BY <1>0, <2>1, ReplySteps
      <3> QED BY <1>0, <2>1, <3>1 DEF OutcomeInv
    <2>3. /\ VideoThen(replies) /\ outcomes = <<>> /\ ffmpeg \in {"up", "failed", "killed"}
          /\ replies[Len(replies)] = "ok" => Ended /\ file + Len(replies) = returned + 1
      BY <2>1, <2>2 DEF OutcomeInv
    <2>4. Tail(replies) = <<>> /\ replies[Len(replies)] = kind
      BY <1>0, <2>1, <2>3, ReplySteps
    <2>5. Len(replies) = 1
      <3>1. Len(Tail(replies)) = Len(replies) - 1
        BY <1>0, <2>1, HeadTailProperties
      <3>2. Len(Tail(replies)) = 0
        BY <2>4, EmptySeq
      <3> QED BY <1>0, <3>1, <3>2
    <2>6. kind = "ok" => file = returned
      BY <1>0, <2>3, <2>4, <2>5
    <2>7. Ended => Ended'
      BY <2>1 DEF Ended
    <2> QED BY <2>1, <2>2, <2>3, <2>4, <2>6, <2>7
  <1>11. /\ Len(Append(<<>>, "error")) = 1 /\ Append(<<>>, "error") # <<"result">>
         /\ Len(Append(<<>>, "result")) = 1
    <2>1. Append(<<>>, "error") = <<"error">> /\ Append(<<>>, "result") = <<"result">>
      OBVIOUS
    <2>2. <<"error">>[1] # <<"result">>[1]
      OBVIOUS
    <2> QED BY <2>1, <2>2
  <1>12. CASE OnEnd
    <2>1. /\ call' = "over" /\ replies' = <<>> /\ outcomes = <<>> /\ UNCHANGED <<wire, returned, file>>
          /\ Ended' /\ file' = returned' /\ ffmpeg \in {"up", "failed", "killed"}
      BY <1>10, <1>12 DEF OnEnd
    <2>2. \/ outcomes' = Append(<<>>, "error") /\ ffmpeg' = "failed"
          \/ outcomes' = <<>> /\ ffmpeg' = "finalizing"
      BY <1>12, <2>1 DEF OnEnd, Outcome
    <2> QED BY <1>11, <2>1, <2>2 DEF OutcomeInv
  <1>13. CASE OnError
    <2>1. call' = "over" /\ replies' = <<>> /\ outcomes = <<>>
      BY <1>10, <1>13 DEF OnError
    <2>2. outcomes' = Append(<<>>, "error") /\ ffmpeg' = "killed"
      BY <1>13, <2>1 DEF OnError, Outcome
    <2> QED BY <1>11, <2>1, <2>2 DEF OutcomeInv
  <1>14. CASE Finalized
    <2>1. ffmpeg = "finalizing" /\ ffmpeg' = "done" /\ UNCHANGED <<call, wire, replies, returned, file>>
      BY <1>14 DEF Finalized
    <2>2. call = "over" /\ replies = <<>> /\ outcomes = <<>> /\ Ended /\ file = returned
      BY <1>0, <2>1 DEF OutcomeInv
    <2>3. outcomes' = Append(<<>>, "result")
      BY <1>14, <2>2 DEF Finalized, Outcome
    <2>4. Ended'
      BY <2>1, <2>2 DEF Ended
    <2> QED BY <1>11, <2>1, <2>2, <2>3, <2>4 DEF OutcomeInv
  <1>15. CASE PreviewEncoded
    <2>1. UNCHANGED <<call, replies, returned, file, outcomes, ffmpeg, wire>>
      BY <1>15 DEF PreviewEncoded
    <2> QED BY <2>1, OutcomeStays
  <1>16. CASE FfmpegFails
    <2>1. UNCHANGED <<call, replies, returned, file, outcomes, wire>> /\ ffmpeg = "up" /\ ffmpeg' = "failed"
      BY <1>16 DEF FfmpegFails
    <2>2. call # "none"
      BY <2>1 DEF OutcomeInv
    <2> QED BY <2>1, <2>2, OutcomeStays
  <1>17. CASE FinalizingFails
    <2>1. ffmpeg = "finalizing" /\ ffmpeg' = "unwritten"
          /\ UNCHANGED <<call, wire, replies, returned, file, outcomes>>
      BY <1>17 DEF FinalizingFails
    <2>2. call = "over" /\ replies = <<>> /\ outcomes = <<>>
      BY <1>0, <2>1 DEF OutcomeInv
    <2> QED BY <2>1, <2>2 DEF OutcomeInv
  <1> QED
    BY <1>1, <1>2, <1>3, <1>4, <1>5, <1>6, <1>7, <1>8, <1>9, <1>12, <1>13, <1>14, <1>15, <1>16, <1>17
       DEF Next, SessionStep, CallbackStep

-----------------------------------------------------------------------------
(* The order of the input.                                                 *)

(* The preamble is all of settings.                                        *)
LEMMA PreamblePieces ==
  ASSUME NEW d \in BOOLEAN
  PROVE  /\ Preamble(d) \in Seq(Piece) /\ Len(Preamble(d)) \in Nat /\ Len(Preamble(d)) > 0
         /\ \A i \in 1 .. Len(Preamble(d)) : Preamble(d)[i][1] \notin {"data", "end"}
PROOF
  <1>1. Preamble(d) \in Seq(Setting) /\ Preamble(d) # <<>>
    BY PreambleType
  <1>2. Setting \subseteq Piece
    BY DEF Piece
  <1>3. Preamble(d) \in Seq(Piece)
    BY <1>1, <1>2, SeqMonotonic
  <1>4. \A s \in Setting : s[1] \notin {"data", "end"}
    BY DEF Setting
  <1>5. \A i \in 1 .. Len(Preamble(d)) : Preamble(d)[i] \in Setting
    BY <1>1, ElementOfSeq
  <1>6. Len(Preamble(d)) \in Nat /\ Len(Preamble(d)) > 0
    BY <1>1, EmptySeq, LenProperties
  <1> QED BY <1>3, <1>4, <1>5, <1>6

(* What is written with the chunks that open a call.                       *)
Written(d, chunks, more) == Preamble(d) \o Flat(chunks) \o more

(* A call is opened with chunks in their order, and perhaps the end.       *)
LEMMA OpensInOrder ==
  ASSUME NEW d \in BOOLEAN, NEW chunks \in Seq(1 .. MaxChunks), Rising(chunks),
         NEW more \in {<<>>, <<<<"end">>>>}
  PROVE  LET w == Written(d, chunks, more) IN
           /\ Ordered(w)
           /\ \A i \in 1 .. Len(w) : w[i][1] = "data" => \E k \in 1 .. Len(chunks) : w[i][2] = chunks[k]
           /\ more = <<>> => \A i \in 1 .. Len(w) : w[i][1] # "end"
PROOF
  <1> DEFINE p == Preamble(d)
             f == Flat(chunks)
             n == Len(p)
             w == Written(d, chunks, more)
  <1>1. /\ p \in Seq(Piece) /\ n \in Nat
        /\ \A i \in 1 .. n : p[i][1] \notin {"data", "end"}
    BY PreamblePieces
  <1>2. /\ f \in Seq(Piece) /\ Len(f) = Len(chunks) /\ Len(chunks) \in Nat
        /\ \A i \in 1 .. Len(f) : f[i] = <<"data", chunks[i]>>
    BY FlatType, LenProperties
  <1>3. /\ more \in Seq(Piece) /\ Len(more) \in {0, 1}
        /\ Len(more) = 1 => more[1] = <<"end">>
        /\ more = <<>> => Len(more) = 0
    <2>1. CASE more = <<>>
      <3>1. Len(<<>>) = 0 /\ <<>> \in Seq(Piece)
        BY EmptySeq
      <3> QED BY <2>1, <3>1
    <2>2. CASE more = <<<<"end">>>>
      <3>1. <<"end">> \in Piece
        BY DEF Piece
      <3>2. Len(<<<<"end">>>>) = 1 /\ <<<<"end">>>> \in Seq(Piece) /\ <<<<"end">>>>[1] = <<"end">>
        BY <3>1
      <3>3. Len(<<>>) = 0
        BY EmptySeq
      <3> QED BY <2>2, <3>2, <3>3
    <2> QED BY <2>1, <2>2
  <1> HIDE DEF p, f
  <1>4. w = p \o f \o more
    BY DEF p, f, Written
  <1> HIDE DEF w
  <1>5. /\ Len(w) = n + Len(f) + Len(more)
        /\ \A i \in 1 .. Len(w) :
             w[i] = IF i <= n THEN p[i]
                    ELSE IF i <= n + Len(f) THEN f[i - n]
                    ELSE more[i - (n + Len(f))]
    <2>0. Len(p \o f \o more) = n + Len(f) + Len(more)
      BY <1>1, <1>2, <1>3, Parts
    <2>1. Len(w) = n + Len(f) + Len(more)
      BY <1>4, <2>0, Zenon
    <2>2. \A i \in 1 .. n + Len(f) + Len(more) :
             (p \o f \o more)[i] = IF i <= n THEN p[i]
                                   ELSE IF i <= n + Len(f) THEN f[i - n]
                                   ELSE more[i - (n + Len(f))]
      BY <1>1, <1>2, <1>3, Parts
    <2> QED BY <1>4, <2>1, <2>2
  <1> HIDE DEF n
  <1>6. \A i \in 1 .. n : i \in 1 .. Len(w) /\ w[i] = p[i] /\ w[i][1] \notin {"data", "end"}
    BY <1>1, <1>2, <1>3, <1>5
  <1>7. ASSUME NEW i \in n + 1 .. n + Len(f)
        PROVE  i \in 1 .. Len(w) /\ i - n \in 1 .. Len(chunks) /\ w[i] = <<"data", chunks[i - n]>>
    <2>1. i \in 1 .. Len(w) /\ i - n \in 1 .. Len(f) /\ ~(i <= n) /\ i <= n + Len(f)
      BY <1>1, <1>2, <1>3, <1>5
    <2> QED BY <1>2, <1>5, <2>1
  <1>8. ASSUME NEW i \in n + Len(f) + 1 .. Len(w)
        PROVE  i = Len(w) /\ w[i] = <<"end">> /\ Len(more) = 1
    <2>0. n \in Nat /\ Len(f) \in Nat /\ Len(w) = n + Len(f) + Len(more)
      BY <1>1, <1>2, <1>5
    <2>1. Len(more) = 1 /\ i = n + Len(f) + 1 /\ i \in 1 .. Len(w) /\ ~(i <= n) /\ ~(i <= n + Len(f))
          /\ i - (n + Len(f)) = 1 /\ i = Len(w)
      <3>1. PICK a \in Nat, b \in Nat, c \in {0, 1} :
              a = n /\ b = Len(f) /\ c = Len(more) /\ Len(w) = a + b + c /\ i \in a + b + 1 .. a + b + c
        BY <1>3, <2>0
      <3>2. /\ c = 1 /\ i = a + b + 1 /\ i \in 1 .. a + b + c /\ ~(i <= a) /\ ~(i <= a + b)
            /\ i - (a + b) = 1 /\ i = a + b + c
        <4>1. i \in Int /\ a + b + 1 <= i /\ i <= a + b + c /\ (c = 0 \/ c = 1)
          BY <3>1
        <4>2. c = 1
          <5>1. a \in Nat /\ b \in Nat
            BY <3>1
          <5>2. c # 0
            BY <4>1, <5>1
          <5> QED BY <4>1, <5>2
        <4>3. i = a + b + 1
          BY <3>1, <4>1, <4>2
        <4>4. a \in Nat /\ b \in Nat /\ 1 <= a + b + 1
          BY <3>1
        <4>5. ~(i <= a) /\ ~(i <= a + b) /\ i - (a + b) = 1
          BY <4>3, <4>4
        <4> QED BY <4>1, <4>2, <4>3, <4>4, <4>5
      <3> QED BY <3>1, <3>2
    <2> QED BY <1>3, <1>5, <2>1
  <1>9. \A i \in 1 .. Len(w) : i \in 1 .. n \/ i \in n + 1 .. n + Len(f) \/ i \in n + Len(f) + 1 .. Len(w)
    BY <1>1, <1>2, <1>3, <1>5
  <1>10. \A i \in n + 1 .. Len(w) : i \in n + 1 .. n + Len(f) \/ i \in n + Len(f) + 1 .. Len(w)
    BY <1>1, <1>2, <1>3, <1>5
  <1>11. \A c : <<"data", c>>[1] = "data" /\ <<"data", c>>[2] = c
    OBVIOUS
  <1>12. <<"end">>[1] = "end"
    OBVIOUS
  <1>13. Behind(w, n)
    <2>1. ASSUME NEW i \in n + 1 .. Len(w)
          PROVE  w[i][1] = "data" \/ (w[i] = <<"end">> /\ i = Len(w))
      <3>1. CASE i \in n + 1 .. n + Len(f)
        <4>1. w[i] = <<"data", chunks[i - n]>>
          BY <1>7, <3>1
        <4> QED BY <1>11, <4>1
      <3>2. CASE i \in n + Len(f) + 1 .. Len(w)
        BY <1>8, <3>2
      <3> QED BY <1>10, <3>1, <3>2
    <2>2. ASSUME NEW i \in n + 1 .. Len(w), NEW k \in n + 1 .. Len(w), i < k, w[k][1] = "data"
          PROVE  w[i][2] < w[k][2]
      <3>1. k \in n + 1 .. n + Len(f)
        BY <1>8, <1>10, <1>12, <2>2
      <3>2. i \in n + 1 .. n + Len(f)
        BY <1>1, <1>2, <2>2, <3>1
      <3>3. i - n < k - n
        BY <1>1, <1>2, <2>2, <3>1, <3>2
      <3>4. chunks[i - n] < chunks[k - n]
        BY <1>7, <3>1, <3>2, <3>3 DEF Rising
      <3> QED BY <1>7, <1>11, <3>1, <3>2, <3>4
    <2> QED BY <2>1, <2>2 DEF Behind
  <1>14. Ordered(w)
    <2>1. n <= Len(w)
      BY <1>1, <1>2, <1>3, <1>5
    <2> QED BY <1>6, <1>13, <2>1 DEF Ordered, n, p
  <1>15. ASSUME NEW i \in 1 .. Len(w), w[i][1] = "data"
         PROVE  \E k \in 1 .. Len(chunks) : w[i][2] = chunks[k]
    <2>1. i \in n + 1 .. n + Len(f)
      BY <1>6, <1>8, <1>9, <1>12, <1>15
    <2>2. i - n \in 1 .. Len(chunks) /\ w[i] = <<"data", chunks[i - n]>>
      BY <1>7, <2>1
    <2> QED BY <1>11, <2>2
  <1>16. ASSUME more = <<>>, NEW i \in 1 .. Len(w)
         PROVE  w[i][1] # "end"
    <2>1. Len(more) = 0
      BY <1>3, <1>16
    <2>2. i \in 1 .. n \/ i \in n + 1 .. n + Len(f)
      BY <1>8, <1>9, <2>1
    <2> QED BY <1>6, <1>7, <1>11, <2>2
  <1> QED BY <1>14, <1>15, <1>16 DEF w

(* One more piece: a later chunk, or the end.                              *)
LEMMA GoesOnInOrder ==
  ASSUME NEW w \in Seq(Piece), Ordered(w), \A i \in 1 .. Len(w) : w[i][1] # "end",
         NEW piece, \/ piece = <<"end">>
                    \/ /\ piece[1] = "data"
                       /\ \A i \in 1 .. Len(w) : w[i][1] = "data" => w[i][2] < piece[2],
         NEW x, Len(x) = Len(w) + 1, x[Len(x)] = piece, \A i \in 1 .. Len(w) : x[i] = w[i]
  PROVE  Ordered(x)
PROOF
  <1>1. PICK d \in BOOLEAN : /\ Len(Preamble(d)) <= Len(w)
                             /\ \A i \in 1 .. Len(Preamble(d)) : w[i] = Preamble(d)[i]
                             /\ Behind(w, Len(Preamble(d)))
    BY DEF Ordered
  <1> DEFINE n == Len(Preamble(d))
  <1>2. n \in Nat /\ Len(w) \in Nat /\ n <= Len(w)
    BY <1>1, PreamblePieces, LenProperties
  <1>3. \A i \in 1 .. n : x[i] = Preamble(d)[i]
    BY <1>1, <1>2
  <1> HIDE DEF n
  <1>4. \A i \in n + 1 .. Len(x) : i \in n + 1 .. Len(w) \/ i = Len(x)
    BY <1>2
  <1>5. \A i \in n + 1 .. Len(w) : i \in 1 .. Len(w) /\ i # Len(x) /\ x[i] = w[i]
    BY <1>2
  <1>6. \A i \in n + 1 .. Len(w) : w[i][1] = "data"
    <2>1. <<"end">>[1] = "end"
      OBVIOUS
    <2> QED BY <1>1, <1>5, <2>1 DEF Behind, n
  <1>7. <<"end">>[1] # "data"
    OBVIOUS
  <1>8. ASSUME NEW i \in n + 1 .. Len(x), NEW k \in n + 1 .. Len(x), i < k, x[k][1] = "data"
        PROVE  x[i][2] < x[k][2]
    <2>1. i \in n + 1 .. Len(w)
      BY <1>2, <1>4, <1>8
    <2>2. CASE k \in n + 1 .. Len(w)
      BY <1>1, <1>5, <1>8, <2>1, <2>2 DEF Behind, n
    <2>3. CASE k = Len(x)
      <3>1. \A j \in 1 .. Len(w) : w[j][1] = "data" => w[j][2] < piece[2]
        BY <1>7, <1>8, <2>3
      <3> QED BY <1>5, <1>6, <2>1, <2>3, <3>1
    <2> QED BY <1>4, <2>2, <2>3
  <1>9. Behind(x, n)
    <2>1. ASSUME NEW i \in n + 1 .. Len(x)
          PROVE  x[i][1] = "data" \/ (x[i] = <<"end">> /\ i = Len(x))
      BY <1>4, <1>5, <1>6
    <2> QED BY <1>8, <2>1 DEF Behind
  <1>10. n <= Len(x)
    BY <1>2
  <1> QED BY <1>3, <1>9, <1>10 DEF Ordered, n

-----------------------------------------------------------------------------
(* The messages under way.                                                 *)

(* The page puts a message behind those under way.                         *)
LEMMA UpAppended ==
  ASSUME TypeInv, UpInv, NEW m \in Message, up' = Append(up, m), UNCHANGED doing, sent' \in Nat,
         \/ m[1] \notin {"chunk", "end"} /\ sent' = sent
         \/ m = <<"chunk", sent + 1>> /\ sent' = sent + 1 /\ sent < MaxChunks
         \/ m = <<"end">> /\ sent' = sent + 1 /\ sent = MaxChunks
  PROVE  UpInv'
PROOF
  <1>1. up \in Seq(Message) /\ Len(up) \in Nat /\ sent \in Nat /\ MaxChunks \in Nat
    BY BoundsAssumption, LenProperties DEF TypeInv
  <1>2. /\ Len(up') = Len(up) + 1 /\ up'[Len(up) + 1] = m
        /\ \A i \in 1 .. Len(up) : up'[i] = up[i]
    BY <1>1, AppendProperties
  <1>3. \A i \in 1 .. Len(up') : i \in 1 .. Len(up) \/ i = Len(up) + 1
    BY <1>1, <1>2
  <1>4. \A c : <<"chunk", c>>[1] = "chunk" /\ <<"chunk", c>>[2] = c
    OBVIOUS
  <1>5. <<"end">>[1] = "end"
    OBVIOUS
  <1>6. \A i \in 1 .. Len(up) : up[i][1] = "chunk" => up[i][2] \in Nat
    <2>1. \A i \in 1 .. Len(up) : up[i] \in Message
      BY <1>1, ElementOfSeq
    <2>2. \A e \in Message : e[1] = "chunk" => e[2] \in Nat
      BY <1>1 DEF Message
    <2> QED BY <2>1, <2>2
  <1>7. sent' # sent => \A i \in 1 .. Len(up) : up[i][1] # "end"
    BY <1>1 DEF UpInv
  <1>8. sent' # sent => doing \notin {"preprocessing", "waiting"}
    BY <1>1 DEF UpInv
  <1>9. m[1] = "chunk" => sent' = sent + 1 /\ m[2] = sent + 1
    BY <1>4, <1>5
  <1>10. m[1] = "end" => sent' = MaxChunks + 1 /\ sent' = sent + 1
    BY <1>4, <1>5
  <1>11. ASSUME NEW i \in 1 .. Len(up'), NEW k \in 1 .. Len(up'), i < k
         PROVE  /\ up'[i][1] = "chunk" /\ up'[k][1] = "chunk" => up'[i][2] < up'[k][2]
                /\ up'[i][1] = "end" => up'[k][1] \notin {"chunk", "end"}
    <2>1. i \in 1 .. Len(up)
      BY <1>1, <1>2, <1>11
    <2>2. CASE k \in 1 .. Len(up)
      BY <1>2, <1>11, <2>1, <2>2 DEF UpInv
    <2>3. CASE k = Len(up) + 1
      <3>1. up'[k] = m /\ up'[i] = up[i]
        BY <1>2, <2>1, <2>3
      <3>2. up[i][1] = "chunk" => up[i][2] <= sent /\ up[i][2] \in Nat
        BY <1>6, <2>1 DEF UpInv
      <3>3. up[i][1] = "chunk" /\ m[1] = "chunk" => up[i][2] < m[2]
        BY <1>1, <1>9, <3>2
      <3>4. up[i][1] = "end" => m[1] \notin {"chunk", "end"}
        BY <1>1, <1>7, <1>9, <1>10, <2>1
      <3> QED BY <3>1, <3>3, <3>4
    <2> QED BY <1>3, <2>2, <2>3
  <1>12. ASSUME NEW i \in 1 .. Len(up')
         PROVE  /\ up'[i][1] = "chunk" => up'[i][2] <= sent'
                /\ up'[i][1] = "end" => sent' = MaxChunks + 1
    <2>1. CASE i \in 1 .. Len(up)
      <3>1. up[i][1] = "chunk" => up[i][2] <= sent /\ up[i][2] \in Nat
        BY <1>6, <2>1 DEF UpInv
      <3>2. up[i][1] = "end" => sent' = sent /\ sent = MaxChunks + 1
        BY <1>7, <2>1 DEF UpInv
      <3>3. sent <= sent'
        BY <1>1
      <3> QED BY <1>1, <1>2, <2>1, <3>1, <3>2, <3>3
    <2>2. CASE i = Len(up) + 1
      BY <1>1, <1>2, <1>9, <1>10, <2>2
    <2> QED BY <1>3, <2>1, <2>2
  <1>13. doing' \in {"preprocessing", "waiting"} =>
           sent' = MaxChunks + 1 /\ \A i \in 1 .. Len(up') : up'[i][1] \notin {"chunk", "end"}
    <2> SUFFICES ASSUME doing \in {"preprocessing", "waiting"}
                 PROVE  sent' = MaxChunks + 1 /\ \A i \in 1 .. Len(up') : up'[i][1] \notin {"chunk", "end"}
      OBVIOUS
    <2>1. sent' = sent /\ sent = MaxChunks + 1 /\ \A i \in 1 .. Len(up) : up[i][1] \notin {"chunk", "end"}
      BY <1>8 DEF UpInv
    <2>2. m[1] \notin {"chunk", "end"}
      BY <1>1, <1>9, <1>10, <2>1
    <2> QED BY <1>2, <1>3, <2>1, <2>2
  <1> QED BY <1>11, <1>12, <1>13 DEF UpInv

(* The server takes the first message.                                     *)
LEMMA UpTaken ==
  ASSUME TypeInv, UpInv, up # <<>>, up' = Tail(up), UNCHANGED sent,
         doing' \in {"preprocessing", "waiting"} =>
           doing = doing' \/ Head(up)[1] = "end"
  PROVE  UpInv'
PROOF
  <1>1. /\ Head(up) = up[1] /\ Len(up) \in Nat /\ Len(up) > 0 /\ Len(up') = Len(up) - 1
        /\ \A i \in 1 .. Len(up) - 1 : i + 1 \in 1 .. Len(up) /\ up'[i] = up[i + 1]
    BY MessageTaken DEF TypeInv
  <1>2. \A i \in 1 .. Len(up') : i + 1 \in 1 .. Len(up) /\ up'[i] = up[i + 1] /\ 1 < i + 1
    BY <1>1
  <1>3. \A i, k \in 1 .. Len(up') : i < k => i + 1 < k + 1
    OBVIOUS
  <1>4. ASSUME NEW i \in 1 .. Len(up'), NEW k \in 1 .. Len(up'), i < k
        PROVE  /\ up'[i][1] = "chunk" /\ up'[k][1] = "chunk" => up'[i][2] < up'[k][2]
               /\ up'[i][1] = "end" => up'[k][1] \notin {"chunk", "end"}
    BY <1>2, <1>3, <1>4 DEF UpInv
  <1>5. ASSUME NEW i \in 1 .. Len(up')
        PROVE  /\ up'[i][1] = "chunk" => up'[i][2] <= sent'
               /\ up'[i][1] = "end" => sent' = MaxChunks + 1
    BY <1>2 DEF UpInv
  <1>6. ASSUME doing' \in {"preprocessing", "waiting"}
        PROVE  sent' = MaxChunks + 1 /\ \A i \in 1 .. Len(up') : up'[i][1] \notin {"chunk", "end"}
    <2>1. CASE doing = doing'
      BY <1>2, <1>6, <2>1 DEF UpInv
    <2>2. CASE Head(up)[1] = "end"
      <3>1. 1 \in 1 .. Len(up) /\ up[1][1] = "end"
        BY <1>1, <2>2
      <3> QED BY <1>2, <3>1 DEF UpInv
    <2> QED BY <1>6, <2>1, <2>2
  <1> QED BY <1>4, <1>5, <1>6 DEF UpInv

(* Chunks stay in order on the socket, and the end behind them.            *)
LEMMA StepUp ==
  ASSUME TypeInv, TypeInv', UpInv, Next
  PROVE  UpInv'
PROOF
  <1> USE DEF pageVars, inputVars, callVars, outputVars
  <1>0. MaxChunks \in Nat /\ sent \in Nat /\ sent' \in Nat
    BY BoundsAssumption DEF TypeInv
  <1>1. <<"config">> \in Message /\ <<"close">> \in Message /\ <<"end">> \in Message
    BY DEF Message
  <1>2. /\ <<"config">>[1] \notin {"chunk", "end"} /\ <<"close">>[1] \notin {"chunk", "end"}
    OBVIOUS
  <1>3. CASE SendConfig
    BY <1>0, <1>1, <1>2, <1>3, UpAppended DEF SendConfig, Sends
  <1>4. CASE SendChunk
    <2>1. /\ up' = Append(up, <<"chunk", sent + 1>>) /\ sent' = sent + 1 /\ sent < MaxChunks
          /\ UNCHANGED doing
      BY <1>4 DEF SendChunk, ChunkIsNext, Sends
    <2>2. <<"chunk", sent + 1>> \in Message
      BY <1>0, <2>1 DEF Message
    <2> QED BY <1>0, <2>1, <2>2, UpAppended
  <1>5. CASE SendEnd
    <2>1. up' = Append(up, <<"end">>) /\ sent' = sent + 1 /\ sent = MaxChunks /\ UNCHANGED doing
      BY <1>5 DEF SendEnd, Sends
    <2> QED BY <1>0, <1>1, <2>1, UpAppended
  <1>6. CASE SerializationFails
    <2>1. UNCHANGED <<up, doing>> /\ sent' = sent + 1 /\ sent < MaxChunks
      BY <1>6 DEF SerializationFails, ChunkIsNext
    <2>2. doing \notin {"preprocessing", "waiting"} /\ \A i \in 1 .. Len(up) : up[i][1] # "end"
      BY <1>0, <2>1 DEF UpInv
    <2>3. \A i \in 1 .. Len(up) : up[i][1] = "chunk" => up[i][2] <= sent'
      <3>1. \A i \in 1 .. Len(up) : up[i] \in Message
        BY ElementOfSeq DEF TypeInv
      <3>2. \A e \in Message : e[1] = "chunk" => e[2] \in Nat
        BY <1>0 DEF Message
      <3> QED BY <1>0, <2>1, <3>1, <3>2 DEF UpInv
    <2> QED BY <2>1, <2>2, <2>3 DEF UpInv
  <1>7. CASE Receive \/ Leave
    <2>1. UNCHANGED <<sent, doing>> /\ (up' = up \/ up' = Append(up, <<"close">>))
      BY <1>7 DEF Receive, Leave, PageUnchanged
    <2>2. CASE up' = up
      BY <2>1, <2>2 DEF UpInv
    <2> QED BY <1>0, <1>1, <1>2, <2>1, <2>2, UpAppended
  <1>8. CASE ConnectionBreaks
    <2>1. up' = <<<<"close">>>> /\ UNCHANGED <<sent, doing>>
      BY <1>8 DEF ConnectionBreaks, PageUnchanged
    <2>2. Len(up') = 1 /\ up'[1][1] = "close"
      BY <2>1
    <2>3. \A i \in 1 .. Len(up') : i = 1
      BY <2>2
    <2> QED BY <2>1, <2>2, <2>3 DEF UpInv
  <1>9. CASE SessionStep
    <2>1. up # <<>> /\ up' = Tail(up) /\ UNCHANGED sent
      BY <1>9 DEF SessionStep, HandleConfig, HandleChunk, HandleEnd, HandleClose, Arrives
    <2>2. doing' \in {"preprocessing", "waiting"} => doing = doing' \/ Head(up)[1] = "end"
      BY <1>9 DEF SessionStep, HandleConfig, HandleChunk, HandleEnd, HandleClose, Arrives
    <2> QED BY <2>1, <2>2, UpTaken
  <1>10. CASE Preprocessed
    <2>1. UNCHANGED <<up, sent>> /\ (doing' = "closed" \/ doing = "preprocessing")
      BY <1>10 DEF Preprocessed
    <2> QED BY <2>1 DEF UpInv
  <1>11. CASE ReturnsVideo \/ EndsTheCall \/ CallbackStep \/ PreviewEncoded \/ FfmpegFails
    <2>1. UNCHANGED <<up, sent, doing>>
      BY <1>11 DEF ReturnsVideo, EndsTheCall, Replies, CallbackStep, OnData, OnEnd, OnError, Finalized,
         FinalizingFails, TakesReply, PreviewEncoded, FfmpegFails
    <2> QED BY <2>1 DEF UpInv
  <1> QED BY <1>3, <1>4, <1>5, <1>6, <1>7, <1>8, <1>9, <1>10, <1>11 DEF Next, PageSends

(* A chunk that was taken stays before those under way.                    *)
LEMMA TakenStays ==
  ASSUME TypeInv, TypeInv', UpInv, Next, NEW n \in Nat, Taken(n, sent, up)
  PROVE  Taken(n, sent', up')
PROOF
  <1> USE DEF pageVars, inputVars, callVars, outputVars
  <1>0. MaxChunks \in Nat /\ sent \in Nat /\ sent' \in Nat /\ up \in Seq(Message) /\ Len(up) \in Nat
    BY BoundsAssumption, LenProperties DEF TypeInv
  <1>1. ASSUME NEW m, up' = Append(up, m), m[1] = "chunk" => n < m[2], sent <= sent'
        PROVE  Taken(n, sent', up')
    <2>1. m \in Message
      <3>1. Len(Append(up, m)) = Len(up) + 1 /\ Append(up, m)[Len(up) + 1] = m
        BY <1>0
      <3>2. Len(up) + 1 \in 1 .. Len(up')
        BY <1>0, <1>1, <3>1
      <3>3. up'[Len(up) + 1] \in Message
        BY <3>2, ElementOfSeq DEF TypeInv
      <3> QED BY <1>1, <3>1, <3>3
    <2>2. /\ Len(up') = Len(up) + 1 /\ up'[Len(up) + 1] = m
          /\ \A i \in 1 .. Len(up) : up'[i] = up[i]
      BY <1>0, <1>1, <2>1, AppendProperties
    <2>3. \A i \in 1 .. Len(up') : i \in 1 .. Len(up) \/ i = Len(up) + 1
      BY <1>0, <2>2
    <2>4. n <= sent'
      BY <1>0, <1>1 DEF Taken
    <2> QED BY <1>1, <2>2, <2>3, <2>4 DEF Taken
  <1>2. <<"config">>[1] # "chunk" /\ <<"close">>[1] # "chunk" /\ <<"end">>[1] # "chunk"
    OBVIOUS
  <1>3. CASE SendConfig
    BY <1>0, <1>1, <1>2, <1>3 DEF SendConfig, Sends
  <1>4. CASE SendChunk
    <2>1. up' = Append(up, <<"chunk", sent + 1>>) /\ sent' = sent + 1
      BY <1>4 DEF SendChunk, Sends
    <2>2. <<"chunk", sent + 1>>[2] = sent + 1 /\ n < sent + 1
      BY <1>0 DEF Taken
    <2> QED BY <1>0, <1>1, <2>1, <2>2
  <1>5. CASE SendEnd
    BY <1>0, <1>1, <1>2, <1>5 DEF SendEnd, Sends
  <1>6. CASE SerializationFails
    <2>1. up' = up /\ sent' = sent + 1
      BY <1>6 DEF SerializationFails
    <2> QED BY <1>0, <2>1 DEF Taken
  <1>7. CASE Receive \/ Leave
    <2>1. UNCHANGED sent /\ (up' = up \/ up' = Append(up, <<"close">>))
      BY <1>7 DEF Receive, Leave, PageUnchanged
    <2>2. CASE up' = up
      BY <2>1, <2>2 DEF Taken
    <2>3. CASE up' = Append(up, <<"close">>)
      <3>1. sent <= sent'
        BY <1>0, <2>1
      <3> QED BY <1>1, <1>2, <2>3, <3>1
    <2> QED BY <2>1, <2>2, <2>3
  <1>8. CASE ConnectionBreaks
    <2>1. up' = <<<<"close">>>> /\ UNCHANGED sent
      BY <1>8 DEF ConnectionBreaks, PageUnchanged
    <2>2. Len(up') = 1 /\ up'[1][1] = "close"
      BY <2>1
    <2>3. \A i \in 1 .. Len(up') : i = 1
      BY <2>2
    <2> QED BY <2>1, <2>2, <2>3 DEF Taken
  <1>9. CASE SessionStep
    <2>1. up # <<>> /\ up' = Tail(up) /\ UNCHANGED sent
      BY <1>9 DEF SessionStep, HandleConfig, HandleChunk, HandleEnd, HandleClose, Arrives
    <2>2. \A i \in 1 .. Len(up') : i + 1 \in 1 .. Len(up) /\ up'[i] = up[i + 1]
      BY <1>0, <2>1, MessageTaken
    <2> QED BY <2>1, <2>2 DEF Taken
  <1>10. CASE Preprocessed \/ ReturnsVideo \/ EndsTheCall \/ CallbackStep \/ PreviewEncoded \/ FfmpegFails
    <2>1. UNCHANGED <<up, sent>>
      BY <1>10 DEF Preprocessed, ReturnsVideo, EndsTheCall, Replies, CallbackStep, OnData, OnEnd, OnError, Finalized,
         FinalizingFails, TakesReply, PreviewEncoded, FfmpegFails
    <2> QED BY <2>1 DEF Taken
  <1> QED BY <1>3, <1>4, <1>5, <1>6, <1>7, <1>8, <1>9, <1>10 DEF Next, PageSends

(* What is numbered in the buffer and on the wire.                         *)
LEMMA NumbersOfChunks ==
  ASSUME TypeInv
  PROVE  /\ Len(buffer) \in Nat /\ \A i \in 1 .. Len(buffer) : buffer[i] \in Nat
         /\ \A i \in 1 .. Len(wire) : wire[i][1] = "data" => wire[i][2] \in Nat
PROOF
  <1>1. MaxChunks \in Nat
    BY BoundsAssumption
  <1>2. /\ Len(buffer) \in Nat
        /\ \A i \in 1 .. Len(buffer) : buffer[i] \in 1 .. MaxChunks
        /\ \A i \in 1 .. Len(wire) : wire[i] \in Piece
    BY ElementOfSeq, LenProperties DEF TypeInv
  <1>3. \A e \in Piece : e[1] = "data" => e[2] \in Nat
    BY <1>1 DEF Piece, Setting
  <1> QED BY <1>1, <1>2, <1>3

(* The steps that leave the input alone.                                   *)
LEMMA InputStays ==
  ASSUME TypeInv, TypeInv', UpInv, InputInv, Next,
         UNCHANGED <<option, preprocess, buffer, wire>>,
         call' = "none" <=> call = "none",
         \/ UNCHANGED doing
         \/ doing' = "closed" /\ doing # "preprocessing"
         \/ doing' = "closed_preprocessing" /\ doing = "preprocessing"
  PROVE  InputInv'
PROOF
  <1>1. \A n \in Nat : Taken(n, sent, up) => Taken(n, sent', up')
    BY TakenStays
  <1>2. /\ Len(buffer) \in Nat /\ \A i \in 1 .. Len(buffer) : buffer[i] \in Nat
        /\ \A i \in 1 .. Len(wire) : wire[i][1] = "data" => wire[i][2] \in Nat
    BY NumbersOfChunks
  <1>3. /\ ~preprocess' => ~Preprocesses'
        /\ (preprocess' /\ doing' = "receiving") \/ doing' \in {"preprocessing", "closed_preprocessing"} =>
             call' = "none"
        /\ call' = "none" => wire' = <<>>
        /\ doing' = "receiving" => \A i \in 1 .. Len(wire') : wire'[i][1] # "end"
    BY DEF InputInv, Preprocesses
  <1>4. Rising(buffer')
    BY DEF InputInv
  <1>5. \A i \in 1 .. Len(buffer') : Taken(buffer'[i], sent', up')
    BY <1>1, <1>2 DEF InputInv
  <1>6. \A i \in 1 .. Len(wire') : wire'[i][1] = "data" => Taken(wire'[i][2], sent', up')
    BY <1>1, <1>2 DEF InputInv
  <1>7. call' # "none" => Ordered(wire')
    BY DEF InputInv
  <1> QED BY <1>3, <1>4, <1>5, <1>6, <1>7 DEF InputInv

(* A chunk is taken: it is kept, or sent on.                               *)
LEMMA ChunkInput ==
  ASSUME TypeInv, TypeInv', UpInv, InputInv, HandleChunk
  PROVE  InputInv'
PROOF
  <1> USE DEF pageVars, inputVars, callVars, outputVars
  <1> DEFINE n == Head(up)[2]
  <1>1. Next
    BY DEF Next, SessionStep
  <1>2. /\ up # <<>> /\ Head(up)[1] = "chunk" /\ doing \notin {"closed", "closed_preprocessing"}
        /\ up' = Tail(up) /\ UNCHANGED <<option, sent, preprocess, doing>>
    BY DEF HandleChunk, Arrives, Closed
  <1>3. /\ Head(up) = up[1] /\ up[1] \in Message /\ Len(up) \in Nat /\ 1 \in 1 .. Len(up)
        /\ \A i \in 1 .. Len(up') : i + 1 \in 1 .. Len(up) /\ up'[i] = up[i + 1] /\ 1 < i + 1
    BY <1>2, MessageTaken DEF TypeInv
  <1>4. MaxChunks \in Nat /\ n \in 1 .. MaxChunks /\ n \in Nat
    <2>1. MaxChunks \in Nat
      BY BoundsAssumption
    <2>2. \A e \in Message : e[1] = "chunk" => e[2] \in 1 .. MaxChunks
      BY DEF Message
    <2> QED BY <1>2, <1>3, <2>1, <2>2
  <1>5. Taken(n, sent', up')
    BY <1>2, <1>3 DEF UpInv, Taken
  <1>6. \A m \in Nat : Taken(m, sent, up) => m < n /\ Taken(m, sent', up')
    BY <1>1, <1>2, <1>3, TakenStays DEF Taken
  <1> HIDE DEF n
  <1>7. /\ buffer \in Seq(1 .. MaxChunks) /\ Len(buffer) \in Nat /\ \A i \in 1 .. Len(buffer) : buffer[i] \in Nat
        /\ \A i \in 1 .. Len(wire) : wire[i][1] = "data" => wire[i][2] \in Nat
        /\ wire \in Seq(Piece) /\ Len(wire) \in Nat /\ call \in {"none", "open", "over"}
    BY NumbersOfChunks, LenProperties DEF TypeInv
  <1>8. doing = "receiving"
    BY <1>2, <1>3 DEF UpInv, TypeInv
  <1>9. CASE preprocess
    <2>1. buffer' = Append(buffer, n) /\ UNCHANGED <<call, wire>>
      BY <1>9 DEF HandleChunk, n
    <2>2. /\ Len(buffer') = Len(buffer) + 1 /\ buffer'[Len(buffer) + 1] = n
          /\ \A i \in 1 .. Len(buffer) : buffer'[i] = buffer[i]
      BY <1>4, <1>7, <2>1, AppendProperties
    <2>3. \A i \in 1 .. Len(buffer') : i \in 1 .. Len(buffer) \/ i = Len(buffer) + 1
      BY <1>7, <2>2
    <2>4. \A i \in 1 .. Len(buffer) : buffer[i] < n /\ Taken(buffer[i], sent', up')
      BY <1>6, <1>7 DEF InputInv
    <2>5. Rising(buffer')
      <3> SUFFICES ASSUME NEW i \in 1 .. Len(buffer'), NEW k \in 1 .. Len(buffer'), i < k
                   PROVE  buffer'[i] < buffer'[k]
        BY DEF Rising
      <3>1. i \in 1 .. Len(buffer)
        BY <1>7, <2>2
      <3>2. CASE k \in 1 .. Len(buffer)
        BY <2>2, <3>1, <3>2 DEF InputInv, Rising
      <3>3. CASE k = Len(buffer) + 1
        BY <2>2, <2>4, <3>1, <3>3
      <3> QED BY <2>3, <3>2, <3>3
    <2>6. \A i \in 1 .. Len(buffer') : Taken(buffer'[i], sent', up')
      BY <1>5, <2>2, <2>3, <2>4
    <2>7. \A i \in 1 .. Len(wire') : wire'[i][1] = "data" => Taken(wire'[i][2], sent', up')
      BY <1>6, <1>7, <2>1 DEF InputInv
    <2>8. call = "none" /\ wire = <<>>
      BY <1>8, <1>9 DEF InputInv
    <2> QED BY <1>2, <1>9, <2>1, <2>5, <2>6, <2>7, <2>8 DEF InputInv, Preprocesses
  <1>10. CASE ~preprocess
    <2> DEFINE d == IF custom THEN option.diarization ELSE "none"
    <2>1. Upstream(<<n>>, d, <<>>) /\ UNCHANGED buffer
      BY <1>10 DEF HandleChunk, n
    <2> HIDE DEF d
    <2>2. Rising(buffer') /\ \A i \in 1 .. Len(buffer') : Taken(buffer'[i], sent', up')
      BY <1>6, <1>7, <2>1 DEF InputInv
    <2>3. ~preprocess' /\ ~Preprocesses' /\ doing' = "receiving"
      BY <1>2, <1>8, <1>10 DEF InputInv, Preprocesses
    <2>4. /\ \A i \in 1 .. Len(wire) : wire[i][1] # "end"
          /\ \A i \in 1 .. Len(wire) : wire[i][1] = "data" => wire[i][2] < n /\ Taken(wire[i][2], sent', up')
      BY <1>6, <1>7, <1>8 DEF InputInv
    <2>5. /\ <<n>> \in Seq(1 .. MaxChunks) /\ Len(<<n>>) = 1 /\ <<n>>[1] = n /\ Rising(<<n>>)
          /\ \A k \in 1 .. Len(<<n>>) : <<n>>[k] = n
      BY <1>4 DEF Rising
    <2>6. CASE call = "none" /\ d # "malformed"
      <3>1. call' = "open" /\ wire' = Preamble(d = "readable") \o Flat(<<n>>) \o <<>>
        BY <2>1, <2>6 DEF Upstream
      <3>2. PICK b \in BOOLEAN, c \in Seq(1 .. MaxChunks), more \in {<<>>, <<<<"end">>>>} :
              c = <<n>> /\ more = <<>> /\ wire' = Written(b, c, more)
        BY <2>5, <3>1, Zenon DEF Written
      <3>3. /\ Ordered(wire')
            /\ \A i \in 1 .. Len(wire') : wire'[i][1] = "data" => wire'[i][2] = n
            /\ \A i \in 1 .. Len(wire') : wire'[i][1] # "end"
        <4>1. Rising(c) /\ \A k \in 1 .. Len(c) : c[k] = n
          <5>1. c = <<n>>
            BY <3>2
          <5> QED BY <2>5, <5>1
        <4>2. /\ Ordered(wire')
              /\ \A i \in 1 .. Len(wire') : wire'[i][1] = "data" => \E k \in 1 .. Len(c) : wire'[i][2] = c[k]
              /\ \A i \in 1 .. Len(wire') : wire'[i][1] # "end"
          <5> DEFINE v == Written(b, c, more)
          <5>1. /\ Ordered(v)
                /\ \A i \in 1 .. Len(v) : v[i][1] = "data" => \E k \in 1 .. Len(c) : v[i][2] = c[k]
                /\ more = <<>> => \A i \in 1 .. Len(v) : v[i][1] # "end"
            BY <4>1, OpensInOrder
          <5>2. wire' = v /\ more = <<>>
            BY <3>2
          <5> HIDE DEF v
          <5> QED BY <5>1, <5>2
        <4> QED BY <4>1, <4>2
      <3>4. \A i \in 1 .. Len(wire') : wire'[i][1] = "data" => Taken(wire'[i][2], sent', up')
        BY <1>5, <3>3
      <3> QED BY <2>2, <2>3, <3>1, <3>3, <3>4 DEF InputInv
    <2>7. CASE call = "open"
      <3>1. call' = "open" /\ wire' = wire \o Flat(<<n>>) \o <<>>
        BY <2>1, <2>7 DEF Upstream
      <3>2. Flat(<<n>>) \in Seq(Piece) /\ Len(Flat(<<n>>)) = 1 /\ Flat(<<n>>)[1] = <<"data", n>>
        <4>1. PICK c \in Seq(1 .. MaxChunks) : c = <<n>>
          BY <2>5
        <4>2. /\ Flat(c) \in Seq(Piece) /\ Len(Flat(c)) = Len(c)
              /\ \A i \in 1 .. Len(c) : Flat(c)[i] = <<"data", c[i]>>
          BY FlatType
        <4>3. Len(c) = 1 /\ c[1] = n /\ 1 \in 1 .. Len(c)
          BY <4>1
        <4>4. Flat(c)[1] = <<"data", n>>
          BY <4>2, <4>3
        <4> QED BY <4>1, <4>2, <4>3, <4>4
      <3>3. <<>> \in Seq(Piece) /\ Len(<<>>) = 0
        BY EmptySeq
      <3>4. /\ Len(wire') = Len(wire) + 1
            /\ \A i \in 1 .. Len(wire) + 1 :
                 wire'[i] = IF i <= Len(wire) THEN wire[i] ELSE Flat(<<n>>)[i - Len(wire)]
        <4>1. /\ Len(wire') = Len(wire) + Len(Flat(<<n>>)) + Len(<<>>)
              /\ \A i \in 1 .. Len(wire) + Len(Flat(<<n>>)) + Len(<<>>) :
                   wire'[i] = IF i <= Len(wire) THEN wire[i]
                              ELSE IF i <= Len(wire) + Len(Flat(<<n>>)) THEN Flat(<<n>>)[i - Len(wire)]
                              ELSE <<>>[i - (Len(wire) + Len(Flat(<<n>>)))]
          BY <1>7, <3>1, <3>2, <3>3, Parts
        <4>2. Len(wire) + Len(Flat(<<n>>)) = Len(wire) + 1
          BY <3>2
        <4>3. Len(wire) + Len(Flat(<<n>>)) + Len(<<>>) = Len(wire) + 1
          <5>1. \A j \in Nat : j + 0 = j
            OBVIOUS
          <5>2. Len(wire) + 1 \in Nat
            BY <1>7
          <5> QED BY <3>3, <4>2, <5>1, <5>2
        <4> QED BY <1>7, <4>1, <4>2, <4>3
      <3>5. wire'[Len(wire')] = <<"data", n>>
        BY <1>7, <3>2, <3>4
      <3>6. \A i \in 1 .. Len(wire) : wire'[i] = wire[i]
        BY <1>7, <3>4
      <3>7. \A i \in 1 .. Len(wire') : i \in 1 .. Len(wire) \/ i = Len(wire')
        BY <1>7, <3>4
      <3>8. <<"data", n>>[1] = "data" /\ <<"data", n>>[2] = n
        OBVIOUS
      <3>9. Ordered(wire)
        BY <2>7 DEF InputInv
      <3>10. Ordered(wire')
        BY <1>7, <2>4, <3>4, <3>5, <3>6, <3>8, <3>9, GoesOnInOrder
      <3>11. \A i \in 1 .. Len(wire') : /\ wire'[i][1] = "data" => Taken(wire'[i][2], sent', up')
                                       /\ wire'[i][1] # "end"
        BY <1>5, <2>4, <3>5, <3>6, <3>7, <3>8
      <3> QED BY <2>2, <2>3, <3>1, <3>10, <3>11 DEF InputInv
    <2>8. CASE call = "over" \/ (call = "none" /\ d = "malformed")
      <3>1. UNCHANGED <<call, wire>>
        BY <2>1, <2>8 DEF Upstream
      <3>2. \A i \in 1 .. Len(wire') : wire'[i][1] = "data" => Taken(wire'[i][2], sent', up')
        BY <2>4, <3>1
      <3> QED BY <2>2, <2>3, <2>4, <3>1, <3>2 DEF InputInv
    <2> QED BY <1>7, <2>6, <2>7, <2>8
  <1> QED BY <1>9, <1>10

(* The input of the controller is written in its order.                    *)
LEMMA StepInput ==
  ASSUME TypeInv, TypeInv', UpInv, InputInv, Next
  PROVE  InputInv'
PROOF
  <1> USE DEF pageVars, inputVars, callVars, outputVars
  <1>1. \A n \in Nat : Taken(n, sent, up) => Taken(n, sent', up')
    BY TakenStays
  <1>2. /\ Len(buffer) \in Nat /\ \A i \in 1 .. Len(buffer) : buffer[i] \in Nat
        /\ \A i \in 1 .. Len(wire) : wire[i][1] = "data" => wire[i][2] \in Nat
    BY NumbersOfChunks
  <1>3. /\ Rising(buffer)
        /\ \A i \in 1 .. Len(buffer) : Taken(buffer[i], sent', up')
        /\ \A i \in 1 .. Len(wire) : wire[i][1] = "data" => Taken(wire[i][2], sent', up')
    BY <1>1, <1>2 DEF InputInv
  <1>4. CASE PageSends \/ Receive \/ Leave \/ ConnectionBreaks \/ ReturnsVideo \/ EndsTheCall
              \/ CallbackStep \/ PreviewEncoded \/ FfmpegFails
    <2>1. UNCHANGED <<option, preprocess, buffer, wire, doing>>
      BY <1>4 DEF PageSends, SendConfig, SendChunk, SendEnd, SerializationFails, Sends, Receive, Leave,
         ConnectionBreaks, PageUnchanged, ReturnsVideo, EndsTheCall, Replies, CallbackStep, OnData, OnEnd,
         OnError, Finalized, FinalizingFails, TakesReply, PreviewEncoded, FfmpegFails
    <2>2. call' = "none" <=> call = "none"
      BY <1>4 DEF PageSends, SendConfig, SendChunk, SendEnd, SerializationFails, Sends, Receive, Leave,
         ConnectionBreaks, PageUnchanged, ReturnsVideo, EndsTheCall, Replies, CallbackStep, OnData, OnEnd,
         OnError, Finalized, FinalizingFails, TakesReply, PreviewEncoded, FfmpegFails
    <2> QED BY <2>1, <2>2, InputStays
  <1>5. CASE HandleConfig
    <2>1. UNCHANGED <<option, buffer, wire, doing, call>> /\ (preprocess' <=> Preprocesses)
      BY <1>5 DEF HandleConfig, Preprocesses
    <2>2. ~preprocess' => ~Preprocesses'
      BY <2>1 DEF Preprocesses
    <2>3. preprocess' => preprocess
      BY <2>1 DEF InputInv
    <2> QED BY <1>3, <2>1, <2>2, <2>3 DEF InputInv
  <1>6. CASE HandleChunk
    BY <1>6, ChunkInput
  <1>7. CASE HandleEnd
    <2>1. /\ up # <<>> /\ Head(up)[1] = "end" /\ doing \notin {"closed", "closed_preprocessing"}
          /\ UNCHANGED <<option, preprocess, buffer, call>>
          /\ doing' = IF preprocess THEN "preprocessing" ELSE "waiting"
          /\ wire' = IF ~preprocess /\ call = "open" THEN Append(wire, <<"end">>) ELSE wire
      BY <1>7 DEF HandleEnd, Arrives, Closed
    <2>2. doing = "receiving"
      <3>1. Head(up) = up[1] /\ 1 \in 1 .. Len(up)
        BY <2>1, MessageTaken DEF TypeInv
      <3> QED BY <2>1, <3>1 DEF UpInv, TypeInv
    <2>3. ~preprocess' => ~Preprocesses'
      BY <2>1 DEF InputInv, Preprocesses
    <2>4. CASE ~preprocess /\ call = "open"
      <3>1. wire \in Seq(Piece) /\ Len(wire) \in Nat /\ <<"end">> \in Piece
        BY LenProperties DEF TypeInv, Piece
      <3>2. /\ Len(wire') = Len(wire) + 1 /\ wire'[Len(wire')] = <<"end">>
            /\ \A i \in 1 .. Len(wire) : wire'[i] = wire[i]
        BY <2>1, <2>4, <3>1, AppendProperties
      <3>3. Ordered(wire) /\ \A i \in 1 .. Len(wire) : wire[i][1] # "end"
        BY <2>2, <2>4 DEF InputInv
      <3>4. Ordered(wire')
        BY <3>1, <3>2, <3>3, GoesOnInOrder
      <3>5. <<"end">>[1] # "data"
        OBVIOUS
      <3>6. \A i \in 1 .. Len(wire') : i \in 1 .. Len(wire) \/ i = Len(wire')
        BY <3>1, <3>2
      <3>7. \A i \in 1 .. Len(wire') : wire'[i][1] = "data" => Taken(wire'[i][2], sent', up')
        BY <1>3, <3>2, <3>5, <3>6
      <3> QED BY <1>3, <2>1, <2>3, <2>4, <3>4, <3>7 DEF InputInv
    <2>5. CASE ~(~preprocess /\ call = "open")
      <3>1. wire' = wire
        BY <2>1, <2>5
      <3>2. doing' = "preprocessing" => call = "none"
        BY <2>1, <2>2 DEF InputInv
      <3> QED BY <1>3, <2>1, <2>3, <3>1, <3>2 DEF InputInv
    <2> QED BY <2>4, <2>5
  <1>8. CASE HandleClose
    <2>1. /\ UNCHANGED <<option, preprocess, buffer, wire>>
          /\ doing' = IF doing = "preprocessing" THEN "closed_preprocessing" ELSE "closed"
          /\ call' = "none" <=> call = "none"
      BY <1>8 DEF HandleClose
    <2> QED BY <2>1, InputStays
  <1>9. CASE Preprocessed
    <2>1. PICK d : Upstream(buffer, d, <<<<"end">>>>)
      BY <1>9 DEF Preprocessed
    <2>2. doing \in {"preprocessing", "closed_preprocessing"} /\ doing' \in {"waiting", "closed"}
          /\ UNCHANGED <<option, preprocess, buffer>>
      BY <1>9 DEF Preprocessed
    <2>3. call = "none" /\ wire = <<>> /\ (~preprocess' => ~Preprocesses')
      BY <2>2 DEF InputInv, Preprocesses
    <2>4. CASE d = "malformed"
      <3>1. UNCHANGED <<call, wire>>
        BY <2>1, <2>3, <2>4 DEF Upstream
      <3> QED BY <1>3, <2>2, <2>3, <3>1 DEF InputInv
    <2>5. CASE d # "malformed"
      <3>1. call' = "open" /\ wire' = Preamble(d = "readable") \o Flat(buffer) \o <<<<"end">>>>
        BY <2>1, <2>3, <2>5 DEF Upstream
      <3>2. PICK b \in BOOLEAN, more \in {<<>>, <<<<"end">>>>} :
              wire' = Written(b, buffer, more)
        BY <3>1, Zenon DEF Written
      <3>5. buffer \in Seq(1 .. MaxChunks) /\ Rising(buffer)
        BY <1>3 DEF TypeInv
      <3>3. /\ Ordered(wire')
            /\ \A i \in 1 .. Len(wire') : wire'[i][1] = "data" =>
                 \E k \in 1 .. Len(buffer) : wire'[i][2] = buffer[k]
        BY <3>2, <3>5, OpensInOrder
      <3>4. \A i \in 1 .. Len(wire') : wire'[i][1] = "data" => Taken(wire'[i][2], sent', up')
        BY <1>3, <3>3
      <3> QED BY <1>3, <2>2, <2>3, <3>1, <3>3, <3>4 DEF InputInv
    <2> QED BY <2>4, <2>5
  <1> QED BY <1>4, <1>5, <1>6, <1>7, <1>8, <1>9 DEF Next, SessionStep

-----------------------------------------------------------------------------
(* The invariant and what follows from it.                                 *)

(* The parts of the invariant hold together in every state of an upload.   *)
THEOREM Invariance == Spec => []Inv
PROOF
  <1>1. Inv /\ [Next]_vars => Inv'
    <2> SUFFICES ASSUME Inv, [Next]_vars PROVE Inv'
      OBVIOUS
    <2>1. CASE Next
      <3>1. TypeInv /\ DownInv /\ OutcomeInv /\ UpInv /\ InputInv
        BY DEF Inv
      <3>2. TypeInv'
        BY <2>1, <3>1, StepType
      <3>3. DownInv' /\ OutcomeInv' /\ UpInv' /\ InputInv'
        BY <2>1, <3>1, <3>2, StepDown, StepOutcome, StepUp, StepInput
      <3> QED BY <3>2, <3>3 DEF Inv
    <2>2. CASE UNCHANGED vars
      <3> USE <2>2 DEF vars, pageVars, inputVars, callVars, outputVars
      <3>1. TypeInv' /\ DownInv' /\ UpInv'
        BY DEF Inv, TypeInv, DownInv, UpInv
      <3>2. OutcomeInv'
        <4>1. Ended => Ended'
          BY DEF Ended
        <4> QED BY <4>1, OutcomeStays DEF Inv
      <3>3. InputInv'
        BY DEF Inv, InputInv, Preprocesses, Taken, Rising, Ordered, Behind
      <3> QED BY <3>1, <3>2, <3>3 DEF Inv
    <2> QED BY <2>1, <2>2
  <1> QED BY <1>1, InitInv, PTL DEF Spec

(* The page is told one final message, and it is a result only when the    *)
(* controller has ended the call well and its video is in the file.        *)
THEOREM ToldOnce == Spec => []OneOutcome
PROOF
  <1>1. Inv => OneOutcome
    <2> SUFFICES ASSUME Inv PROVE OneOutcome
      OBVIOUS
    <2>1. call \in {"none", "open", "over"}
      BY DEF Inv, TypeInv
    <2>2. OutcomeInv
      BY DEF Inv
    <2>3. \/ outcomes = <<>>
          \/ Len(outcomes) = 1 /\ (outcomes = <<"result">> => Ended /\ file = returned)
      BY <2>1, <2>2 DEF OutcomeInv
    <2>4. Len(<<>>) = 0 /\ Len(<<"result">>) = 1
      OBVIOUS
    <2>5. Len(outcomes) = 0 \/ Len(outcomes) = 1
      <3>1. outcomes = <<>> => Len(outcomes) = 0
        BY <2>4
      <3> QED BY <2>3, <3>1
    <2>6. Len(outcomes) <= 1
      <3>1. 0 <= 1 /\ 1 <= 1
        OBVIOUS
      <3> QED BY <2>5, <3>1, Zenon
    <2>7. outcomes = <<"result">> => Ended /\ file = returned
      BY <2>3, <2>4
    <2> QED BY <2>6, <2>7 DEF OneOutcome
  <1> QED BY <1>1, Invariance, PTL

(* Wherever the configuration comes between the chunks, the input of the   *)
(* controller is the preamble, the chunks in their order and the end last. *)
THEOREM InputComesInOrder == Spec => []InputIsInOrder
PROOF
  <1>1. Inv => InputIsInOrder
    BY DEF Inv, InputInv, Ordered, Behind, InputIsInOrder
  <1> QED BY <1>1, Invariance, PTL

-----------------------------------------------------------------------------
(* The rest is about PipelineBuild.  What it proves rests on the platform's*)
(* status of the applications and on the position of each build.           *)

BuildType ==
  /\ app \in [Service -> {"none", "starting", "running", "failed", "deleting"}]
  /\ saved \in Mode
  /\ at \in [Build -> Step \cup Over \cup {"idle", "start", "finish", "fail"}]
  /\ stage \in [Build -> {"set", "act", "removal", "create", "file"}]
  /\ mode \in [Build -> Mode]
  /\ orphan \in [Build -> Nims \cup {"none"}]
  /\ fresh \in [Build -> SUBSET Service]

(* The plans as the order of their steps.                                  *)
Following(m, step) ==
  CASE step = "validate" -> "cleanup"
    [] step = "cleanup" -> IF m = "SERVERLESS" THEN "serverless_nims" ELSE "lipsync"
    [] step = "lipsync" -> IF "asd" \in Nims THEN "asd" ELSE "s2s"
    [] step \in {"serverless_nims", "asd"} -> "s2s"
    [] step = "s2s" -> "wait_s2s"
    [] step = "wait_s2s" -> "wire"
    [] step = "wire" -> "controller"
    [] step = "controller" -> "ready"
    [] OTHER -> "finish"

Steps(m) ==
  {"validate", "cleanup", "s2s", "wait_s2s", "wire", "controller", "ready"}
  \cup (IF m = "SERVERLESS" THEN {"serverless_nims"} ELSE Nims)

(* A build is in a step of its own plan, and in a stage that the step has. *)
Positioned(b) ==
  /\ at[b] \in Step => at[b] \in Steps(mode[b])
  /\ stage[b] = "set" => at[b] = "validate"
  /\ stage[b] = "removal" => at[b] \in Service \cup {"cleanup"}
  /\ stage[b] = "create" => at[b] \in Service
  /\ stage[b] = "file" => at[b] = "wait_s2s"
  /\ at[b] \in {"idle", "start", "validate"} => orphan[b] = "lipsync"

(* The applications that the build has still to replace, and those of the  *)
(* other mode that it has still to look up.                                *)
Awaited(b) ==
  CASE at[b] \in {"validate", "cleanup", "serverless_nims", "lipsync"} -> Required(mode[b])
    [] at[b] = "asd" -> Required(mode[b]) \ {"lipsync"}
    [] at[b] = "s2s" -> {"s2s", "controller"}
    [] at[b] \in {"wait_s2s", "wire", "controller"} -> {"controller"}
    [] OTHER -> {}

Unvisited(b) ==
  CASE at[b] = "validate" -> Nims
    [] at[b] = "cleanup" -> IF orphan[b] = "lipsync" THEN Nims ELSE {orphan[b]}
    [] OTHER -> {}

(* The application is not there, or is newer than the build.               *)
Clean(b, k) == app[k] = "none" \/ k \in fresh[b]

(* What a build has dealt with stays clean, whatever the others do.        *)
Counts(b) == (Live(b) /\ at[b] # "fail") \/ at[b] = "succeeded"

Dealt(b) ==
  Counts(b) =>
    \A k \in Service : k \in Awaited(b) \/ (k \in Unvisited(b) \ Required(mode[b])) \/ Clean(b, k)

BuildInv ==
  /\ BuildType
  /\ \A b \in Build : Positioned(b)
  /\ \A b \in Build : Dealt(b)

-----------------------------------------------------------------------------
(* The plans.                                                              *)

(* The plan of a mode, out of its parts.                                   *)
LEMMA PlanOf ==
  ASSUME NEW m \in Mode
  PROVE  Plan[m] = <<"validate", "cleanup">>
                   \o (IF m = "SERVERLESS" THEN <<"serverless_nims">>
                       ELSE IF "asd" \in Nims THEN <<"lipsync", "asd">> ELSE <<"lipsync">>)
                   \o <<"s2s", "wait_s2s", "wire", "controller", "ready">>
PROOF
  BY DEF Plan

(* The step that follows the i-th one of a plan without repetitions.       *)
LEMMA AfterIndex ==
  ASSUME NEW m \in Mode, NEW i \in DOMAIN Plan[m],
         \A j \in DOMAIN Plan[m] : Plan[m][j] = Plan[m][i] => j = i
  PROVE  After[m][Plan[m][i]] = IF i = Len(Plan[m]) THEN "finish" ELSE Plan[m][i + 1]
PROOF
  <1>1. Plan[m][i] \in Range(Plan[m])
    BY DEF Range
  <1>2. (CHOOSE j \in DOMAIN Plan[m] : Plan[m][j] = Plan[m][i]) = i
    OBVIOUS
  <1> QED BY <1>1, <1>2 DEF After

(* The steps of each plan are Steps, and Following is their order.         *)
LEMMA PlanSteps ==
  ASSUME NEW m \in Mode
  PROVE  /\ Range(Plan[m]) = Steps(m)
         /\ \A step \in Steps(m) : After[m][step] = Following(m, step)
PROOF
  <1>1. CASE m = "SERVERLESS"
    <2>0. Plan[m] = <<"validate", "cleanup">> \o <<"serverless_nims">> \o <<"s2s", "wait_s2s", "wire", "controller", "ready">>
      BY <1>1, PlanOf
    <2>1. DOMAIN Plan[m] = 1 .. 8 /\ Len(Plan[m]) = 8
      BY <2>0
    <2>2. /\ Plan[m][1] = "validate" /\ Plan[m][2] = "cleanup" /\ Plan[m][3] = "serverless_nims"
          /\ Plan[m][4] = "s2s" /\ Plan[m][5] = "wait_s2s" /\ Plan[m][6] = "wire"
          /\ Plan[m][7] = "controller" /\ Plan[m][8] = "ready"
      BY <2>0
    <2>3. Range(Plan[m]) = Steps(m)
      BY <1>1, <2>1, <2>2 DEF Range, Steps
    <2>4. ASSUME NEW i \in 1 .. 8
          PROVE  After[m][Plan[m][i]] = IF i = 8 THEN "finish" ELSE Plan[m][i + 1]
      <3>1. \A j \in 1 .. 8 : Plan[m][j] = Plan[m][i] => j = i
        BY <2>2
      <3>2. i \in DOMAIN Plan[m] /\ \A j \in DOMAIN Plan[m] : Plan[m][j] = Plan[m][i] => j = i
        BY <2>1, <3>1
      <3>3. After[m][Plan[m][i]] = IF i = Len(Plan[m]) THEN "finish" ELSE Plan[m][i + 1]
        BY <3>2, AfterIndex
      <3> QED BY <2>1, <3>3
    <2>5. /\ After[m]["validate"] = "cleanup"
          /\ After[m]["cleanup"] = "serverless_nims"
          /\ After[m]["serverless_nims"] = "s2s"
          /\ After[m]["s2s"] = "wait_s2s"
          /\ After[m]["wait_s2s"] = "wire"
          /\ After[m]["wire"] = "controller"
          /\ After[m]["controller"] = "ready"
          /\ After[m]["ready"] = "finish"
      BY <2>2, <2>4
    <2>6. ASSUME NEW step \in Steps(m) PROVE After[m][step] = Following(m, step)
      BY <1>1, <2>5, <2>6 DEF Steps, Following
    <2> QED BY <2>3, <2>6
  <1>2. CASE m = "BUNDLED" /\ "asd" \in Nims
    <2>0. Plan[m] = <<"validate", "cleanup">> \o <<"lipsync", "asd">> \o <<"s2s", "wait_s2s", "wire", "controller", "ready">>
      BY <1>2, PlanOf
    <2>1. DOMAIN Plan[m] = 1 .. 9 /\ Len(Plan[m]) = 9
      BY <2>0
    <2>2. /\ Plan[m][1] = "validate" /\ Plan[m][2] = "cleanup" /\ Plan[m][3] = "lipsync"
          /\ Plan[m][4] = "asd" /\ Plan[m][5] = "s2s" /\ Plan[m][6] = "wait_s2s"
          /\ Plan[m][7] = "wire" /\ Plan[m][8] = "controller" /\ Plan[m][9] = "ready"
      BY <2>0
    <2>3. Range(Plan[m]) = Steps(m)
      <3>1. Nims = {"lipsync", "asd"}
        BY <1>2, NimsAssumption
      <3> QED BY <1>2, <2>1, <2>2, <3>1 DEF Range, Steps
    <2>4. ASSUME NEW i \in 1 .. 9
          PROVE  After[m][Plan[m][i]] = IF i = 9 THEN "finish" ELSE Plan[m][i + 1]
      <3>1. \A j \in 1 .. 9 : Plan[m][j] = Plan[m][i] => j = i
        BY <2>2
      <3>2. i \in DOMAIN Plan[m] /\ \A j \in DOMAIN Plan[m] : Plan[m][j] = Plan[m][i] => j = i
        BY <2>1, <3>1
      <3>3. After[m][Plan[m][i]] = IF i = Len(Plan[m]) THEN "finish" ELSE Plan[m][i + 1]
        BY <3>2, AfterIndex
      <3> QED BY <2>1, <3>3
    <2>5. /\ After[m]["validate"] = "cleanup"
          /\ After[m]["cleanup"] = "lipsync"
          /\ After[m]["lipsync"] = "asd"
          /\ After[m]["asd"] = "s2s"
          /\ After[m]["s2s"] = "wait_s2s"
          /\ After[m]["wait_s2s"] = "wire"
          /\ After[m]["wire"] = "controller"
          /\ After[m]["controller"] = "ready"
          /\ After[m]["ready"] = "finish"
      BY <2>2, <2>4
    <2>6. ASSUME NEW step \in Steps(m) PROVE After[m][step] = Following(m, step)
      BY <1>2, <2>5, <2>6, NimsAssumption DEF Steps, Following
    <2> QED BY <2>3, <2>6
  <1>3. CASE m = "BUNDLED" /\ "asd" \notin Nims
    <2>0. Plan[m] = <<"validate", "cleanup">> \o <<"lipsync">> \o <<"s2s", "wait_s2s", "wire", "controller", "ready">>
      BY <1>3, PlanOf
    <2>1. DOMAIN Plan[m] = 1 .. 8 /\ Len(Plan[m]) = 8
      BY <2>0
    <2>2. /\ Plan[m][1] = "validate" /\ Plan[m][2] = "cleanup" /\ Plan[m][3] = "lipsync"
          /\ Plan[m][4] = "s2s" /\ Plan[m][5] = "wait_s2s" /\ Plan[m][6] = "wire"
          /\ Plan[m][7] = "controller" /\ Plan[m][8] = "ready"
      BY <2>0
    <2>3. Range(Plan[m]) = Steps(m)
      <3>1. Nims = {"lipsync"}
        BY <1>3, NimsAssumption
      <3> QED BY <1>3, <2>1, <2>2, <3>1 DEF Range, Steps
    <2>4. ASSUME NEW i \in 1 .. 8
          PROVE  After[m][Plan[m][i]] = IF i = 8 THEN "finish" ELSE Plan[m][i + 1]
      <3>1. \A j \in 1 .. 8 : Plan[m][j] = Plan[m][i] => j = i
        BY <2>2
      <3>2. i \in DOMAIN Plan[m] /\ \A j \in DOMAIN Plan[m] : Plan[m][j] = Plan[m][i] => j = i
        BY <2>1, <3>1
      <3>3. After[m][Plan[m][i]] = IF i = Len(Plan[m]) THEN "finish" ELSE Plan[m][i + 1]
        BY <3>2, AfterIndex
      <3> QED BY <2>1, <3>3
    <2>5. /\ After[m]["validate"] = "cleanup"
          /\ After[m]["cleanup"] = "lipsync"
          /\ After[m]["lipsync"] = "s2s"
          /\ After[m]["s2s"] = "wait_s2s"
          /\ After[m]["wait_s2s"] = "wire"
          /\ After[m]["wire"] = "controller"
          /\ After[m]["controller"] = "ready"
          /\ After[m]["ready"] = "finish"
      BY <2>2, <2>4
    <2>6. ASSUME NEW step \in Steps(m) PROVE After[m][step] = Following(m, step)
      BY <1>3, <2>5, <2>6, NimsAssumption DEF Steps, Following
    <2> QED BY <2>3, <2>6
  <1> QED BY <1>1, <1>2, <1>3 DEF Mode

(* The steps of all plans.                                                 *)
LEMMA StepIs == Step = Steps("SERVERLESS") \cup Steps("BUNDLED")
PROOF
  BY PlanSteps DEF Step, Mode

-----------------------------------------------------------------------------
(* The steps.                                                              *)

(* No build has begun.                                                     *)
LEMMA BuildInitInv == PipelineInit => BuildInv
PROOF
  <1> SUFFICES ASSUME PipelineInit PROVE BuildInv
    OBVIOUS
  <1> USE DEF PipelineInit, AppsInit
  <1>1. BuildType
    BY PipelineBounds, NimsAssumption DEF BuildType, Mode
  <1>2. ASSUME NEW b \in Build PROVE Positioned(b) /\ Dealt(b)
    BY StepIs, NimsAssumption DEF Positioned, Dealt, Counts, Live, Steps
  <1> QED BY <1>1, <1>2 DEF BuildInv

(* A step of one build: the others stay where they are, and what is clean  *)
(* for them stays so.                                                      *)
LEMMA MoveKeeps ==
  ASSUME BuildInv, NEW b \in Build, BuildType', Positioned(b)', Dealt(b)',
         \A c \in Build \ {b} : /\ at'[c] = at[c] /\ stage'[c] = stage[c]
                                /\ mode'[c] = mode[c] /\ orphan'[c] = orphan[c]
                                /\ Counts(c) => \A k \in Service : Clean(c, k) => Clean(c, k)'
  PROVE  BuildInv'
PROOF
  <1>1. ASSUME NEW c \in Build \ {b} PROVE Positioned(c)'
    BY <1>1 DEF BuildInv, Positioned
  <1>2. ASSUME NEW c \in Build \ {b} PROVE Dealt(c)'
    <2>1. /\ Counts(c)' = Counts(c) /\ Awaited(c)' = Awaited(c)
          /\ Unvisited(c)' = Unvisited(c) /\ mode'[c] = mode[c]
      BY <1>2 DEF Counts, Live, Awaited, Unvisited
    <2> QED BY <1>2, <2>1 DEF BuildInv, Dealt
  <1> QED BY <1>1, <1>2 DEF BuildInv

(* What the platform, the launch scripts, the page and time do.            *)
LEMMA NoMoveKeeps ==
  ASSUME BuildInv, UNCHANGED buildVars, saved' \in Mode,
         app' \in [Service -> {"none", "starting", "running", "failed", "deleting"}],
         \A k \in Service : app[k] = "none" => app'[k] = "none"
  PROVE  BuildInv'
PROOF
  <1>1. BuildType'
    BY DEF BuildInv, BuildType, buildVars
  <1>2. ASSUME NEW c \in Build PROVE Positioned(c)' /\ Dealt(c)'
    <2>1. Positioned(c)'
      BY DEF BuildInv, Positioned, buildVars
    <2>2. /\ Counts(c)' = Counts(c) /\ Awaited(c)' = Awaited(c)
          /\ Unvisited(c)' = Unvisited(c) /\ mode'[c] = mode[c]
      BY DEF Counts, Live, Awaited, Unvisited, buildVars
    <2>3. \A k \in Service : Clean(c, k) => Clean(c, k)'
      BY DEF Clean, buildVars
    <2> QED BY <2>1, <2>2, <2>3 DEF BuildInv, Dealt
  <1> QED BY <1>1, <1>2 DEF BuildInv

(* The applications and their names.                                       *)
LEMMA ServiceNames ==
  /\ Service \subseteq {"lipsync", "asd", "s2s", "controller"}
  /\ Service = Nims \cup {"s2s", "controller"}
  /\ Nims \subseteq {"lipsync", "asd"}
  /\ {"lipsync", "s2s", "controller"} \subseteq Service
PROOF
  BY NimsAssumption DEF Service

(* The steps by name; the applications are among them.                     *)
LEMMA StepNames ==
  /\ Steps("SERVERLESS") \cup Steps("BUNDLED")
     = {"validate", "cleanup", "s2s", "wait_s2s", "wire", "controller", "ready", "serverless_nims"} \cup Nims
  /\ Service \subseteq Step
PROOF
  BY StepIs, ServiceNames DEF Steps

(* The build has done its step and is in the next one.                     *)
LEMMA AdvanceKeeps ==
  ASSUME BuildInv, NEW b \in Build, at[b] \in Step,
         at' = [at EXCEPT ![b] = After[mode[b]][at[b]]],
         stage' = [stage EXCEPT ![b] = "act"],
         UNCHANGED <<mode, orphan>>, saved' \in Mode, fresh' \in [Build -> SUBSET Service],
         app' \in [Service -> {"none", "starting", "running", "failed", "deleting"}],
         \A c \in Build : Counts(c) => \A k \in Service : Clean(c, k) => Clean(c, k)',
         at[b] = "cleanup" => orphan[b] = "none" \/ orphan[b] \in Required(mode[b]),
         \A k \in Service : at[b] = k => Clean(b, k)'
  PROVE  BuildInv'
PROOF
  <1> DEFINE step == at[b]
             next == Following(mode[b], step)
  <1>1. /\ BuildType /\ Positioned(b) /\ Dealt(b) /\ mode[b] \in Mode
        /\ step \in Steps(mode[b])
    BY DEF BuildInv, BuildType, Positioned
  <1>2. at'[b] = next /\ at' = [at EXCEPT ![b] = next]
    BY <1>1, PlanSteps DEF BuildType
  <1>3. next \in Steps(mode[b]) \cup {"finish"} /\ next # "validate"
    BY <1>1, ServiceNames, NimsAssumption DEF Following, Steps, Mode
  <1>4. next \in Step \cup {"finish"} /\ Counts(b)
    BY <1>1, <1>3, StepIs, StepNames, ServiceNames DEF Counts, Live, Mode
  <1>5. BuildType'
    BY <1>1, <1>2, <1>4 DEF BuildType
  <1>6. Positioned(b)'
    <2>1. next \notin {"idle", "start", "validate"}
      BY <1>3, ServiceNames DEF Steps
    <2>2. at'[b] \in Step => at'[b] \in Steps(mode'[b])
      BY <1>2, <1>3, <1>4, StepIs, StepNames, ServiceNames
    <2> QED BY <1>1, <1>2, <2>1, <2>2 DEF Positioned, BuildType
  <1>7. Dealt(b)'
    <2> SUFFICES ASSUME NEW k \in Service, k \notin Awaited(b)',
                        k \notin Unvisited(b)' \ Required(mode[b])
                 PROVE  Clean(b, k)'
      BY DEF Dealt
    <2>1. CASE k \notin Awaited(b) /\ k \notin Unvisited(b) \ Required(mode[b])
      <3>1. Clean(b, k)
        BY <1>1, <1>4, <2>1 DEF Dealt
      <3> QED BY <1>4, <3>1
    <2>2. CASE step = k
      BY <2>2
    <2>3. CASE step # k /\ (k \in Awaited(b) \/ k \in Unvisited(b) \ Required(mode[b]))
      <3>1. CASE step = "validate"
        <4>1. next = "cleanup" /\ orphan[b] = "lipsync"
          BY <1>1, <3>1 DEF Following, Positioned
        <4> QED BY <1>2, <2>3, <3>1, <4>1 DEF Awaited, Unvisited
      <3>2. CASE step = "cleanup"
        <4>1. next \in {"serverless_nims", "lipsync"}
          BY <3>2 DEF Following
        <4>2. Awaited(b)' = Required(mode[b])
          BY <1>2, <4>1 DEF Awaited
        <4>3. k \in Unvisited(b) /\ k \notin Required(mode[b])
          BY <2>3, <3>2, <4>2 DEF Awaited
        <4>4. orphan[b] \in {"none", "lipsync"} \/ k = orphan[b]
          BY <3>2, <4>3 DEF Unvisited
        <4>5. "lipsync" \in Required(mode[b]) => Service \subseteq Required(mode[b])
          BY ServiceNames DEF Required
        <4> QED BY <3>2, <4>3, <4>4, <4>5, ServiceNames DEF Unvisited
      <3>3. CASE step \in {"serverless_nims", "lipsync", "asd"}
        <4>1. step = "serverless_nims" => mode[b] = "SERVERLESS"
          BY <1>1, ServiceNames DEF Steps
        <4>2. k \in Awaited(b)
          BY <2>3, <3>3 DEF Unvisited
        <4> QED BY <1>2, <2>3, <3>3, <4>1, <4>2, ServiceNames DEF Awaited, Following, Required
      <3>4. CASE step \in {"s2s", "wait_s2s", "wire", "controller", "ready"}
        <4>1. k \in Awaited(b)
          BY <2>3, <3>4 DEF Unvisited
        <4> QED BY <1>2, <2>3, <3>4, <4>1 DEF Awaited, Following
      <3> QED BY <1>1, <3>1, <3>2, <3>3, <3>4, ServiceNames DEF Steps
    <2> QED BY <2>1, <2>2, <2>3
  <1> QED BY <1>5, <1>6, <1>7, MoveKeeps DEF BuildInv, BuildType

(* The process ends; only a build that has finished leaves a claim.        *)
LEMMA ExitKeeps ==
  ASSUME BuildInv, NEW b \in Build, NEW outcome \in Over, Exit(b, outcome),
         outcome = "succeeded" => at[b] = "finish", UNCHANGED <<app, saved>>
  PROVE  BuildInv'
PROOF
  <1> USE DEF Exit, Goto, Over
  <1>1. BuildType'
    BY NimsAssumption DEF BuildInv, BuildType, Mode
  <1>2. Positioned(b)'
    BY StepNames, StepIs, ServiceNames DEF BuildInv, BuildType, Positioned
  <1>3. Dealt(b)'
    <2>1. outcome \notin Step
      BY StepNames, StepIs, ServiceNames
    <2>2. CASE outcome # "succeeded"
      BY <2>1, <2>2 DEF Dealt, Counts, Live, BuildInv, BuildType
    <2>3. CASE outcome = "succeeded"
      <3>1. Counts(b) /\ \A k \in Service : Clean(b, k)
        BY <2>3 DEF BuildInv, Dealt, Counts, Live, Awaited, Unvisited
      <3> QED BY <2>3, <3>1 DEF BuildInv, BuildType, Dealt, Clean
    <2> QED BY <2>2, <2>3
  <1> QED BY <1>1, <1>2, <1>3, MoveKeeps DEF BuildInv, BuildType, Clean

(* A failure leaves the applications as they are, and the build without a  *)
(* claim.                                                                  *)
LEMMA FailKeeps ==
  ASSUME BuildInv, NEW b \in Build, Goto(b, "fail", "act"),
         UNCHANGED <<app, saved, mode, orphan, fresh>>
  PROVE  BuildInv'
PROOF
  <1> USE DEF Goto
  <1>1. BuildType'
    BY DEF BuildInv, BuildType
  <1>2. Positioned(b)' /\ Dealt(b)'
    BY StepNames, StepIs, ServiceNames DEF BuildInv, BuildType, Positioned, Dealt, Counts, Live
  <1> QED BY <1>1, <1>2, MoveKeeps DEF BuildInv, BuildType, Clean

(* Another stage of the same step.                                         *)
LEMMA WithinKeeps ==
  ASSUME BuildInv, NEW b \in Build, NEW s \in {"act", "removal", "create", "file"}, Within(b, s),
         s = "removal" => at[b] \in Service \cup {"cleanup"},
         s = "create" => at[b] \in Service,
         s = "file" => at[b] = "wait_s2s",
         UNCHANGED <<saved, mode, orphan, fresh>>,
         app' \in [Service -> {"none", "starting", "running", "failed", "deleting"}],
         \A k \in Service : app[k] = "none" => app'[k] = "none"
  PROVE  BuildInv'
PROOF
  <1> USE DEF Within
  <1>1. BuildType'
    BY DEF BuildInv, BuildType
  <1>2. Positioned(b)'
    BY DEF BuildInv, BuildType, Positioned
  <1>3. \A c \in Build : \A k \in Service : Clean(c, k) => Clean(c, k)'
    BY DEF Clean
  <1>4. Dealt(b)'
    <2>1. /\ Counts(b)' = Counts(b) /\ Awaited(b)' = Awaited(b)
          /\ Unvisited(b)' = Unvisited(b) /\ mode'[b] = mode[b]
      BY DEF Counts, Live, Awaited, Unvisited
    <2> QED BY <1>3, <2>1 DEF BuildInv, Dealt
  <1> QED BY <1>1, <1>2, <1>3, <1>4, MoveKeeps DEF BuildInv, BuildType

-----------------------------------------------------------------------------
(* The actions.                                                            *)

(* A build begins in the mode that is saved, or is refused.                *)
LEMMA CheckKeeps ==
  ASSUME BuildInv, NEW b \in Build, Check(b)
  PROVE  BuildInv'
PROOF
  <1>1. CASE Exit(b, "refused")
    BY <1>1, ExitKeeps DEF Check, Over, appVars
  <1>2. CASE /\ Goto(b, "start", "act")
             /\ mode' = [mode EXCEPT ![b] = saved]
             /\ UNCHANGED <<orphan, fresh, app, saved>>
    <2>1. BuildType'
      BY <1>2 DEF BuildInv, BuildType, Goto
    <2>2. Positioned(b)' /\ Dealt(b)'
      BY <1>2, StepNames, StepIs, ServiceNames
      DEF Check, Goto, BuildInv, BuildType, Positioned, Dealt, Counts, Live
    <2> QED BY <1>2, <2>1, <2>2, MoveKeeps DEF Goto, BuildInv, BuildType, Clean
  <1> QED BY <1>1, <1>2 DEF Check, appVars

(* A build that starts has everything still to do.                         *)
LEMMA StartKeeps ==
  ASSUME BuildInv, NEW b \in Build, Start(b)
  PROVE  BuildInv'
PROOF
  <1> USE DEF Start, Goto, appVars
  <1>1. "validate" \in Step /\ "validate" \in Steps("SERVERLESS") \cap Steps("BUNDLED")
    BY StepIs DEF Steps
  <1>2. BuildType'
    BY <1>1 DEF BuildInv, BuildType
  <1>3. Positioned(b)'
    BY <1>1, ServiceNames DEF BuildInv, BuildType, Positioned, Mode
  <1>4. Dealt(b)'
    BY ServiceNames DEF BuildInv, BuildType, Dealt, Awaited, Unvisited, Required, Mode
  <1> QED BY <1>2, <1>3, <1>4, MoveKeeps DEF BuildInv, BuildType, Clean

(* The cleanup passes an application only when it is not there.            *)
LEMMA CleanupKeeps ==
  ASSUME BuildInv, NEW b \in Build, Cleanup(b)
  PROVE  BuildInv'
PROOF
  <1>0. /\ at[b] = "cleanup" /\ stage[b] = "act" /\ at[b] \in Step /\ orphan[b] \in Nims \cup {"none"}
        /\ UNCHANGED <<saved, mode, fresh>>
    BY StepIs DEF Cleanup, Doing, Steps, BuildInv, BuildType
  <1>1. CASE orphan[b] = "none" \/ orphan[b] \in Required(mode[b])
    <2>1. /\ at' = [at EXCEPT ![b] = After[mode[b]][at[b]]]
          /\ stage' = [stage EXCEPT ![b] = "act"]
          /\ UNCHANGED <<app, orphan>>
      BY <1>1 DEF Cleanup, Advance, Goto, appVars
    <2>2. \A c \in Build, k \in Service : Clean(c, k) => Clean(c, k)'
      BY <1>0, <2>1 DEF Clean
    <2>3. \A k \in Service : at[b] # k
      BY <1>0, ServiceNames
    <2>4. saved' \in Mode /\ fresh' \in [Build -> SUBSET Service]
          /\ app' \in [Service -> {"none", "starting", "running", "failed", "deleting"}]
      BY <1>0, <2>1 DEF BuildInv, BuildType
    <2> QED BY <1>0, <1>1, <2>1, <2>2, <2>3, <2>4, AdvanceKeeps
  <1>2. CASE ~(orphan[b] = "none" \/ orphan[b] \in Required(mode[b])) /\ app[orphan[b]] # "none"
    BY <1>0, <1>2, WithinKeeps, ServiceNames DEF Cleanup, DeleteApp, BuildInv, BuildType
  <1>3. CASE ~(orphan[b] = "none" \/ orphan[b] \in Required(mode[b])) /\ app[orphan[b]] = "none"
    <2>1. /\ orphan' = [orphan EXCEPT ![b] = NextOrphan(orphan[b])]
          /\ UNCHANGED <<app, at, stage>>
      BY <1>3 DEF Cleanup, appVars
    <2>2. NextOrphan(orphan[b]) \in Nims \cup {"none"}
      BY DEF NextOrphan
    <2>3. BuildType'
      BY <1>0, <2>1, <2>2 DEF BuildInv, BuildType
    <2>4. Positioned(b)'
      BY <1>0, <2>1 DEF BuildInv, Positioned
    <2>5. Dealt(b)'
      <3> SUFFICES ASSUME NEW k \in Service, k \notin Awaited(b)', k \notin Unvisited(b)' \ Required(mode[b])
                   PROVE  Clean(b, k)'
        BY <1>0 DEF Dealt
      <3>1. CASE k = orphan[b]
        BY <1>3, <2>1, <3>1 DEF Clean
      <3>2. CASE k # orphan[b]
        <4>1. k \notin Awaited(b) /\ k \notin Required(mode[b])
          BY <1>0, <2>1 DEF Awaited
        <4>2. k \notin Unvisited(b)
          <5>1. Unvisited(b)' = IF NextOrphan(orphan[b]) = "lipsync" THEN Nims ELSE {NextOrphan(orphan[b])}
            BY <1>0, <2>1 DEF Unvisited, BuildInv, BuildType
          <5>2. k \notin Unvisited(b)'
            BY <1>0, <4>1
          <5> QED BY <1>0, <1>3, <3>2, <5>1, <5>2, ServiceNames DEF Unvisited, NextOrphan
        <4>3. Clean(b, k)
          BY <1>0, <4>1, <4>2 DEF BuildInv, Dealt, Counts, Live
        <4> QED BY <1>0, <2>1, <4>3 DEF Clean
      <3> QED BY <3>1, <3>2
    <2> QED BY <1>0, <2>1, <2>3, <2>4, <2>5, MoveKeeps DEF BuildInv, BuildType, Clean
  <1> QED BY <1>1, <1>2, <1>3

(* The new application is newer than every build that is under way.        *)
LEMMA CreateKeeps ==
  ASSUME BuildInv, NEW b \in Build, Create(b)
  PROVE  BuildInv'
PROOF
  <1>0. /\ at[b] \in Service /\ at[b] \in Step /\ Counts(b)
        /\ app' = [app EXCEPT ![at[b]] = "starting"]
        /\ UNCHANGED <<saved, mode, orphan>>
    BY StepNames, ServiceNames DEF Create, CreateApp, BuildInv, Positioned, Counts, Live
  <1>1. fresh' \in [Build -> SUBSET Service]
    BY <1>0 DEF Create, BuildInv, BuildType
  <1>2. ASSUME NEW c \in Build, Counts(c) PROVE fresh'[c] = fresh[c] \cup {at[b]}
    BY <1>2 DEF Create, Counts
  <1>3. ASSUME NEW c \in Build, Counts(c), NEW k \in Service, Clean(c, k) PROVE Clean(c, k)'
    BY <1>0, <1>2, <1>3 DEF Clean, BuildInv, BuildType
  <1>4. ASSUME NEW k \in Service, at[b] = k PROVE Clean(b, k)'
    BY <1>0, <1>2, <1>4 DEF Clean
  <1>5. app' \in [Service -> {"none", "starting", "running", "failed", "deleting"}]
    BY <1>0 DEF BuildInv, BuildType
  <1>6. at[b] # "cleanup"
    BY <1>0, ServiceNames
  <1>7. /\ at' = [at EXCEPT ![b] = After[mode[b]][at[b]]]
        /\ stage' = [stage EXCEPT ![b] = "act"]
        /\ saved' \in Mode
    BY <1>0 DEF Create, Advance, Goto, BuildInv, BuildType
  <1> QED BY <1>0, <1>1, <1>3, <1>4, <1>5, <1>6, <1>7, AdvanceKeeps

(* Every step of a build.                                                  *)
LEMMA BuildStepKeeps ==
  ASSUME BuildInv, NEW b \in Build,
         Check(b) \/ BuildStep(b) \/ Tick(b) \/ WaitTimesOut(b) \/ HttpError(b) \/ IsKilled(b)
  PROVE  BuildInv'
PROOF
  <1>1. BuildType /\ Positioned(b)
    BY DEF BuildInv
  <1>2. CASE Check(b) \/ Start(b) \/ Cleanup(b) \/ Create(b)
    BY <1>2, CheckKeeps, StartKeeps, CleanupKeeps, CreateKeeps
  <1>3. CASE Finish(b)
    BY <1>3, ExitKeeps DEF Finish, Over, appVars
  <1>4. CASE SetFirstStep(b)
    BY <1>1, <1>4, WithinKeeps DEF SetFirstStep, Unchanged, appVars, BuildType
  <1>5. CASE SaveAndClear(b) \/ PointAtServerless(b) \/ Wire(b) \/ SeesReady(b) \/ S2sFileExists(b)
    <2>1. /\ at[b] \in {"validate", "serverless_nims", "wire", "ready", "wait_s2s"}
          /\ Advance(b)
          /\ UNCHANGED <<app, mode, orphan, fresh>>
          /\ saved' \in Mode
      BY <1>1, <1>5
      DEF SaveAndClear, PointAtServerless, Wire, SeesReady, S2sFileExists, Doing, ClearEndpoints,
          WireServerless, WireBundled, Unchanged, appVars, BuildType, Positioned
    <2>2. at[b] \in Step /\ at[b] \notin Service \cup {"cleanup"}
      BY <2>1, StepIs, StepNames, ServiceNames
    <2> QED BY <1>1, <2>1, <2>2, AdvanceKeeps DEF Advance, Goto, Clean, BuildType
  <1>6. CASE ReplaceApp(b)
    BY <1>1, <1>6, WithinKeeps DEF ReplaceApp, Unchanged, DeleteApp, appVars, BuildType
  <1>7. CASE AppIsGone(b)
    <2>1. at[b] \in Service \cup {"cleanup"}
      BY <1>1, <1>7 DEF AppIsGone, Positioned
    <2> QED BY <1>1, <1>7, <2>1, WithinKeeps DEF AppIsGone, Unchanged, appVars, BuildType
  <1>8. CASE SeesS2sRunning(b)
    BY <1>1, <1>8, WithinKeeps DEF SeesS2sRunning, Doing, Unchanged, appVars, BuildType
  <1>9. CASE Tick(b)
    BY <1>1, <1>9, NoMoveKeeps DEF Tick, Unchanged, appVars, buildVars, BuildType
  <1>10. CASE SeesFailure(b) \/ WaitTimesOut(b) \/ HttpError(b)
    BY <1>10, FailKeeps DEF SeesFailure, WaitTimesOut, HttpError, FailsWith, Unchanged, appVars
  <1>11. CASE IsKilled(b)
    BY <1>11, ExitKeeps DEF IsKilled, Over, appVars
  <1> QED BY <1>2, <1>3, <1>4, <1>5, <1>6, <1>7, <1>8, <1>9, <1>10, <1>11 DEF BuildStep

(* Every step of the specification keeps the invariant.                    *)
LEMMA PipelineStep == BuildInv /\ [PipelineNext]_pipelineVars => BuildInv'
PROOF
  <1> SUFFICES ASSUME BuildInv, [PipelineNext]_pipelineVars PROVE BuildInv'
    OBVIOUS
  <1>0. BuildType
    BY DEF BuildInv
  <1>1. CASE UNCHANGED pipelineVars
    BY <1>0, <1>1, NoMoveKeeps DEF pipelineVars, appVars, BuildType
  <1>2. ASSUME NEW b \in Build,
               Check(b) \/ BuildStep(b) \/ Tick(b) \/ WaitTimesOut(b) \/ HttpError(b) \/ IsKilled(b)
        PROVE  BuildInv'
    BY <1>2, BuildStepKeeps
  <1>3. CASE PollStep \/ TimePasses
    BY <1>0, <1>3, NoMoveKeeps DEF PollStep, PollLists, PollCorrects, PollUnchanged, TimePasses, appVars, BuildType
  <1>4. CASE SaveConfig
    BY <1>0, <1>4, NoMoveKeeps DEF SaveConfig, appVars, BuildType
  <1>5. CASE ProjectStep
    <2>1. UNCHANGED <<saved, buildVars>>
      BY <1>5 DEF ProjectStep
    <2>2. CASE LaunchScript(saved)
      <3>1. UNCHANGED app
        BY <2>2 DEF LaunchScript, S2sPublishes, NimReads, NimPublishes, ControllerResolves
      <3> QED BY <1>0, <2>1, <3>1, NoMoveKeeps DEF BuildType
    <2>3. ASSUME NEW k \in Service, StartsUp(k) \/ IsRemoved(k) \/ Fails(k)
          PROVE  BuildInv'
      <3>1. /\ app' \in [Service -> {"none", "starting", "running", "failed", "deleting"}]
            /\ \A n \in Service : app[n] = "none" => app'[n] = "none"
        BY <1>0, <2>3 DEF StartsUp, IsRemoved, Fails, BuildType
      <3> QED BY <1>0, <2>1, <3>1, NoMoveKeeps DEF BuildType
    <2> QED BY <1>5, <2>2, <2>3 DEF ProjectStep, Platform
  <1> QED BY <1>1, <1>2, <1>3, <1>4, <1>5 DEF PipelineNext

-----------------------------------------------------------------------------
(* Each build is in a step of its plan, and what it has dealt with is gone *)
(* or newer than it, whatever other builds, crashes and failures there are.*)
THEOREM BuildsAreSound == PipelineSpec => []BuildInv
PROOF
  BY BuildInitInv, PipelineStep, PTL DEF PipelineSpec

(* The progress file, and what a status request holds of it.               *)
Record == [running : BOOLEAN, success : {"none", "unknown", "yes", "no"}, begun : BOOLEAN, age : Age]

RecordInv ==
  /\ AppsTypeOK
  /\ progress \in Record
  /\ poll = <<>> \/ \E p \in Record : poll = <<p>>

(* What is written into the progress file is a record.                     *)
LEMMA RecordOperators ==
  ASSUME NEW p \in Record
  PROVE  /\ GivenUp(p) \in Record
         /\ Touched(p) \in Record
         /\ LooksAgain(p) \in Record
         /\ [p EXCEPT !.success = "no"] \in Record
PROOF
  <1>0. 0 \in Age
    BY DEF Age
  <1>1. GivenUp(p) \in Record
    BY <1>0 DEF Record, GivenUp
  <1>2. Touched(p) \in Record
    BY <1>0 DEF Record, Touched
  <1>3. [p EXCEPT !.success = "no"] \in Record
    BY DEF Record
  <1> QED BY <1>1, <1>2, <1>3 DEF LooksAgain

(* The operations on the project keep its types.                           *)
LEMMA ProjectTypes ==
  ASSUME AppsTypeOK, saved \in Mode,
         \/ ProjectStep \/ ClearEndpoints \/ WireServerless \/ WireBundled
         \/ \E k \in Service : DeleteApp(k) \/ CreateApp(k)
         \/ nimFile' = Nims /\ UNCHANGED <<app, launched, merging, s2sFile, env>>
  PROVE  AppsTypeOK'
PROOF
  <1> USE DEF AppsTypeOK, Address
  <1>1. CASE LaunchScript(saved)
    <2>1. CASE S2sPublishes
      BY <2>1 DEF S2sPublishes
    <2>2. ASSUME NEW k \in Nims, NimReads(k) PROVE AppsTypeOK'
      BY <2>2 DEF NimReads
    <2>3. ASSUME NEW k \in Nims, NimPublishes(k) PROVE AppsTypeOK'
      <3>1. PICK f \in SUBSET Nims : merging[k] = <<f>>
        BY <2>3 DEF NimPublishes
      <3>2. nimFile' \subseteq Nims
        BY <2>3, <3>1 DEF NimPublishes
      <3> QED BY <2>3, <3>2, ServiceNames DEF NimPublishes
    <2>4. CASE ControllerResolves(saved)
      BY <2>4 DEF ControllerResolves, Resolved
    <2> QED BY <1>1, <2>1, <2>2, <2>3, <2>4 DEF LaunchScript
  <1>2. ASSUME NEW k \in Service, StartsUp(k) \/ Fails(k) PROVE AppsTypeOK'
    BY <1>2 DEF StartsUp, Fails
  <1>3. ASSUME NEW k \in Service, IsRemoved(k) PROVE AppsTypeOK'
    <2>1. /\ app' \in [Service -> {"none", "starting", "running", "failed", "deleting"}]
          /\ launched' \in [Service -> BOOLEAN]
          /\ merging' \in [Nims -> {<<>>} \cup {<<f>> : f \in SUBSET Nims}]
          /\ nimFile' \subseteq Nims
      BY <1>3 DEF IsRemoved
    <2>2. s2sFile' \in Address /\ env' \in [s2s : Address, nim : BOOLEAN]
      BY <1>3 DEF IsRemoved, Expired
    <2> QED BY <2>1, <2>2
  <1>4. CASE ClearEndpoints \/ WireServerless \/ WireBundled
    <2>1. CASE ClearEndpoints
      BY <2>1 DEF ClearEndpoints, NoEndpoints
    <2>2. CASE WireServerless
      BY <2>2 DEF WireServerless
    <2>3. CASE WireBundled
      BY <2>3 DEF WireBundled
    <2> QED BY <1>4, <2>1, <2>2, <2>3
  <1>5. ASSUME NEW k \in Service, DeleteApp(k) \/ CreateApp(k) PROVE AppsTypeOK'
    BY <1>5 DEF DeleteApp, CreateApp
  <1>6. CASE nimFile' = Nims /\ UNCHANGED <<app, launched, merging, s2sFile, env>>
    BY <1>6
  <1> QED BY <1>1, <1>2, <1>3, <1>4, <1>5, <1>6 DEF ProjectStep, Platform

(* Every step keeps the types of the files and of what is held of them.    *)
LEMMA RecordStep == BuildInv /\ RecordInv /\ [PipelineNext]_pipelineVars => RecordInv'
PROOF
  <1> SUFFICES ASSUME BuildInv, RecordInv, [PipelineNext]_pipelineVars PROVE RecordInv'
    OBVIOUS
  <1>0. AppsTypeOK /\ progress \in Record /\ saved \in Mode /\ BuildType
    BY DEF RecordInv, BuildInv, BuildType
  <1>1. AppsTypeOK'
    <2>1. CASE UNCHANGED appVars
      BY <1>0, <2>1 DEF AppsTypeOK, appVars
    <2>2. CASE ProjectStep
      BY <1>0, <2>2, ProjectTypes
    <2>3. ASSUME NEW b \in Build, SaveAndClear(b) \/ PointAtServerless(b) \/ Wire(b) PROVE AppsTypeOK'
      BY <1>0, <2>3, ProjectTypes DEF SaveAndClear, PointAtServerless, Wire
    <2>4. ASSUME NEW b \in Build, ~UNCHANGED appVars, Cleanup(b) \/ ReplaceApp(b) \/ Create(b)
          PROVE  AppsTypeOK'
      <3>1. \E k \in Service : DeleteApp(k) \/ CreateApp(k)
        BY <1>0, <2>4, ServiceNames
        DEF Cleanup, ReplaceApp, Create, BuildInv, BuildType, Positioned, Required
      <3> QED BY <1>0, <3>1, ProjectTypes
    <2>5. ASSUME NEW b \in Build,
                 Check(b) \/ BuildStep(b) \/ Tick(b) \/ WaitTimesOut(b) \/ HttpError(b) \/ IsKilled(b)
          PROVE  AppsTypeOK'
      BY <2>1, <2>3, <2>4, <2>5
      DEF Check, BuildStep, Start, SetFirstStep, Finish, AppIsGone, SeesS2sRunning, S2sFileExists, SeesReady,
          SeesFailure, Tick, WaitTimesOut, FailsWith, HttpError, IsKilled
    <2>6. CASE PollStep \/ SaveConfig \/ TimePasses
      BY <2>1, <2>6 DEF PollStep, PollLists, PollCorrects, PollUnchanged, SaveConfig, TimePasses
    <2>7. CASE UNCHANGED pipelineVars
      BY <2>1, <2>7 DEF pipelineVars
    <2> QED BY <2>2, <2>5, <2>6, <2>7 DEF PipelineNext
  <1>2. progress' \in Record
    <2>1. CASE UNCHANGED progress
      BY <1>0, <2>1
    <2>2. ASSUME NEW b \in Build, Advance(b) PROVE progress' \in Record
      BY <1>0, <2>2, RecordOperators DEF Advance
    <2>3. ASSUME NEW b \in Build, Check(b) \/ Start(b) \/ Finish(b) \/ SetFirstStep(b) \/ Tick(b)
          PROVE  progress' \in Record
      <3>0. 0 \in Age
        BY DEF Age
      <3>1. CASE Check(b) \/ SetFirstStep(b) \/ Tick(b)
        BY <1>0, <3>1, RecordOperators DEF Check, SetFirstStep, Tick
      <3>2. CASE Start(b)
        BY <3>0, <3>2 DEF Start, Record
      <3>3. CASE Finish(b)
        BY <1>0, <3>0, <3>3 DEF Finish, Record
      <3> QED BY <2>3, <3>1, <3>2, <3>3
    <2>4. ASSUME NEW b \in Build, SaveAndClear(b) \/ Cleanup(b) \/ PointAtServerless(b) \/ Create(b)
                                   \/ S2sFileExists(b) \/ Wire(b) \/ SeesReady(b)
          PROVE  progress' \in Record
      BY <2>1, <2>2, <2>4
      DEF SaveAndClear, Cleanup, PointAtServerless, Create, S2sFileExists, Wire, SeesReady
    <2>5. ASSUME NEW b \in Build,
                 Check(b) \/ BuildStep(b) \/ Tick(b) \/ WaitTimesOut(b) \/ HttpError(b) \/ IsKilled(b)
          PROVE  progress' \in Record
      BY <2>1, <2>3, <2>4, <2>5
      DEF BuildStep, ReplaceApp, AppIsGone, SeesS2sRunning, SeesFailure, WaitTimesOut, FailsWith, HttpError, IsKilled
    <2>6. CASE PollLists
      BY <1>0, <2>6, RecordOperators DEF PollLists
    <2>7. CASE PollCorrects
      <3>1. PICK p \in Record : poll = <<p>>
        BY <2>7 DEF PollCorrects, RecordInv
      <3> QED BY <2>7, <3>1, RecordOperators DEF PollCorrects
    <2>8. CASE TimePasses
      BY <1>0, <2>8 DEF TimePasses, Record, Age
    <2>9. CASE SaveConfig \/ ProjectStep \/ UNCHANGED pipelineVars
      BY <2>1, <2>9 DEF SaveConfig, ProjectStep, pipelineVars
    <2> QED BY <2>5, <2>6, <2>7, <2>8, <2>9 DEF PipelineNext, PollStep
  <1>3. poll' = <<>> \/ \E p \in Record : poll' = <<p>>
    <2>1. CASE UNCHANGED poll
      BY <2>1 DEF RecordInv
    <2>2. CASE PollLists \/ PollCorrects
      BY <1>2, <2>1, <2>2 DEF PollLists, PollCorrects
    <2>3. ASSUME NEW b \in Build,
                 Check(b) \/ BuildStep(b) \/ Tick(b) \/ WaitTimesOut(b) \/ HttpError(b) \/ IsKilled(b)
          PROVE  UNCHANGED poll
      BY <2>3
      DEF Check, BuildStep, Start, SetFirstStep, Finish, SaveAndClear, Cleanup, PointAtServerless, ReplaceApp,
          AppIsGone, Create, SeesS2sRunning, S2sFileExists, Wire, SeesReady, SeesFailure, Tick, WaitTimesOut,
          FailsWith, HttpError, IsKilled, Unchanged
    <2>4. CASE SaveConfig \/ TimePasses \/ ProjectStep \/ UNCHANGED pipelineVars
      BY <2>1, <2>4 DEF SaveConfig, TimePasses, ProjectStep, pipelineVars
    <2> QED BY <2>1, <2>2, <2>3, <2>4 DEF PipelineNext, PollStep
  <1> QED BY <1>1, <1>2, <1>3 DEF RecordInv

(* TypeOK: the values of PipelineBuild's variables stay in their types.    *)
THEOREM BuildsAreTyped == PipelineSpec => []TypeOK
PROOF
  <1>1. PipelineInit => RecordInv
    BY NimsAssumption DEF PipelineInit, AppsInit, RecordInv, AppsTypeOK, Record, NoProgress, Age,
                          NoEndpoints, Address
  <1>2. BuildInv /\ RecordInv => TypeOK
    BY DEF BuildInv, BuildType, RecordInv, Record, TypeOK
  <1> QED BY <1>1, <1>2, RecordStep, BuildsAreSound, PTL DEF PipelineSpec

(* NothingOlderRemains: a build that has succeeded leaves no application   *)
(* behind that is older than it is.                                        *)
THEOREM NothingOlder == PipelineSpec => []NothingOlderRemains
PROOF
  <1>1. BuildInv => NothingOlderRemains
    <2> SUFFICES ASSUME BuildInv, NEW b \in Build, at[b] = "succeeded", NEW k \in Service
                 PROVE  app[k] = "none" \/ k \in fresh[b]
      BY DEF NothingOlderRemains
    <2> QED BY DEF BuildInv, Dealt, Counts, Awaited, Unvisited, Clean
  <1> QED BY <1>1, BuildsAreSound, PTL

=============================================================================
