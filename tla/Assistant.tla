------------------------------- MODULE Assistant -------------------------------
(* The AI service's calls to the model: moderation, replies, summaries,         *)
(* translations, quizzes, flashcards and speech. A caller is answered at once,   *)
(* or a chunk at a time over a stream; the transcript of a voice message is kept   *)
(* with its attachment, for the requests to come.                                 *)
EXTENDS Naturals

CONSTANTS Asks,       \* requests
          Spoken,     \* bound: those of them that are made for voice messages only
          Voices,     \* voice attachments
          None,
          MaxChunks,  \* bound: texts of a stream
          MaxFaults   \* bound: failing or slow calls

VARIABLES ask,        \* requests, up to what the caller heard
          transcript, \* Attachment.transcript
          made,       \* history: requests whose speech the model gave back as text
          earlier,    \* history: the requests for its voice message that were over when one was made
          unsaved,    \* history: requests whose text could not be saved
          faults

vars == <<ask, transcript, made, earlier, unsaved, faults>>

-------------------------------------------------------------------------------
(* Routes *)

\* Answered at once, with a timeout in the gateway.
UnaryKinds == {"moderation", "suggest", "summary", "translation", "quizz", "flashcard", "voice", "speech"}

\* Answered a chunk at a time; a caller who closes the connection unsubscribes.
StreamKinds == {"summary", "quizz", "flashcard"}

\* Answered at once, as the one event of a stream.
ResentKinds == {"moderation", "suggest", "translation"}

KindsOf(mode) ==
  CASE mode = "unary" -> UnaryKinds
    [] mode = "stream" -> StreamKinds
    [] mode = "resent" -> ResentKinds

\* A document is attached, is to be fetched from an address, or is missing; a text is
\* in order or empty (too long): "missing" as well.
Inputs(kind) == IF kind \in {"summary", "flashcard"} THEN {"given", "address", "missing"}
                ELSE {"given", "missing"}

Request ==
  [kind : UnaryKinds \union {None}, mode : {"unary", "stream", "resent", None},
   input : {"given", "address", "missing", None}, voice : Voices \union {None},
   pc : {"idle", "posted", "audio", "model", "save", "over"}, chunks : 0 .. MaxChunks,
   heard : {"nothing", "ok", "error"}]

\* What the modules that use this one assume of the constants.
ConstantsAssumption ==
  /\ MaxChunks \in Nat /\ MaxFaults \in Nat
  /\ None \notin Voices /\ None \notin {"words", "silence"}

NoAsk == [kind |-> None, mode |-> None, input |-> None, voice |-> None,
          pc |-> "idle", chunks |-> 0, heard |-> "nothing"]

TypeOK ==
  /\ ask \in [Asks -> Request]
  /\ transcript \in [Voices -> {None, "words", "silence"}]
  /\ made \subseteq Asks
  /\ earlier \in [Asks -> SUBSET Asks]
  /\ unsaved \subseteq Asks
  /\ faults \in 0 .. MaxFaults

Init ==
  /\ ask = [a \in Asks |-> NoAsk]
  /\ transcript = [v \in Voices |-> None]
  /\ made = {} /\ earlier = [a \in Asks |-> {}] /\ unsaved = {}
  /\ faults = 0

kept == <<transcript, made, earlier, unsaved>>   \* what a step on the way to the model leaves alone

\* The request goes on to pc, or is over and its caller, if still there, is told.
Goto(a, pc) == ask' = [ask EXCEPT ![a].pc = pc]
Waiting(a) == ask[a].heard = "nothing"
Tell(a, answer) ==
  ask' = [ask EXCEPT ![a].pc = "over", ![a].heard = IF Waiting(a) THEN answer ELSE @]

OverFor(v) == {a \in Asks : ask[a].voice = v /\ ask[a].pc = "over"}

Post(a, mode, kind, input) ==
  /\ ask[a].pc = "idle" /\ a \notin Spoken
  /\ kind \in KindsOf(mode) /\ input \in Inputs(kind)
  /\ ask' = [ask EXCEPT ![a] = [NoAsk EXCEPT !.kind = kind, !.mode = mode, !.input = input,
                                             !.pc = "posted"]]
  /\ UNCHANGED <<kept, faults>>

\* A transcription of an attachment; another one may be on its way.
PostVoice(a, v, input) ==
  /\ ask[a].pc = "idle"
  /\ ask' = [ask EXCEPT ![a] = [NoAsk EXCEPT !.kind = "voice", !.mode = "unary", !.input = input,
                                             !.voice = v, !.pc = "posted"]]
  /\ earlier' = [earlier EXCEPT ![a] = OverFor(v)]
  /\ UNCHANGED <<transcript, made, unsaved, faults>>

\* The gateway's timeout answers an error, while the request goes on.
TimesOut(a) ==
  /\ faults < MaxFaults
  /\ ask[a].mode \in {"unary", "resent"} /\ ask[a].pc \notin {"idle", "over"} /\ Waiting(a)
  /\ ask' = [ask EXCEPT ![a].heard = "error"]
  /\ faults' = faults + 1
  /\ UNCHANGED kept

\* The caller closes a stream: what the model still sends is not passed on.
Close(a) ==
  /\ ask[a].mode = "stream" /\ ask[a].pc \notin {"idle", "over"} /\ Waiting(a)
  /\ ask' = [ask EXCEPT ![a].heard = "error"]
  /\ UNCHANGED <<kept, faults>>

-------------------------------------------------------------------------------
(* What each service checks before it asks the model *)

Begun(a, kind) == ask[a].pc = "posted" /\ ask[a].kind = kind

\* The one service asked goes on to the model, or answers itself.
Answers(a, refused, answer) ==
  /\ IF refused THEN Tell(a, answer) ELSE Goto(a, "model")
  /\ UNCHANGED <<kept, faults>>

\* The file is fetched first, or the request fails.
Download(a) ==
  /\ ask[a].pc = "posted" /\ ask[a].input = "address"
  /\ \/ ask' = [ask EXCEPT ![a].input = "given"] /\ UNCHANGED faults
     \/ faults < MaxFaults /\ Tell(a, "error") /\ faults' = faults + 1
  /\ UNCHANGED kept

\* A text nobody can judge is to be reviewed.
Moderate(a) == Begun(a, "moderation") /\ Answers(a, ask[a].input = "missing", "ok")

\* Nothing to reply to: no suggestions.
SuggestReplies(a) == Begun(a, "suggest") /\ Answers(a, ask[a].input = "missing", "ok")

SummaryDocument(a) ==
  /\ Begun(a, "summary") /\ ask[a].input # "address" /\ ask[a].mode = "unary"
  /\ Answers(a, ask[a].input = "missing", "error")

\* The stream asks the model even without a document.
SummaryDocumentStream(a) ==
  /\ Begun(a, "summary") /\ ask[a].input # "address" /\ ask[a].mode = "stream"
  /\ Answers(a, FALSE, "error")

Translation(a) == Begun(a, "translation") /\ Answers(a, FALSE, "error")

GenerateQuizz(a) ==
  Begun(a, "quizz") /\ ask[a].mode = "unary" /\ Answers(a, ask[a].input = "missing", "error")

GenerateQuizzStream(a) ==
  Begun(a, "quizz") /\ ask[a].mode = "stream" /\ Answers(a, ask[a].input = "missing", "error")

GenerateFlashcard(a) ==
  /\ Begun(a, "flashcard") /\ ask[a].input # "address" /\ ask[a].mode = "unary"
  /\ Answers(a, FALSE, "error")

GenerateFlashcardStream(a) ==
  /\ Begun(a, "flashcard") /\ ask[a].input # "address" /\ ask[a].mode = "stream"
  /\ Answers(a, FALSE, "error")

TranscribeRealtime(a) ==
  Begun(a, "speech") /\ Answers(a, ask[a].input = "missing", "error")

\* Mutant: the transcript of a silent attachment counts as none.
TranscribedWords(v) == transcript[v] = "words"

\* The transcript is a string, be it empty.
Transcribed(v) == transcript[v] # None

\* An attachment is looked up, and has its transcript, or its audio is fetched.
TranscribeAttachment(a) ==
  /\ Begun(a, "voice")
  /\ IF ask[a].input = "missing" THEN Tell(a, "error")
     ELSE IF Transcribed(ask[a].voice) THEN Tell(a, "ok")
     ELSE Goto(a, "audio")
  /\ UNCHANGED <<kept, faults>>

FetchAudio(a) ==
  /\ ask[a].pc = "audio"
  /\ \/ Goto(a, "model") /\ UNCHANGED faults
     \/ faults < MaxFaults /\ Tell(a, "error") /\ faults' = faults + 1
  /\ UNCHANGED kept

-------------------------------------------------------------------------------
(* The model answers *)

\* What a caller hears of a model that failed: no suggestions are as good as some.
OnFailure(kind) == IF kind = "suggest" THEN "ok" ELSE "error"

AtModel(a, kinds) == ask[a].pc = "model" /\ ask[a].kind \in kinds

\* An answer that is not JSON counts as an empty one.
GenerateContent(a) ==
  /\ AtModel(a, UnaryKinds \ {"voice", "speech"}) /\ ask[a].mode # "stream"
  /\ \/ Tell(a, "ok") /\ UNCHANGED faults
     \/ faults < MaxFaults /\ Tell(a, OnFailure(ask[a].kind)) /\ faults' = faults + 1
  /\ UNCHANGED kept

\* Speech has its own model; the words of the instruction are no words.
SpeechToText(a) ==
  /\ AtModel(a, {"voice", "speech"})
  /\ \/ /\ IF ask[a].kind = "voice" THEN Goto(a, "save") ELSE Tell(a, "ok")
        /\ made' = made \union {a} /\ UNCHANGED faults
     \/ /\ faults < MaxFaults /\ faults' = faults + 1
        /\ Tell(a, "error") /\ UNCHANGED made
  /\ UNCHANGED <<transcript, earlier, unsaved>>

Saved(v) == \E t \in {"words", "silence"} : transcript' = [transcript EXCEPT ![v] = t]

\* A transcript that cannot be saved, or of which that is not known, is answered all the same.
SaveTranscript(a) ==
  /\ ask[a].pc = "save"
  /\ Tell(a, "ok")
  /\ \/ Saved(ask[a].voice) /\ UNCHANGED <<unsaved, faults>>
     \/ /\ faults < MaxFaults /\ faults' = faults + 1
        /\ unsaved' = unsaved \union {a}
        /\ Saved(ask[a].voice) \/ UNCHANGED transcript
  /\ UNCHANGED <<made, earlier>>

Streaming(a) == ask[a].pc = "model" /\ ask[a].mode = "stream"

StreamChunk(a) ==
  /\ Streaming(a) /\ ask[a].chunks < MaxChunks
  /\ ask' = [ask EXCEPT ![a].chunks = @ + 1]
  /\ UNCHANGED <<kept, faults>>

\* A stream that sent nothing sends its final text, if there is one.
StreamEnds(a) == Streaming(a) /\ Tell(a, "ok") /\ UNCHANGED <<kept, faults>>

\* The model refuses the request, or breaks off.
StreamBreaks(a) ==
  /\ Streaming(a) /\ faults < MaxFaults
  /\ Tell(a, "error") /\ faults' = faults + 1
  /\ UNCHANGED kept

-------------------------------------------------------------------------------
Next == \E a \in Asks :
  \/ \E mode \in {"unary", "stream", "resent"}, kind \in UnaryKinds \ {"voice"},
        input \in {"given", "address", "missing"} : Post(a, mode, kind, input)
  \/ \E v \in Voices, input \in {"given", "missing"} : PostVoice(a, v, input)
  \/ TimesOut(a) \/ Close(a) \/ Download(a)
  \/ Moderate(a) \/ SuggestReplies(a) \/ SummaryDocument(a) \/ SummaryDocumentStream(a)
  \/ Translation(a) \/ GenerateQuizz(a) \/ GenerateQuizzStream(a)
  \/ GenerateFlashcard(a) \/ GenerateFlashcardStream(a)
  \/ TranscribeRealtime(a) \/ TranscribeAttachment(a) \/ FetchAudio(a)
  \/ GenerateContent(a) \/ SpeechToText(a) \/ SaveTranscript(a)
  \/ StreamChunk(a) \/ StreamEnds(a) \/ StreamBreaks(a)

Spec == Init /\ [][Next]_vars

-------------------------------------------------------------------------------
(* Properties *)

\* Once the model gave a voice message back as text, and that is saved and answered, no
\* request made after that asks the model again, even if nobody speaks in it, whichever
\* other requests for it are still under way or fail. Requests that meet before the
\* first text is saved each ask the model; so does one after a text of which it is not
\* known that it was saved.
TranscribedOnce == \A b \in made : earlier[b] \intersect made \subseteq unsaved
===============================================================================
