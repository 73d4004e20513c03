--------------------------- MODULE ModelTransport ---------------------------
(***************************************************************************)
(* One call of TinkerClient.complete (exactsource/model.py): a request is  *)
(* sent, the answer is streamed as server-sent events, decoded strictly,   *)
(* and the request is sent again after some failures.  The server may      *)
(* answer anything at any moment, and the connection may break at any      *)
(* moment, also when part of a frame has been received.                    *)
(*                                                                         *)
(* A piece of generated text is empty, blank or a word; a word is text     *)
(* that is left when legacy reasoning is split off.  A payload that lacks  *)
(* a field, and a frame that is ambiguous, is a "malformed" event.  Pings  *)
(* and unknown events change nothing and are left out.                     *)
(***************************************************************************)
EXTENDS Integers, Sequences, FiniteSets

CONSTANTS
  Retries,     \* TRANSPORT_RETRIES
  MaxWait,     \* MAX_RETRY_AFTER_SECONDS
  Backoff,     \* the exponential part of the delay after each attempt
  Stagger,     \* values _retry_stagger can have
  RetryAfter,  \* values of that header, Absent if missing or not a number
  Absent,
  EventBound,  \* bounds the length of a stream
  IndexBound,  \* and the indexes and
  TokenBound   \* token counts a server sends

ASSUME BoundsAssumption ==
  /\ Retries \in Nat /\ EventBound \in Nat
  /\ IndexBound \in Nat /\ TokenBound \in Nat
ASSUME WaitAssumption ==
  /\ MaxWait \in Nat /\ Stagger \subseteq Nat
  /\ Backoff \in [0 .. Retries -> Nat]
  /\ RetryAfter \subseteq Int \cup {Absent}

VARIABLES
  attempt,  \* number of the attempt, from 0
  conn,     \* where the attempt is
  decoder,  \* _AnthropicStreamDecoder
  partial,  \* part of a frame that carries content has been received
  history,  \* the events decoded in this attempt
  reports,  \* what on_attempt was told
  wait,     \* the delay before the next attempt
  result    \* "none" while the call has not ended

vars == <<attempt, conn, decoder, partial, history, reports, wait, result>>

Kind == {"text", "thinking"}
Piece == {"empty", "blank", "word"}
Index == 0 .. IndexBound
Tokens == 0 .. TokenBound
StopReason == {"none", "end_turn", "max_tokens", "other"}

(* What a server may send.                                                 *)
Event ==
  [type : {"message_start"}, tokens : Tokens]
    \cup [type : {"block_start"}, index : Index, kind : Kind, piece : Piece]
    \cup [type : {"delta"}, index : Index, kind : Kind \cup {"signature"},
          piece : Piece]
    \cup [type : {"block_stop"}, index : Index]
    \cup [type : {"message_delta"}, reason : StopReason, tokens : Tokens]
    \cup [type : {"message_stop", "malformed", "overloaded", "error"}]

(* The kind of each block and the pieces it was given, as a set.           *)
Block == [kind : Kind, pieces : SUBSET Piece]

NewDecoder ==
  [started |-> FALSE, blocks |-> <<>>, open |-> FALSE, generated |-> FALSE,
   tokens |-> 0, deltas |-> FALSE, reason |-> "none", stopped |-> FALSE]

Decoder ==
  [started : BOOLEAN, blocks : Seq(Block), open : BOOLEAN,
   generated : BOOLEAN, tokens : Tokens, deltas : BOOLEAN,
   reason : StopReason, stopped : BOOLEAN]

Conn == {"send", "stream", "sleep", "done"}
Result == {"none", "reply", "transport_error", "response_error", "truncated",
           "unexpected"}
Report == [attempt : Nat, status : {"retry", "error", "success"}]

TypeOK ==
  /\ attempt \in 0 .. Retries
  /\ conn \in Conn
  /\ decoder \in Decoder
  /\ partial \in BOOLEAN
  /\ history \in Seq(Event)
  /\ reports \in Seq(Report)
  /\ wait \in 0 .. MaxWait
  /\ result \in Result

Init ==
  /\ attempt = 0
  /\ conn = "send"
  /\ decoder = NewDecoder
  /\ partial = FALSE
  /\ history = <<>>
  /\ reports = <<>>
  /\ wait = 0
  /\ result = "none"

-----------------------------------------------------------------------------
(* The decoder.  Body: a block event may come now.  AtBlock: it is about   *)
(* the block that is open.                                                 *)
Last(blocks) == blocks[Len(blocks)]
Body == decoder.started /\ ~decoder.deltas
AtBlock(e) == Body /\ decoder.open /\ e.index = Len(decoder.blocks) - 1

(* Mutant: the index of a delta is not compared with the open block.       *)
AcceptsAnyIndex(e) ==
  CASE e.type = "message_start" -> ~decoder.started
    [] e.type = "block_start" ->
         Body /\ ~decoder.open /\ e.index = Len(decoder.blocks)
    [] e.type = "delta" ->
         /\ Body /\ decoder.open
         /\ \/ e.kind = Last(decoder.blocks).kind
            \/ e.kind = "signature" /\ Last(decoder.blocks).kind = "thinking"
    [] e.type = "block_stop" -> AtBlock(e)
    [] e.type = "message_delta" ->
         /\ decoder.started /\ ~decoder.open /\ decoder.reason = "none"
         /\ e.tokens >= decoder.tokens
    [] e.type = "message_stop" -> decoder.reason = "end_turn"
    [] OTHER -> FALSE

(* The events feed accepts in the decoder's state.                         *)
Accepts(e) ==
  CASE e.type = "message_start" -> ~decoder.started
    [] e.type = "block_start" ->
         Body /\ ~decoder.open /\ e.index = Len(decoder.blocks)
    [] e.type = "delta" ->
         /\ AtBlock(e)
         /\ \/ e.kind = Last(decoder.blocks).kind
            \/ e.kind = "signature" /\ Last(decoder.blocks).kind = "thinking"
    [] e.type = "block_stop" -> AtBlock(e)
    [] e.type = "message_delta" ->
         /\ decoder.started /\ ~decoder.open /\ decoder.reason = "none"
         /\ e.tokens >= decoder.tokens
    [] e.type = "message_stop" -> decoder.reason = "end_turn"
    [] OTHER -> FALSE

(* An event that holds generated content.                                  *)
Carries(e) == e.type \in {"block_start", "delta"} /\ e.piece # "empty"

Add(blocks, piece) ==
  [blocks EXCEPT ![Len(blocks)].pieces = @ \cup {piece}]

(* Mutant: a signature is not counted as generated.                        *)
FedUncounted(e) ==
  CASE e.type = "message_start" ->
         [decoder EXCEPT !.started = TRUE, !.tokens = e.tokens]
    [] e.type = "block_start" ->
         [decoder EXCEPT !.open = TRUE, !.generated = @ \/ Carries(e),
            !.blocks = Append(@, [kind |-> e.kind, pieces |-> {e.piece}])]
    [] e.type = "delta" /\ e.kind # "signature" ->
         [decoder EXCEPT !.generated = @ \/ Carries(e),
            !.blocks = Add(@, e.piece)]
    [] e.type = "delta" /\ e.kind = "signature" -> decoder
    [] e.type = "block_stop" -> [decoder EXCEPT !.open = FALSE]
    [] e.type = "message_delta" ->
         [decoder EXCEPT !.deltas = TRUE, !.reason = e.reason,
            !.tokens = e.tokens]
    [] e.type = "message_stop" -> [decoder EXCEPT !.stopped = TRUE]

(* The decoder after an event it accepts.                                  *)
Fed(e) ==
  CASE e.type = "message_start" ->
         [decoder EXCEPT !.started = TRUE, !.tokens = e.tokens]
    [] e.type = "block_start" ->
         [decoder EXCEPT !.open = TRUE, !.generated = @ \/ Carries(e),
            !.blocks = Append(@, [kind |-> e.kind, pieces |-> {e.piece}])]
    [] e.type = "delta" /\ e.kind # "signature" ->
         [decoder EXCEPT !.generated = @ \/ Carries(e),
            !.blocks = Add(@, e.piece)]
    [] e.type = "delta" /\ e.kind = "signature" ->
         [decoder EXCEPT !.generated = @ \/ Carries(e)]
    [] e.type = "block_stop" -> [decoder EXCEPT !.open = FALSE]
    [] e.type = "message_delta" ->
         [decoder EXCEPT !.deltas = TRUE, !.reason = e.reason,
            !.tokens = e.tokens]
    [] e.type = "message_stop" -> [decoder EXCEPT !.stopped = TRUE]

(* finish, answer_text: some block of text must have more than blanks.     *)
HasAnswer ==
  \E i \in DOMAIN decoder.blocks :
    decoder.blocks[i].kind = "text" /\ "word" \in decoder.blocks[i].pieces

-----------------------------------------------------------------------------
(* How an attempt ends.                                                    *)

Least(a, b) == IF a < b THEN a ELSE b

(* _retry_delay: what the header asks for, or an exponential backoff.      *)
Delays(header) ==
  {IF header # Absent /\ header >= 0 THEN Least(header + s, MaxWait)
   ELSE Least(Backoff[attempt] + s, MaxWait) : s \in Stagger}

Told(status) == Append(reports, [attempt |-> attempt, status |-> status])

Ends(status, outcome) ==
  /\ conn' = "done"
  /\ result' = outcome
  /\ reports' = Told(status)
  /\ UNCHANGED <<attempt, wait>>

(* Mutant: the last attempt is reported as one to be retried.              *)
RetryMistold(header) ==
  \/ /\ attempt < Retries
     /\ conn' = "sleep"
     /\ wait' \in Delays(header)
     /\ reports' = Told("retry")
     /\ UNCHANGED <<attempt, result>>
  \/ attempt >= Retries /\ Ends("retry", "transport_error")

(* Try again, or give up after the last attempt.                           *)
Retry(header) ==
  \/ /\ attempt < Retries
     /\ conn' = "sleep"
     /\ wait' \in Delays(header)
     /\ reports' = Told("retry")
     /\ UNCHANGED <<attempt, result>>
  \/ attempt >= Retries /\ Ends("error", "transport_error")

-----------------------------------------------------------------------------
Respond ==
  /\ conn = "send"
  /\ conn' = "stream"
  /\ UNCHANGED <<attempt, decoder, partial, history, reports, wait, result>>

(* A status of _RETRYABLE_STATUS.                                          *)
Busy ==
  /\ conn = "send"
  /\ \E header \in RetryAfter : Retry(header)
  /\ UNCHANGED <<decoder, partial, history>>

(* Another status, or a response that is not an event stream.              *)
Refuse ==
  /\ conn = "send"
  /\ \E outcome \in {"transport_error", "response_error"} : Ends("error", outcome)
  /\ UNCHANGED <<decoder, partial, history>>

(* httpx.TransportError, when connecting or while the stream is read.      *)
Break ==
  /\ conn \in {"send", "stream"}
  /\ \/ ~decoder.generated /\ ~decoder.stopped /\ Retry(Absent)
     \/ decoder.generated /\ Ends("error", "transport_error")
  /\ UNCHANGED <<decoder, partial, history>>

(* The server closes the stream: finish, or a frame without an end.        *)
Close ==
  /\ conn = "stream"
  /\ Ends("error", "response_error")
  /\ UNCHANGED <<decoder, partial, history>>

(* httpx.DecodingError: neither a TransportError nor raised by the decoder, *)
(* so that nothing in complete handles it.                                 *)
Garble ==
  /\ conn = "stream"
  /\ conn' = "done"
  /\ result' = "unexpected"
  /\ UNCHANGED <<attempt, decoder, partial, history, reports, wait>>

(* The lines of a frame with content, without the blank line that ends it. *)
Receive ==
  /\ conn = "stream"
  /\ partial' = TRUE
  /\ UNCHANGED <<attempt, conn, decoder, history, reports, wait, result>>

(* The (rest of the) frame arrives.                                        *)
Frame(e) ==
  /\ conn = "stream"
  /\ partial => Carries(e)
  /\ partial' = FALSE

(* An error event, ...                                                     *)
Overloaded ==
  /\ Frame([type |-> "overloaded"])
  /\ \/ ~decoder.generated /\ \E header \in RetryAfter : Retry(header)
     \/ decoder.generated /\ Ends("error", "transport_error")
  /\ UNCHANGED <<decoder, history>>

StreamError ==
  /\ Frame([type |-> "error"])
  /\ Ends("error", "transport_error")
  /\ UNCHANGED <<decoder, history>>

(* ... an event the decoder rejects, ...                                   *)
Reject(e) ==
  /\ Frame(e)
  /\ e.type \notin {"overloaded", "error"} /\ ~Accepts(e)
  /\ Ends("error", "response_error")
  /\ UNCHANGED <<decoder, history>>

Decode(e) ==
  /\ Frame(e)
  /\ Len(history) < EventBound
  /\ Accepts(e)
  /\ decoder' = Fed(e)
  /\ history' = Append(history, e)

(* ... one that goes on, ...                                               *)
GoOn(e) ==
  /\ Decode(e)
  /\ ~decoder'.stopped /\ decoder'.reason \in {"none", "end_turn"}
  /\ UNCHANGED <<attempt, conn, reports, wait, result>>

(* ... one that ends the generation too early, ...                         *)
Truncate(e) ==
  /\ Decode(e)
  /\ \/ decoder'.reason = "max_tokens" /\ Ends("error", "truncated")
     \/ decoder'.reason = "other" /\ Ends("error", "response_error")

(* ... or the last.                                                        *)
Finish(e) ==
  /\ Decode(e)
  /\ decoder'.stopped
  /\ \/ HasAnswer /\ Ends("success", "reply")
     \/ ~HasAnswer /\ Ends("error", "response_error")

Wake ==
  /\ conn = "sleep"
  /\ attempt' = attempt + 1
  /\ conn' = "send"
  /\ decoder' = NewDecoder
  /\ partial' = FALSE
  /\ history' = <<>>
  /\ wait' = 0
  /\ UNCHANGED <<reports, result>>

Next ==
  \/ Respond \/ Busy \/ Refuse \/ Break \/ Close \/ Garble \/ Receive
  \/ Wake \/ Overloaded \/ StreamError
  \/ \E e \in Event : Reject(e) \/ GoOn(e) \/ Truncate(e) \/ Finish(e)

Spec == Init /\ [][Next]_vars

-----------------------------------------------------------------------------
(* Properties.                                                             *)

(* A reference for the protocol, which does not follow the decoder: a      *)
(* stream is a start, blocks one after another with their own events       *)
(* inside, at least one message delta, and a stop.                         *)
Number(h, i) == Cardinality({j \in 1 .. i : h[j].type = "block_start"})
Opener(h, i) ==
  CHOOSE j \in 1 .. i :
    h[j].type = "block_start" /\ \A k \in j + 1 .. i : h[k].type # "block_start"

InBlock(h, i) ==
  /\ Number(h, i) > 0
  /\ \A k \in Opener(h, i) .. i : h[k].type \in {"block_start", "delta"}

Ordered(h) ==
  \A i \in 2 .. Len(h) :
    CASE h[i].type = "block_start" ->
           /\ h[i - 1].type \in {"message_start", "block_stop"}
           /\ h[i].index = Number(h, i - 1)
      [] h[i].type = "delta" ->
           /\ InBlock(h, i - 1) /\ h[i].index = Number(h, i) - 1
           /\ h[i].kind \in {h[Opener(h, i)].kind} \cup
                (IF h[Opener(h, i)].kind = "thinking" THEN {"signature"} ELSE {})
      [] h[i].type = "block_stop" ->
           InBlock(h, i - 1) /\ h[i].index = Number(h, i) - 1
      [] h[i].type = "message_delta" ->
           /\ h[i - 1].type \in {"message_start", "block_stop", "message_delta"}
           /\ \A j \in 1 .. i - 1 :
                h[j].type \in {"message_start", "message_delta"}
                  => h[j].tokens <= h[i].tokens
           /\ h[i].reason = IF i = Len(h) - 1 THEN "end_turn" ELSE "none"
      [] h[i].type = "message_stop" ->
           i = Len(h) /\ h[i - 1].type = "message_delta"
      [] OTHER -> FALSE

Answered(h) ==
  \E i \in 2 .. Len(h) :
    /\ h[i].type \in {"block_start", "delta"}
    /\ h[i].kind = "text" /\ h[i].piece = "word"

WellFormed(h) ==
  /\ Len(h) > 1 /\ h[1].type = "message_start" /\ h[Len(h)].type = "message_stop"
  /\ Ordered(h) /\ Answered(h)

(* A reply is given for the streams of the protocol that hold an answer    *)
(* and for no others, however the events are ordered.                      *)
RepliesAreWellFormed == result = "reply" <=> WellFormed(history)

(* A request is not sent again once content has been decoded: generations  *)
(* that are paid for are not repeated (TinkerClient.complete).             *)
NoReplayOfDecoded ==
  [][attempt' # attempt => \A i \in DOMAIN history : ~Carries(history[i])]_vars

(* The callback is told of every attempt once and in order, and told       *)
(* "retry" exactly of those that are followed by another: only the attempt *)
(* that an exception outside TransportError ends is not reported.          *)
Ended == conn = "sleep" \/ result \notin {"none", "unexpected"}

ToldOnce ==
  /\ Len(reports) = attempt + (IF Ended THEN 1 ELSE 0)
  /\ \A i \in DOMAIN reports :
       /\ reports[i].attempt = i - 1
       /\ reports[i].status = "retry" <=> i <= attempt \/ conn = "sleep"
  /\ result = "reply" <=> \E i \in DOMAIN reports : reports[i].status = "success"
=============================================================================
