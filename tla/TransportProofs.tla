-------------------------- MODULE TransportProofs --------------------------
(***************************************************************************)
(* TinkerClient.complete, for any bounds: the callback is told of every    *)
(* attempt, no request is repeated once content was decoded, and a reply   *)
(* is given for well-formed streams and no others.                         *)
(***************************************************************************)
EXTENDS ModelTransport, FiniteSetTheorems, TLAPS

(* The flag the retries depend on agrees with what was decoded, and a call *)
(* waits only if it may try again.                                         *)
FlagInv ==
  /\ ~decoder.generated => \A i \in DOMAIN history : ~Carries(history[i])
  /\ conn \in {"send", "sleep"} => ~decoder.generated
  /\ conn = "sleep" => attempt < Retries

(* Waiting times are bounded.                                              *)
LEMMA DelaysType ==
  ASSUME TypeOK, NEW header \in RetryAfter \cup {Absent}, NEW d \in Delays(header)
  PROVE  d \in 0 .. MaxWait
BY WaitAssumption, BoundsAssumption DEF TypeOK, Delays, Least

LEMMA ToldType ==
  ASSUME TypeOK, NEW status \in {"retry", "error", "success"}
  PROVE  Told(status) \in Seq(Report)
<1>1. attempt \in Nat
  BY BoundsAssumption DEF TypeOK
<1>2. [attempt |-> attempt, status |-> status] \in Report
  BY <1>1 DEF Report
<1>3. QED
  BY <1>2 DEF TypeOK, Told

(* What the decoder becomes, and when its flag is set.                     *)
LEMMA FedType ==
  ASSUME TypeOK, NEW e \in Event, Accepts(e)
  PROVE  Fed(e) \in Decoder /\ (Fed(e).generated <=> decoder.generated \/ Carries(e))
<1> USE DEF TypeOK, Decoder, Fed, Accepts, Carries, AtBlock, Body, Tokens
<1>1. CASE e.type = "message_start"
  BY <1>1 DEF Event
<1>2. CASE e.type = "block_start"
  <2>1. e.kind \in Kind /\ e.piece \in Piece
    BY <1>2 DEF Event
  <2>2. [kind |-> e.kind, pieces |-> {e.piece}] \in Block
    BY <2>1 DEF Block
  <2>3. Fed(e) = [decoder EXCEPT !.open = TRUE,
                    !.generated = decoder.generated \/ Carries(e),
                    !.blocks = Append(decoder.blocks,
                                      [kind |-> e.kind, pieces |-> {e.piece}])]
    BY <1>2
  <2>4. Append(decoder.blocks, [kind |-> e.kind, pieces |-> {e.piece}]) \in Seq(Block)
    BY <2>2
  <2>5. QED
    BY <2>3, <2>4
<1>3. CASE e.type = "delta"
  <2>1. CASE e.kind = "signature"
    BY <1>3, <2>1
  <2>2. CASE e.kind # "signature"
    <3>1. Add(decoder.blocks, e.piece) \in Seq(Block)
      <4> DEFINE n == Len(decoder.blocks)
      <4>1. n \in 1 .. n /\ n \in Nat
        BY <1>3 DEF Event, Index
      <4>2. e.piece \in Piece
        BY <1>3 DEF Event
      <4>3. decoder.blocks[n] \in Block
        BY <4>1
      <4>4. [decoder.blocks[n] EXCEPT !.pieces = @ \cup {e.piece}] \in Block
        BY <4>2, <4>3 DEF Block
      <4>5. Add(decoder.blocks, e.piece) =
              [decoder.blocks EXCEPT ![n] =
                 [decoder.blocks[n] EXCEPT !.pieces = @ \cup {e.piece}]]
        BY DEF Add
      <4>6. QED
        BY <4>1, <4>4, <4>5
    <3>2. QED
      BY <1>3, <2>2, <3>1
  <2>3. QED
    BY <2>1, <2>2
<1>4. CASE e.type = "block_stop"
  BY <1>4 DEF Event
<1>5. CASE e.type = "message_delta"
  BY <1>5 DEF Event
<1>6. CASE e.type = "message_stop"
  BY <1>6 DEF Event
<1>7. QED
  BY <1>1, <1>2, <1>3, <1>4, <1>5, <1>6

LEMMA NewDecoderType == NewDecoder \in Decoder
<1>1. <<>> \in Seq(Block) /\ 0 \in Tokens
  BY BoundsAssumption DEF Tokens
<1>2. QED
  BY <1>1 DEF NewDecoder, Decoder, StopReason

(* Every step keeps the types, whatever the server sends.                  *)
LEMMA TypeStep == ASSUME TypeOK, FlagInv, [Next]_vars PROVE TypeOK'
<1> USE DEF TypeOK, Conn, Result
<1>1. CASE UNCHANGED vars
  BY <1>1 DEF vars
<1>2. CASE Respond
  BY <1>2 DEF Respond
<1>3. ASSUME NEW header \in RetryAfter \cup {Absent}, Retry(header),
             UNCHANGED <<decoder, history>>, partial' \in BOOLEAN
      PROVE  TypeOK'
  <2>1. wait' \in 0 .. MaxWait
    BY <1>3, DelaysType DEF Retry, Ends
  <2>2. reports' \in Seq(Report)
    <3>1. Told("retry") \in Seq(Report) /\ Told("error") \in Seq(Report)
      BY ToldType
    <3>2. QED
      BY <1>3, <3>1 DEF Retry, Ends
  <2>3. QED
    BY <1>3, <2>1, <2>2 DEF Retry, Ends
<1>4. ASSUME NEW status \in {"error", "success"}, NEW outcome \in Result,
             Ends(status, outcome), decoder' \in Decoder,
             history' \in Seq(Event), partial' \in BOOLEAN
      PROVE  TypeOK'
  BY <1>4, ToldType DEF Ends
<1>5. CASE Busy
  BY <1>3, <1>5 DEF Busy
<1>6. CASE Refuse
  BY <1>4, <1>6 DEF Refuse
<1>7. CASE Break
  BY <1>3, <1>4, <1>7 DEF Break
<1>8. CASE Close
  BY <1>4, <1>8 DEF Close
<1>9. CASE Garble
  BY <1>9 DEF Garble
<1>10. CASE Receive
  BY <1>10 DEF Receive
<1>11. ASSUME FlagInv, Wake PROVE TypeOK'
  <2>1. decoder' \in Decoder /\ history' \in Seq(Event)
    BY <1>11, NewDecoderType DEF Wake
  <2>2. attempt' \in 0 .. Retries /\ wait' \in 0 .. MaxWait
    BY <1>11, BoundsAssumption, WaitAssumption DEF Wake, FlagInv
  <2>3. QED
    BY <1>11, <2>1, <2>2 DEF Wake
<1>12. CASE Overloaded
  BY <1>3, <1>4, <1>12 DEF Overloaded, Frame
<1>13. CASE StreamError
  BY <1>4, <1>13 DEF StreamError, Frame
<1>14. ASSUME NEW e \in Event, Reject(e) PROVE TypeOK'
  BY <1>4, <1>14 DEF Reject, Frame
<1>15. ASSUME NEW e \in Event, Decode(e)
       PROVE  decoder' \in Decoder /\ history' \in Seq(Event) /\ partial' \in BOOLEAN
  <2>1. Accepts(e) /\ decoder' = Fed(e) /\ history' = Append(history, e)
    BY <1>15 DEF Decode
  <2>2. decoder' \in Decoder
    BY <2>1, FedType
  <2>3. partial' \in BOOLEAN
    BY <1>15 DEF Decode, Frame
  <2>4. QED
    BY <2>1, <2>2, <2>3
<1>16. ASSUME NEW e \in Event, GoOn(e) PROVE TypeOK'
  BY <1>15, <1>16 DEF GoOn
<1>17. ASSUME NEW e \in Event, Truncate(e) PROVE TypeOK'
  BY <1>4, <1>15, <1>17 DEF Truncate
<1>18. ASSUME NEW e \in Event, Finish(e) PROVE TypeOK'
  BY <1>4, <1>15, <1>18 DEF Finish
<1>19. QED
  BY <1>1, <1>2, <1>5, <1>6, <1>7, <1>8, <1>9, <1>10, <1>11, <1>12, <1>13, <1>14,
     <1>16, <1>17, <1>18 DEF Next

LEMMA TypeInit == Init => TypeOK
<1>1. <<>> \in Seq(Event) /\ <<>> \in Seq(Report)
  OBVIOUS
<1>2. 0 \in 0 .. Retries /\ 0 \in 0 .. MaxWait
  BY BoundsAssumption, WaitAssumption
<1>3. QED
  BY <1>1, <1>2, NewDecoderType DEF Init, TypeOK, Conn, Result

(* A failed request keeps the flag and waits only if nothing was decoded.  *)
LEMMA FlagStep == ASSUME TypeOK, FlagInv, [Next]_vars PROVE FlagInv'
<1> USE DEF FlagInv
<1>1. CASE UNCHANGED vars
  BY <1>1 DEF vars
<1>2. ASSUME NEW header \in RetryAfter \cup {Absent}, Retry(header),
             ~decoder.generated, UNCHANGED <<decoder, history>>
      PROVE  FlagInv'
  BY <1>2 DEF Retry, Ends
<1>3. ASSUME UNCHANGED <<decoder, history>>, conn' \in {"stream", "done"}
      PROVE  FlagInv'
  BY <1>3
<1>4. ASSUME NEW e \in Event, Decode(e), conn' \in {"stream", "done"}
      PROVE  FlagInv'
  <2>1. /\ decoder'.generated <=> decoder.generated \/ Carries(e)
        /\ history' = Append(history, e)
    BY <1>4, FedType DEF Decode
  <2>2. ASSUME ~decoder'.generated, NEW i \in DOMAIN history'
        PROVE  ~Carries(history'[i])
    <3>1. history \in Seq(Event)
      BY DEF TypeOK
    <3>2. CASE i = Len(history) + 1
      BY <2>1, <2>2, <3>1, <3>2
    <3>3. CASE i # Len(history) + 1
      <4>1. i \in DOMAIN history /\ history'[i] = history[i]
        BY <2>1, <2>2, <3>1, <3>3
      <4>2. QED
        BY <2>1, <2>2, <4>1
    <3>4. QED
      BY <3>2, <3>3
  <2>3. QED
    BY <1>4, <2>2
<1>5. CASE Respond
  BY <1>3, <1>5 DEF Respond
<1>6. CASE Busy
  BY <1>2, <1>6 DEF Busy
<1>7. CASE Refuse
  BY <1>3, <1>7 DEF Refuse, Ends
<1>8. CASE Break
  BY <1>2, <1>3, <1>8 DEF Break, Ends
<1>9. CASE Close
  BY <1>3, <1>9 DEF Close, Ends
<1>10. CASE Garble
  BY <1>3, <1>10 DEF Garble
<1>11. CASE Receive
  BY <1>3, <1>11 DEF Receive
<1>12. CASE Wake
  BY <1>12 DEF Wake, NewDecoder
<1>13. CASE Overloaded
  BY <1>2, <1>3, <1>13 DEF Overloaded, Ends
<1>14. CASE StreamError
  BY <1>3, <1>14 DEF StreamError, Ends
<1>15. ASSUME NEW e \in Event, Reject(e) PROVE FlagInv'
  BY <1>3, <1>15 DEF Reject, Ends
<1>16. ASSUME NEW e \in Event, GoOn(e) PROVE FlagInv'
  BY <1>4, <1>16 DEF GoOn, Decode, Frame
<1>17. ASSUME NEW e \in Event, Truncate(e) PROVE FlagInv'
  BY <1>4, <1>17 DEF Truncate, Ends
<1>18. ASSUME NEW e \in Event, Finish(e) PROVE FlagInv'
  BY <1>4, <1>18 DEF Finish, Ends
<1>19. QED
  BY <1>1, <1>5, <1>6, <1>7, <1>8, <1>9, <1>10, <1>11, <1>12, <1>13, <1>14, <1>15,
     <1>16, <1>17, <1>18 DEF Next

LEMMA TypesAndFlag == Spec => [](TypeOK /\ FlagInv)
<1>1. Init => FlagInv
  BY DEF Init, FlagInv, NewDecoder
<1>2. QED
  BY <1>1, TypeInit, TypeStep, FlagStep, PTL DEF Spec

(* Decoder, history, reports and delays stay well formed; in particular no *)
(* delay exceeds MAX_RETRY_AFTER_SECONDS and no attempt is numbered above  *)
(* TRANSPORT_RETRIES.                                                      *)
THEOREM TransportTypes == Spec => []TypeOK
BY TypesAndFlag, PTL

(* A request is not sent again once content has been decoded.              *)
THEOREM NoReplay == Spec => NoReplayOfDecoded
<1>1. ASSUME FlagInv, [Next]_vars
      PROVE  [attempt' # attempt => \A i \in DOMAIN history : ~Carries(history[i])]_vars
  <2>1. CASE Wake
    BY <1>1, <2>1 DEF Wake, FlagInv
  <2>2. CASE ~Wake
    <3>1. attempt' = attempt
      BY <1>1, <2>2
      DEF Next, vars, Respond, Busy, Refuse, Break, Close, Garble, Receive, Overloaded,
          StreamError, Reject, GoOn, Truncate, Finish, Retry, Ends
    <3>2. QED
      BY <3>1
  <2>3. QED
    BY <2>1, <2>2
<1>2. QED
  BY <1>1, TypesAndFlag, PTL DEF Spec, NoReplayOfDecoded

(* How the reports, the attempts and the result of the call are related.   *)
ReportInv ==
  /\ ToldOnce
  /\ conn = "done" <=> result # "none"
  /\ conn = "sleep" => attempt < Retries

LEMMA ReportStep ==
  ASSUME TypeOK, ReportInv, [Next]_vars PROVE ReportInv'
<1> USE DEF ReportInv, Ended
<1>1. CASE UNCHANGED vars
  BY <1>1 DEF vars, ToldOnce
<1>2. ASSUME NEW status \in {"error", "success"}, NEW outcome \in Result \ {"none", "unexpected"},
             Ends(status, outcome), conn \in {"send", "stream"},
             status = "success" <=> outcome = "reply"
      PROVE  ReportInv'
  <2>1. /\ conn' = "done" /\ result' = outcome /\ attempt' = attempt
        /\ reports' = Append(reports, [attempt |-> attempt, status |-> status])
    BY <1>2 DEF Ends, Told
  <2>2. reports \in Seq(Report) /\ attempt \in Nat /\ Len(reports) = attempt
    BY <1>2, BoundsAssumption DEF TypeOK, ToldOnce
  <2>3. /\ Len(reports') = attempt + 1 /\ DOMAIN reports' = 1 .. attempt + 1
        /\ reports'[attempt + 1] = [attempt |-> attempt, status |-> status]
        /\ \A i \in 1 .. attempt : reports'[i] = reports[i]
    BY <2>1, <2>2
  <2>4. \A i \in 1 .. attempt :
          reports[i].attempt = i - 1 /\ reports[i].status = "retry"
    BY <1>2, <2>2 DEF ToldOnce
  <2>5. Len(reports') = attempt' + (IF Ended' THEN 1 ELSE 0)
    BY <2>1, <2>3 DEF Ended
  <2>6. ASSUME NEW i \in DOMAIN reports'
        PROVE  /\ reports'[i].attempt = i - 1
               /\ reports'[i].status = "retry" <=> i <= attempt' \/ conn' = "sleep"
    <3>1. CASE i \in 1 .. attempt
      BY <2>1, <2>2, <2>3, <2>4, <3>1
    <3>2. CASE i = attempt + 1
      BY <1>2, <2>1, <2>2, <2>3, <3>2
    <3>3. QED
      BY <2>2, <2>3, <3>1, <3>2
  <2>7. result' = "reply" <=> \E i \in DOMAIN reports' : reports'[i].status = "success"
    <3>1. \A i \in 1 .. attempt : reports'[i].status # "success"
      BY <2>3, <2>4
    <3>2. reports'[attempt + 1].status = "success" <=> outcome = "reply"
      BY <1>2, <2>3
    <3>3. QED
      BY <2>1, <2>2, <2>3, <3>1, <3>2
  <2>8. QED
    BY <1>2, <2>1, <2>5, <2>6, <2>7 DEF ToldOnce
<1>3. ASSUME NEW header \in RetryAfter \cup {Absent}, Retry(header),
             conn \in {"send", "stream"}
      PROVE  ReportInv'
  <2>1. CASE attempt < Retries
    <3>1. /\ conn' = "sleep" /\ result' = result /\ attempt' = attempt
          /\ reports' = Append(reports, [attempt |-> attempt, status |-> "retry"])
      BY <1>3, <2>1, BoundsAssumption DEF Retry, Told, TypeOK
    <3>2. /\ reports \in Seq(Report) /\ attempt \in Nat /\ Len(reports) = attempt
          /\ result = "none"
      BY <1>3, BoundsAssumption DEF TypeOK, ToldOnce
    <3>3. /\ Len(reports') = attempt + 1 /\ DOMAIN reports' = 1 .. attempt + 1
          /\ reports'[attempt + 1] = [attempt |-> attempt, status |-> "retry"]
          /\ \A i \in 1 .. attempt : reports'[i] = reports[i]
      BY <3>1, <3>2
    <3>4. \A i \in 1 .. attempt :
            reports[i].attempt = i - 1 /\ reports[i].status = "retry"
      BY <1>3, <3>2 DEF ToldOnce
    <3>5. \A i \in 1 .. attempt + 1 :
            reports'[i].attempt = i - 1 /\ reports'[i].status = "retry"
      BY <3>2, <3>3, <3>4
    <3>6. ToldOnce'
      BY <3>1, <3>2, <3>3, <3>5 DEF ToldOnce
    <3>7. QED
      BY <2>1, <3>1, <3>2, <3>6
  <2>2. CASE attempt >= Retries
    <3>1. Ends("error", "transport_error")
      BY <1>3, <2>2, BoundsAssumption DEF Retry, TypeOK
    <3>2. QED
      BY <1>2, <1>3, <3>1 DEF Result
  <2>3. QED
    BY <2>1, <2>2, BoundsAssumption DEF TypeOK
<1>4. ASSUME UNCHANGED <<attempt, reports, result>>, conn \in {"send", "stream"},
             conn' \in {"send", "stream"}
      PROVE  ReportInv'
  BY <1>4 DEF ToldOnce
<1>5. CASE Respond
  BY <1>4, <1>5 DEF Respond
<1>6. CASE Busy
  BY <1>3, <1>6 DEF Busy
<1>7. CASE Refuse
  BY <1>2, <1>7 DEF Refuse, Result
<1>8. CASE Break
  BY <1>2, <1>3, <1>8 DEF Break, Result
<1>9. CASE Close
  BY <1>2, <1>9 DEF Close, Result
<1>10. CASE Garble
  <2>1. /\ conn = "stream" /\ conn' = "done" /\ result' = "unexpected"
        /\ UNCHANGED <<attempt, reports>>
    BY <1>10 DEF Garble
  <2>2. ToldOnce'
    BY <2>1 DEF ToldOnce
  <2>3. QED
    BY <2>1, <2>2
<1>11. CASE Receive
  BY <1>4, <1>11 DEF Receive
<1>12. CASE Wake
  <2>1. /\ conn = "sleep" /\ conn' = "send" /\ attempt' = attempt + 1
        /\ reports' = reports /\ result' = result
    BY <1>12 DEF Wake
  <2>2. reports \in Seq(Report) /\ attempt \in Nat /\ Len(reports) = attempt + 1
    BY <2>1, BoundsAssumption DEF TypeOK, ToldOnce
  <2>3. \A i \in DOMAIN reports :
          reports[i].attempt = i - 1 /\ reports[i].status = "retry"
    BY <2>1, <2>2 DEF ToldOnce
  <2>4. ToldOnce'
    BY <2>1, <2>2, <2>3 DEF ToldOnce
  <2>5. QED
    BY <2>1, <2>4
<1>13. CASE Overloaded
  BY <1>2, <1>3, <1>13 DEF Overloaded, Frame, Result
<1>14. CASE StreamError
  BY <1>2, <1>14 DEF StreamError, Frame, Result
<1>15. ASSUME NEW e \in Event, Reject(e) PROVE ReportInv'
  BY <1>2, <1>15 DEF Reject, Frame, Result
<1>16. ASSUME NEW e \in Event, GoOn(e) PROVE ReportInv'
  BY <1>4, <1>16 DEF GoOn, Decode, Frame
<1>17. ASSUME NEW e \in Event, Truncate(e) PROVE ReportInv'
  BY <1>2, <1>17 DEF Truncate, Decode, Frame, Result
<1>18. ASSUME NEW e \in Event, Finish(e) PROVE ReportInv'
  BY <1>2, <1>18 DEF Finish, Decode, Frame, Result
<1>19. QED
  BY <1>1, <1>5, <1>6, <1>7, <1>8, <1>9, <1>10, <1>11, <1>12, <1>13, <1>14, <1>15,
     <1>16, <1>17, <1>18 DEF Next

(* The callback is told of every attempt once, in order, and with what     *)
(* became of it.                                                           *)
THEOREM ReportsComplete == Spec => []ToldOnce
<1>1. Init => ReportInv
  BY DEF Init, ReportInv, ToldOnce, Ended
<1>2. TypeOK /\ ReportInv /\ [Next]_vars => ReportInv'
  BY ReportStep
<1>3. Spec => []ReportInv
  BY <1>1, <1>2, TransportTypes, PTL DEF Spec
<1>4. ReportInv => ToldOnce
  BY DEF ReportInv
<1>5. QED
  BY <1>3, <1>4, PTL

-----------------------------------------------------------------------------
(* Replies.  The reference counts blocks and looks back for the event that *)
(* opened one; the decoder remembers.                                      *)

(* An event may come in a block that has been opened.                      *)
Within(h, i) == InBlock(h, i) /\ Opener(h, i) \in 1 .. i

(* What may come in a stream, for each event from what went before it.     *)
Allowed(h, i) ==
  /\ h[i].type \in {"block_start", "delta", "block_stop", "message_delta", "message_stop"}
  /\ h[i].type = "block_start" =>
       /\ h[i - 1].type \in {"message_start", "block_stop"}
       /\ h[i].index = Number(h, i - 1)
  /\ h[i].type = "delta" =>
       /\ Within(h, i - 1) /\ Opener(h, i) \in 1 .. i
       /\ h[i].index = Number(h, i) - 1
       /\ \/ h[i].kind = h[Opener(h, i)].kind
          \/ h[i].kind = "signature" /\ h[Opener(h, i)].kind = "thinking"
  /\ h[i].type = "block_stop" =>
       Within(h, i - 1) /\ h[i].index = Number(h, i) - 1
  /\ h[i].type = "message_delta" =>
       /\ h[i - 1].type \in {"message_start", "block_stop", "message_delta"}
       /\ \A j \in 1 .. i - 1 :
            h[j].type \in {"message_start", "message_delta"} => h[j].tokens <= h[i].tokens
       /\ h[i - 1].type = "message_delta" => h[i - 1].reason = "none"
  /\ h[i].type = "message_stop" =>
       h[i - 1].type = "message_delta" /\ h[i - 1].reason = "end_turn"

IsOpener(h, i, o) ==
  /\ o \in 1 .. i /\ h[o].type = "block_start"
  /\ \A k \in o + 1 .. i : h[k].type # "block_start"

LEMMA OpenerIs ==
  ASSUME NEW h, NEW i \in Nat, NEW o, IsOpener(h, i, o)
  PROVE  Opener(h, i) = o
<1> DEFINE P(j) == h[j].type = "block_start" /\ \A k \in j + 1 .. i : h[k].type # "block_start"
<1>1. o \in 1 .. i /\ P(o)
  BY DEF IsOpener
<1>2. \A j \in 1 .. i : P(j) => j = o
  BY <1>1
<1>3. Opener(h, i) = CHOOSE j \in 1 .. i : P(j)
  BY DEF Opener
<1> HIDE DEF P
<1>4. QED
  BY <1>1, <1>2, <1>3

(* Number and Opener look at a prefix only.                                *)
LEMMA NumberOfPrefix ==
  ASSUME NEW h, NEW g, NEW i \in Nat, \A j \in 1 .. i : h[j] = g[j]
  PROVE  Number(h, i) = Number(g, i)
<1>1. {j \in 1 .. i : h[j].type = "block_start"} = {j \in 1 .. i : g[j].type = "block_start"}
  OBVIOUS
<1>2. QED
  BY <1>1 DEF Number

LEMMA OpenerOfPrefix ==
  ASSUME NEW h, NEW g, NEW i \in Nat, \A j \in 1 .. i : h[j] = g[j]
  PROVE  Opener(h, i) = Opener(g, i)
<1> DEFINE P(j) == h[j].type = "block_start" /\ \A k \in j + 1 .. i : h[k].type # "block_start"
           Q(j) == g[j].type = "block_start" /\ \A k \in j + 1 .. i : g[k].type # "block_start"
<1>1. \A j : j \in 1 .. i /\ P(j) <=> j \in 1 .. i /\ Q(j)
  OBVIOUS
<1>2. /\ Opener(h, i) = (CHOOSE j : j \in 1 .. i /\ P(j))
      /\ Opener(g, i) = (CHOOSE j : j \in 1 .. i /\ Q(j))
  BY DEF Opener
<1> HIDE DEF P, Q
<1>3. (CHOOSE j : j \in 1 .. i /\ P(j)) = (CHOOSE j : j \in 1 .. i /\ Q(j))
  BY <1>1, Zenon
<1>4. QED
  BY <1>2, <1>3

LEMMA NumberStep ==
  ASSUME NEW h, NEW i \in Nat
  PROVE  /\ Number(h, i) \in Nat
         /\ Number(h, 0) = 0
         /\ h[i + 1].type = "block_start" => Number(h, i + 1) = Number(h, i) + 1
         /\ h[i + 1].type # "block_start" => Number(h, i + 1) = Number(h, i)
<1> DEFINE S(n) == {j \in 1 .. n : h[j].type = "block_start"}
<1>1. IsFiniteSet(S(i))
  BY FS_Interval, FS_Subset, 1 \in Int, i \in Int
<1>2. S(0) = {}
  OBVIOUS
<1>3. h[i + 1].type = "block_start" => S(i + 1) = S(i) \cup {i + 1} /\ i + 1 \notin S(i)
  OBVIOUS
<1>4. h[i + 1].type # "block_start" => S(i + 1) = S(i)
  OBVIOUS
<1>5. Number(h, i) = Cardinality(S(i)) /\ Number(h, i + 1) = Cardinality(S(i + 1))
      /\ Number(h, 0) = Cardinality(S(0))
  BY DEF Number
<1> HIDE DEF S
<1>6. /\ Cardinality(S(i)) \in Nat
      /\ Cardinality(S(i) \cup {i + 1}) =
           Cardinality(S(i)) + (IF i + 1 \in S(i) THEN 0 ELSE 1)
  BY <1>1, FS_CardinalityType, FS_AddElement
<1>7. Number(h, 0) = 0
  BY <1>2, <1>5, FS_EmptySet
<1>8. QED
  BY <1>3, <1>4, <1>5, <1>6, <1>7

(* The decoder against the stream so far: every event was in its place, the *)
(* blocks are those that were opened, ...                                  *)
PlaceInv ==
  /\ decoder.started <=> Len(history) > 0
  /\ Len(history) > 0 => history[1].type = "message_start"
  /\ \A i \in 2 .. Len(history) : Allowed(history, i)

BlocksInv ==
  /\ Len(decoder.blocks) = Number(history, Len(history))
  /\ Number(history, Len(history)) > 0 =>
       /\ IsOpener(history, Len(history), Opener(history, Len(history)))
       /\ Last(decoder.blocks).kind = history[Opener(history, Len(history))].kind
  /\ decoder.open => Within(history, Len(history)) /\ ~decoder.deltas
  /\ ~decoder.open /\ ~decoder.deltas /\ Len(history) > 0 =>
       history[Len(history)].type \in {"message_start", "block_stop"}

(* ... what the last message delta said is what the decoder remembers, ... *)
DeltaInv ==
  /\ decoder.deltas => decoder.started
  /\ decoder.deltas /\ ~decoder.stopped =>
       /\ history[Len(history)].type = "message_delta"
       /\ history[Len(history)].reason = decoder.reason
  /\ ~decoder.deltas => decoder.reason = "none"
  /\ \A j \in 1 .. Len(history) :
       history[j].type \in {"message_start", "message_delta"} =>
         history[j].tokens <= decoder.tokens

(* ... and nothing follows the stop.                                       *)
StopInv ==
  /\ decoder.stopped <=> Len(history) > 0 /\ history[Len(history)].type = "message_stop"
  /\ decoder.stopped => conn = "done" /\ decoder.deltas

AnswerInv == HasAnswer <=> Answered(history)

StreamInv == PlaceInv /\ BlocksInv /\ DeltaInv /\ StopInv /\ AnswerInv

(* A call that has ended ended with a reply if its stream did.             *)
ReplyInv ==
  /\ result = "reply" <=> decoder.stopped /\ HasAnswer
  /\ conn = "done" <=> result # "none"

(* An accepted event, with what is known of it and of the decoder.         *)
Taken(e) ==
  /\ TypeOK /\ StreamInv /\ ~decoder.stopped
  /\ e \in Event /\ Accepts(e)
  /\ decoder' = Fed(e) /\ history' = Append(history, e)

LEMMA Longer ==
  ASSUME TypeOK, NEW e, history' = Append(history, e)
  PROVE  /\ Len(history) \in Nat /\ Len(history') = Len(history) + 1
         /\ history'[Len(history) + 1] = e
         /\ \A j \in 1 .. Len(history) : history'[j] = history[j]
         /\ Number(history', Len(history)) = Number(history, Len(history))
         /\ Opener(history', Len(history)) = Opener(history, Len(history))
<1>1. history \in Seq(Event)
  BY DEF TypeOK
<1>2. /\ Len(history) \in Nat /\ Len(history') = Len(history) + 1
      /\ history'[Len(history) + 1] = e
      /\ \A j \in 1 .. Len(history) : history'[j] = history[j]
  BY <1>1
<1>3. QED
  BY <1>2, NumberOfPrefix, OpenerOfPrefix

LEMMA WithinOfPrefix ==
  ASSUME NEW h, NEW g, NEW i \in Nat, \A j \in 1 .. i : h[j] = g[j], Within(h, i)
  PROVE  Within(g, i)
<1>1. Number(h, i) = Number(g, i) /\ Opener(h, i) = Opener(g, i)
  BY NumberOfPrefix, OpenerOfPrefix
<1>2. QED
  BY <1>1 DEF Within, InBlock

(* A longer stream keeps what is true of its beginning.                    *)
LEMMA AllowedOfPrefix ==
  ASSUME NEW h, NEW g, NEW n \in Nat, NEW i \in 2 .. n,
         \A j \in 1 .. n : h[j] = g[j], Allowed(h, i)
  PROVE  Allowed(g, i)
<1>1. /\ i \in Nat /\ i - 1 \in Nat /\ h[i] = g[i] /\ h[i - 1] = g[i - 1]
      /\ \A j \in 1 .. i : h[j] = g[j]
      /\ \A j \in 1 .. i - 1 : h[j] = g[j]
  OBVIOUS
<1>2. /\ Number(h, i) = Number(g, i) /\ Number(h, i - 1) = Number(g, i - 1)
      /\ Opener(h, i) = Opener(g, i) /\ Opener(h, i - 1) = Opener(g, i - 1)
  <2>1. Number(h, i) = Number(g, i) /\ Opener(h, i) = Opener(g, i)
    BY <1>1, NumberOfPrefix, OpenerOfPrefix
  <2>2. Number(h, i - 1) = Number(g, i - 1) /\ Opener(h, i - 1) = Opener(g, i - 1)
    BY <1>1, NumberOfPrefix, OpenerOfPrefix
  <2>3. QED
    BY <2>1, <2>2
<1>3. Within(h, i - 1) => Within(g, i - 1)
  BY <1>1, WithinOfPrefix
<1>4. h[i].type = "delta" => h[Opener(h, i)] = g[Opener(h, i)]
  <2>1. ASSUME h[i].type = "delta" PROVE Opener(h, i) \in 1 .. n
    BY <2>1 DEF Allowed
  <2>2. QED
    BY <2>1
<1>5. QED
  BY <1>1, <1>2, <1>3, <1>4 DEF Allowed

LEMMA PlaceStep ==
  ASSUME TypeOK, PlaceInv, NEW e, history' = Append(history, e),
         Len(history) > 0, decoder'.started, Allowed(history', Len(history) + 1)
  PROVE  PlaceInv'
<1>1. /\ Len(history) \in Nat /\ Len(history') = Len(history) + 1
      /\ \A j \in 1 .. Len(history) : history[j] = history'[j]
  BY Longer
<1>2. \A i \in 2 .. Len(history) : Allowed(history, i)
  BY DEF PlaceInv
<1>3. ASSUME NEW i \in 2 .. Len(history) PROVE Allowed(history', i)
  <2>1. Allowed(history, i)
    BY <1>2
  <2>2. ASSUME NEW g, \A j \in 1 .. Len(history) : history[j] = g[j]
        PROVE  Allowed(g, i)
    <3>1. Len(history) \in Nat
      BY <1>1
    <3>2. QED
      BY <2>1, <2>2, <3>1, AllowedOfPrefix
  <2>3. QED
    BY <1>1, <2>2
<1>4. \A i \in 2 .. Len(history') : Allowed(history', i)
  BY <1>1, <1>3
<1>5. history'[1].type = "message_start"
  BY <1>1 DEF PlaceInv
<1>6. QED
  BY <1>1, <1>4, <1>5 DEF PlaceInv

(* What the deltas say is kept by an event that does not count tokens.     *)
LEMMA DeltaStep ==
  ASSUME TypeOK, DeltaInv, NEW e, history' = Append(history, e),
         e.type \notin {"message_start", "message_delta"},
         decoder'.tokens = decoder.tokens,
         decoder'.deltas <=> decoder.deltas, decoder'.started,
         decoder'.reason = decoder.reason,
         ~decoder.deltas \/ decoder'.stopped
  PROVE  DeltaInv'
<1>1. /\ Len(history) \in Nat /\ Len(history') = Len(history) + 1
      /\ history'[Len(history) + 1] = e
      /\ \A j \in 1 .. Len(history) : history'[j] = history[j]
  BY Longer
<1>2. ASSUME NEW j \in 1 .. Len(history'),
             history'[j].type \in {"message_start", "message_delta"}
      PROVE  history'[j].tokens <= decoder'.tokens
  <2>1. j # Len(history) + 1
    BY <1>1, <1>2
  <2>2. j \in 1 .. Len(history) /\ history'[j] = history[j]
    BY <1>1, <2>1
  <2>3. QED
    BY <1>2, <2>2 DEF DeltaInv
<1>3. QED
  BY <1>2 DEF DeltaInv

(* The answer is in a piece of text.                                       *)
Tells(e) == e.type \in {"block_start", "delta"} /\ e.kind = "text" /\ e.piece = "word"

LEMMA AnsweredStep ==
  ASSUME TypeOK, NEW e, history' = Append(history, e), Len(history) > 0
  PROVE  Answered(history') <=> Answered(history) \/ Tells(e)
<1>1. /\ Len(history) \in Nat /\ Len(history') = Len(history) + 1
      /\ history'[Len(history) + 1] = e
      /\ \A j \in 1 .. Len(history) : history'[j] = history[j]
  BY Longer
<1>2. Answered(history') <=> \E i \in 2 .. Len(history) + 1 : Tells(history'[i])
  BY <1>1 DEF Answered, Tells
<1>3. Answered(history) <=> \E i \in 2 .. Len(history) : Tells(history[i])
  BY DEF Answered, Tells
<1> HIDE DEF Tells
<1>4. QED
  BY <1>1, <1>2, <1>3

(* A message start is the first event.                                     *)
LEMMA StartStep ==
  ASSUME NEW e, Taken(e), e.type = "message_start"
  PROVE  /\ PlaceInv' /\ BlocksInv' /\ DeltaInv' /\ AnswerInv'
         /\ ~decoder'.stopped
<1>1. /\ TypeOK /\ PlaceInv /\ BlocksInv /\ DeltaInv /\ AnswerInv
      /\ history' = Append(history, e) /\ e \in Event
  BY DEF Taken, StreamInv
<1>2. /\ Len(history) \in Nat /\ Len(history') = Len(history) + 1
      /\ history'[Len(history) + 1] = e
  BY <1>1, Longer
<1>3. /\ ~decoder.started
      /\ decoder' = [decoder EXCEPT !.started = TRUE, !.tokens = e.tokens]
      /\ decoder \in Decoder /\ ~decoder.stopped
  BY <1>1 DEF Taken, Accepts, Fed, TypeOK
<1>4. /\ decoder'.started /\ decoder'.tokens = e.tokens /\ ~decoder'.stopped
      /\ decoder'.blocks = decoder.blocks /\ decoder'.open = decoder.open
      /\ decoder'.deltas = decoder.deltas /\ decoder'.reason = decoder.reason
  BY <1>3 DEF Decoder
<1>5. Len(history) = 0
  BY <1>1, <1>2, <1>3 DEF PlaceInv
<1>6. history'[1] = e /\ Len(history') = 1
  BY <1>2, <1>5
<1>7. Number(history, 0) = 0 /\ Number(history', 0) = 0 /\ Number(history', 1) = 0
  BY <1>6, NumberStep
<1>8. ~decoder.open /\ ~decoder.deltas
  BY <1>1, <1>3, <1>5, <1>7 DEF BlocksInv, DeltaInv, Within, InBlock
<1>9. PlaceInv'
  BY <1>4, <1>6 DEF PlaceInv
<1>10. BlocksInv'
  BY <1>1, <1>4, <1>5, <1>6, <1>7, <1>8 DEF BlocksInv
<1>11. DeltaInv'
  <2>1. e.tokens \in Nat
    BY <1>1 DEF Event, Tokens, TypeOK
  <2>2. QED
    BY <1>1, <1>4, <1>6, <1>8, <2>1 DEF DeltaInv
<1>12. AnswerInv'
  <2>1. ~Answered(history) /\ ~Answered(history')
    BY <1>5, <1>6 DEF Answered
  <2>2. HasAnswer' <=> HasAnswer
    BY <1>4 DEF HasAnswer
  <2>3. QED
    BY <1>1, <2>1, <2>2 DEF AnswerInv
<1>13. QED
  BY <1>4, <1>9, <1>10, <1>11, <1>12

(* The events inside the message.                                          *)
LEMMA BlockStartStep ==
  ASSUME NEW e, Taken(e), e.type = "block_start"
  PROVE  /\ PlaceInv' /\ BlocksInv' /\ DeltaInv' /\ AnswerInv'
         /\ ~decoder'.stopped
<1> DEFINE n == Len(history)
           b == [kind |-> e.kind, pieces |-> {e.piece}]
<1>1. /\ TypeOK /\ PlaceInv /\ BlocksInv /\ DeltaInv /\ AnswerInv
      /\ history' = Append(history, e) /\ e \in Event
  BY DEF Taken, StreamInv
<1>2. /\ n \in Nat /\ Len(history') = n + 1 /\ history'[n + 1] = e
      /\ \A j \in 1 .. n : history'[j] = history[j]
      /\ Number(history', n) = Number(history, n)
  BY <1>1, Longer
<1>3. /\ decoder.started /\ ~decoder.deltas /\ ~decoder.open
      /\ e.index = Len(decoder.blocks)
      /\ decoder' = [decoder EXCEPT !.open = TRUE,
                       !.generated = decoder.generated \/ Carries(e),
                       !.blocks = Append(decoder.blocks, b)]
      /\ decoder \in Decoder /\ ~decoder.stopped
  BY <1>1 DEF Taken, Accepts, Fed, Body, TypeOK
<1>4. /\ decoder'.started /\ decoder'.tokens = decoder.tokens /\ ~decoder'.stopped
      /\ decoder'.blocks = Append(decoder.blocks, b) /\ decoder'.open
      /\ ~decoder'.deltas /\ decoder'.reason = decoder.reason
  BY <1>3 DEF Decoder
<1>5. n > 0 /\ decoder.blocks \in Seq(Block)
  BY <1>1, <1>3 DEF PlaceInv, Decoder
<1>6. Number(history', n + 1) = Number(history, n) + 1 /\ Number(history, n) \in Nat
  BY <1>2, NumberStep
<1>7. IsOpener(history', n + 1, n + 1)
  BY <1>2 DEF IsOpener
<1>8. Opener(history', n + 1) = n + 1
  BY <1>2, <1>7, OpenerIs
<1>9. PlaceInv'
  <2>1. Allowed(history', n + 1)
    BY <1>1, <1>2, <1>3, <1>5 DEF Allowed, BlocksInv
  <2>2. QED
    BY <1>1, <1>4, <1>5, <2>1, PlaceStep
<1>10. BlocksInv'
  <2>1. Len(decoder'.blocks) = Len(decoder.blocks) + 1 /\ Last(decoder'.blocks) = b
    BY <1>4, <1>5 DEF Last
  <2>2. Within(history', n + 1)
    BY <1>2, <1>6, <1>8 DEF Within, InBlock
  <2>3. QED
    BY <1>1, <1>2, <1>4, <1>6, <1>7, <1>8, <2>1, <2>2 DEF BlocksInv
<1>11. DeltaInv'
  BY <1>1, <1>3, <1>4, DeltaStep
<1>12. AnswerInv'
  <2>1. HasAnswer' <=> HasAnswer \/ Tells(e)
    <3>1. /\ DOMAIN decoder'.blocks = 1 .. Len(decoder.blocks) + 1
          /\ decoder'.blocks[Len(decoder.blocks) + 1] = b
          /\ \A i \in 1 .. Len(decoder.blocks) : decoder'.blocks[i] = decoder.blocks[i]
          /\ DOMAIN decoder.blocks = 1 .. Len(decoder.blocks) /\ Len(decoder.blocks) \in Nat
      BY <1>4, <1>5
    <3> DEFINE Answers(block) == block.kind = "text" /\ "word" \in block.pieces
               k == Len(decoder.blocks)
    <3>2. Tells(e) <=> Answers(b)
      BY DEF Tells
    <3>3. /\ HasAnswer <=> \E i \in 1 .. k : Answers(decoder.blocks[i])
          /\ HasAnswer' <=> \E i \in 1 .. k + 1 : Answers(decoder'.blocks[i])
      BY <3>1 DEF HasAnswer
    <3>4. /\ k \in Nat /\ decoder'.blocks[k + 1] = b
          /\ \A i \in 1 .. k : decoder'.blocks[i] = decoder.blocks[i]
      BY <3>1
    <3> HIDE DEF b, k, Answers
    <3>5. QED
      BY <3>2, <3>3, <3>4
  <2>2. QED
    BY <1>1, <1>5, <2>1, AnsweredStep DEF AnswerInv
<1>13. QED
  BY <1>4, <1>9, <1>10, <1>11, <1>12

LEMMA TextStep ==
  ASSUME NEW e, Taken(e), e.type = "delta"
  PROVE  /\ PlaceInv' /\ BlocksInv' /\ DeltaInv' /\ AnswerInv'
         /\ ~decoder'.stopped
<1> DEFINE n == Len(history)
           m == Len(decoder.blocks)
<1>1. /\ TypeOK /\ PlaceInv /\ BlocksInv /\ DeltaInv /\ AnswerInv
      /\ history' = Append(history, e) /\ e \in Event
  BY DEF Taken, StreamInv
<1>2. /\ n \in Nat /\ Len(history') = n + 1 /\ history'[n + 1] = e
      /\ \A j \in 1 .. n : history'[j] = history[j]
      /\ Number(history', n) = Number(history, n)
      /\ Opener(history', n) = Opener(history, n)
  BY <1>1, Longer
<1>3. /\ decoder.started /\ ~decoder.deltas /\ decoder.open
      /\ e.index = m - 1
      /\ \/ e.kind = Last(decoder.blocks).kind
         \/ e.kind = "signature" /\ Last(decoder.blocks).kind = "thinking"
      /\ decoder \in Decoder /\ ~decoder.stopped
  BY <1>1 DEF Taken, Accepts, AtBlock, Body, TypeOK
<1>4. decoder.blocks \in Seq(Block) /\ m \in Nat
  BY <1>3 DEF Decoder
<1>5. Number(history', n + 1) = m /\ m = Number(history, n)
  BY <1>1, <1>2, NumberStep DEF BlocksInv
<1>6. n > 0 /\ m > 0 /\ Within(history, n) /\ Within(history', n)
  BY <1>1, <1>2, <1>3, <1>4, <1>5, WithinOfPrefix DEF PlaceInv, BlocksInv, Within, InBlock
<1>7. /\ IsOpener(history, n, Opener(history, n))
      /\ Last(decoder.blocks).kind = history[Opener(history, n)].kind
  BY <1>1, <1>5, <1>6 DEF BlocksInv
<1>8. IsOpener(history', n + 1, Opener(history, n))
  BY <1>1, <1>2, <1>7 DEF IsOpener
<1>9. Opener(history', n + 1) = Opener(history, n) /\ Opener(history, n) \in 1 .. n
  BY <1>2, <1>6, <1>8, OpenerIs DEF Within
<1>10. Within(history', n + 1)
  BY <1>2, <1>5, <1>6, <1>9 DEF Within, InBlock
<1>11. ASSUME decoder'.started, ~decoder'.stopped, ~decoder'.deltas, decoder'.open,
              decoder'.tokens = decoder.tokens, decoder'.reason = decoder.reason,
              Len(decoder'.blocks) = m, Last(decoder'.blocks).kind = Last(decoder.blocks).kind
       PROVE  PlaceInv' /\ BlocksInv' /\ DeltaInv'
  <2>1. Allowed(history', n + 1)
    BY <1>1, <1>2, <1>3, <1>5, <1>6, <1>7, <1>9 DEF Allowed
  <2>2. PlaceInv'
    BY <1>1, <1>6, <1>11, <2>1, PlaceStep
  <2>3. BlocksInv'
    <3>1. history'[Opener(history, n)] = history[Opener(history, n)]
      BY <1>2, <1>9
    <3>2. QED
      BY <1>2, <1>5, <1>7, <1>8, <1>9, <1>10, <1>11, <3>1 DEF BlocksInv
  <2>4. DeltaInv'
    BY <1>1, <1>3, <1>11, DeltaStep
  <2>5. QED
    BY <2>2, <2>3, <2>4
<1>12. CASE e.kind = "signature"
  <2>1. /\ decoder' = [decoder EXCEPT !.generated = decoder.generated \/ Carries(e)]
        /\ decoder \in Decoder
    BY <1>1, <1>12 DEF Taken, Fed, TypeOK
  <2>2. /\ decoder'.started /\ decoder'.tokens = decoder.tokens /\ ~decoder'.stopped
        /\ decoder'.blocks = decoder.blocks /\ decoder'.open
        /\ ~decoder'.deltas /\ decoder'.reason = decoder.reason
    BY <1>3, <2>1 DEF Decoder
  <2>3. PlaceInv' /\ BlocksInv' /\ DeltaInv'
    BY <1>11, <2>2
  <2>4. (HasAnswer' <=> HasAnswer) /\ ~Tells(e)
    BY <1>12, <2>2 DEF HasAnswer, Tells
  <2>5. AnswerInv'
    BY <1>1, <1>6, <2>4, AnsweredStep DEF AnswerInv
  <2>6. QED
    BY <2>2, <2>3, <2>5
<1>13. CASE e.kind # "signature"
  <2> DEFINE b == [decoder.blocks[m] EXCEPT !.pieces = @ \cup {e.piece}]
  <2>1. /\ decoder' = [decoder EXCEPT !.generated = decoder.generated \/ Carries(e),
                         !.blocks = Add(decoder.blocks, e.piece)]
        /\ decoder \in Decoder
    BY <1>1, <1>13 DEF Taken, Fed, TypeOK
  <2>2. /\ decoder'.started /\ decoder'.tokens = decoder.tokens /\ ~decoder'.stopped
        /\ decoder'.blocks = Add(decoder.blocks, e.piece) /\ decoder'.open
        /\ ~decoder'.deltas /\ decoder'.reason = decoder.reason
    BY <1>3, <2>1 DEF Decoder
  <2>3. decoder'.blocks = [decoder.blocks EXCEPT ![m] = b]
    BY <2>2 DEF Add
  <2>4. m \in 1 .. m /\ decoder.blocks[m] \in Block
    BY <1>4, <1>6
  <2>5. b.kind = decoder.blocks[m].kind /\ b.pieces = decoder.blocks[m].pieces \cup {e.piece}
    BY <2>4 DEF Block
  <2>6. /\ DOMAIN decoder'.blocks = 1 .. m /\ DOMAIN decoder.blocks = 1 .. m
        /\ Len(decoder'.blocks) = m /\ decoder'.blocks[m] = b
        /\ \A i \in 1 .. m : i # m => decoder'.blocks[i] = decoder.blocks[i]
    <3> HIDE DEF b
    <3>1. QED
      BY <1>4, <2>3, <2>4
  <2>7. Last(decoder'.blocks).kind = Last(decoder.blocks).kind
    BY <2>5, <2>6 DEF Last
  <2>8. PlaceInv' /\ BlocksInv' /\ DeltaInv'
    BY <1>11, <2>2, <2>6, <2>7
  <2>9. HasAnswer' <=> HasAnswer \/ Tells(e)
    <3>1. e.kind = decoder.blocks[m].kind
      BY <1>3, <1>13 DEF Last
    <3>2. Tells(e) <=> b.kind = "text" /\ e.piece = "word"
      BY <2>5, <3>1 DEF Tells
    <3>3. (b.kind = "text" /\ "word" \in b.pieces)
            <=> \/ Tells(e)
                \/ decoder.blocks[m].kind = "text" /\ "word" \in decoder.blocks[m].pieces
      BY <2>5, <3>2
    <3> HIDE DEF b, m
    <3>4. QED
      BY <2>4, <2>6, <3>3 DEF HasAnswer
  <2>10. AnswerInv'
    BY <1>1, <1>6, <2>9, AnsweredStep DEF AnswerInv
  <2>11. QED
    BY <2>2, <2>8, <2>10
<1>14. QED
  BY <1>12, <1>13

LEMMA BlockStopStep ==
  ASSUME NEW e, Taken(e), e.type = "block_stop"
  PROVE  /\ PlaceInv' /\ BlocksInv' /\ DeltaInv' /\ AnswerInv'
         /\ ~decoder'.stopped
<1> DEFINE n == Len(history)
           m == Len(decoder.blocks)
<1>1. /\ TypeOK /\ PlaceInv /\ BlocksInv /\ DeltaInv /\ AnswerInv
      /\ history' = Append(history, e) /\ e \in Event
  BY DEF Taken, StreamInv
<1>2. /\ n \in Nat /\ Len(history') = n + 1 /\ history'[n + 1] = e
      /\ \A j \in 1 .. n : history'[j] = history[j]
      /\ Number(history', n) = Number(history, n)
      /\ Opener(history', n) = Opener(history, n)
  BY <1>1, Longer
<1>3. /\ decoder.started /\ ~decoder.deltas /\ decoder.open
      /\ e.index = m - 1
      /\ decoder' = [decoder EXCEPT !.open = FALSE]
      /\ decoder \in Decoder /\ ~decoder.stopped
  BY <1>1 DEF Taken, Accepts, Fed, AtBlock, Body, TypeOK
<1>4. /\ decoder'.started /\ decoder'.tokens = decoder.tokens /\ ~decoder'.stopped
      /\ decoder'.blocks = decoder.blocks /\ ~decoder'.open
      /\ ~decoder'.deltas /\ decoder'.reason = decoder.reason
  BY <1>3 DEF Decoder
<1>5. Number(history', n + 1) = m /\ m = Number(history, n)
  BY <1>1, <1>2, NumberStep DEF BlocksInv
<1>6. n > 0 /\ m > 0 /\ Within(history, n) /\ Within(history', n)
  BY <1>1, <1>2, <1>3, <1>5, WithinOfPrefix DEF PlaceInv, BlocksInv, Within, InBlock
<1>7. /\ IsOpener(history, n, Opener(history, n))
      /\ Last(decoder.blocks).kind = history[Opener(history, n)].kind
  BY <1>1, <1>5, <1>6 DEF BlocksInv
<1>8. IsOpener(history', n + 1, Opener(history, n))
  BY <1>1, <1>2, <1>7 DEF IsOpener
<1>9. Opener(history', n + 1) = Opener(history, n) /\ Opener(history, n) \in 1 .. n
  BY <1>2, <1>6, <1>8, OpenerIs DEF Within
<1>10. PlaceInv'
  <2>1. Allowed(history', n + 1)
    BY <1>1, <1>2, <1>3, <1>5, <1>6 DEF Allowed
  <2>2. QED
    BY <1>1, <1>4, <1>6, <2>1, PlaceStep
<1>11. BlocksInv'
  <2>1. history'[Opener(history, n)] = history[Opener(history, n)]
    BY <1>2, <1>9
  <2>2. QED
    BY <1>2, <1>4, <1>5, <1>7, <1>8, <1>9, <2>1 DEF BlocksInv
<1>12. DeltaInv'
  BY <1>1, <1>3, <1>4, DeltaStep
<1>13. AnswerInv'
  <2>1. (HasAnswer' <=> HasAnswer) /\ ~Tells(e)
    BY <1>4 DEF HasAnswer, Tells
  <2>2. QED
    BY <1>1, <1>6, <2>1, AnsweredStep DEF AnswerInv
<1>14. QED
  BY <1>4, <1>10, <1>11, <1>12, <1>13

(* An event outside of blocks keeps the blocks.                            *)
LEMMA OutsideStep ==
  ASSUME TypeOK, BlocksInv, NEW e, history' = Append(history, e),
         e.type # "block_start", ~decoder'.open, decoder'.deltas,
         decoder'.blocks = decoder.blocks
  PROVE  BlocksInv'
<1> DEFINE n == Len(history)
<1>1. /\ n \in Nat /\ Len(history') = n + 1 /\ history'[n + 1] = e
      /\ \A j \in 1 .. n : history'[j] = history[j]
      /\ Number(history', n) = Number(history, n)
  BY Longer
<1>2. Number(history', n + 1) = Number(history, n)
  <2>1. history'[n + 1].type # "block_start"
    BY <1>1
  <2>2. QED
    BY <1>1, <2>1, NumberStep
<1>3. CASE Number(history, n) > 0
  <2>1. IsOpener(history', n + 1, Opener(history, n))
    BY <1>1, <1>3 DEF IsOpener, BlocksInv
  <2>2. Opener(history', n + 1) = Opener(history, n) /\ Opener(history, n) \in 1 .. n
    <3>1. n + 1 \in Nat
      BY <1>1
    <3>2. Opener(history', n + 1) = Opener(history, n)
      BY <2>1, <3>1, OpenerIs
    <3>3. QED
      BY <1>3, <3>2 DEF BlocksInv, IsOpener
  <2>3. history'[Opener(history, n)] = history[Opener(history, n)]
    BY <1>1, <2>2
  <2>4. QED
    BY <1>1, <1>2, <1>3, <2>1, <2>2, <2>3 DEF BlocksInv
<1>4. CASE ~(Number(history, n) > 0)
  BY <1>1, <1>2, <1>4 DEF BlocksInv
<1>5. QED
  BY <1>3, <1>4

LEMMA MessageDeltaStep ==
  ASSUME NEW e, Taken(e), e.type = "message_delta"
  PROVE  /\ PlaceInv' /\ BlocksInv' /\ DeltaInv' /\ AnswerInv'
         /\ ~decoder'.stopped
<1> DEFINE n == Len(history)
<1>1. /\ TypeOK /\ PlaceInv /\ BlocksInv /\ DeltaInv /\ AnswerInv
      /\ history' = Append(history, e) /\ e \in Event
  BY DEF Taken, StreamInv
<1>2. /\ n \in Nat /\ Len(history') = n + 1 /\ history'[n + 1] = e
      /\ \A j \in 1 .. n : history'[j] = history[j]
  BY <1>1, Longer
<1>3. /\ decoder.started /\ ~decoder.open /\ decoder.reason = "none"
      /\ e.tokens >= decoder.tokens
      /\ decoder' = [decoder EXCEPT !.deltas = TRUE, !.reason = e.reason,
                       !.tokens = e.tokens]
      /\ decoder \in Decoder /\ ~decoder.stopped
  BY <1>1 DEF Taken, Accepts, Fed, TypeOK
<1>4. /\ decoder'.started /\ decoder'.tokens = e.tokens /\ ~decoder'.stopped
      /\ decoder'.blocks = decoder.blocks /\ ~decoder'.open
      /\ decoder'.deltas /\ decoder'.reason = e.reason
  BY <1>3 DEF Decoder
<1>5. n > 0
  BY <1>1, <1>3 DEF PlaceInv
<1>6. e.tokens \in Nat /\ decoder.tokens \in Nat
  BY <1>1, <1>3, BoundsAssumption DEF Event, Decoder, Tokens
<1>7. /\ history[n].type \in {"message_start", "block_stop", "message_delta"}
      /\ history[n].type = "message_delta" => history[n].reason = "none"
  BY <1>1, <1>3, <1>5 DEF BlocksInv, DeltaInv
<1>8. \A j \in 1 .. n :
        history[j].type \in {"message_start", "message_delta"} => history[j].tokens <= e.tokens
  <2>1. ASSUME NEW j \in 1 .. n, history[j].type \in {"message_start", "message_delta"}
        PROVE  history[j].tokens <= e.tokens
    <3>1. history[j] \in Event
      BY <1>1 DEF TypeOK
    <3>2. history[j].tokens \in Nat
      BY <2>1, <3>1, BoundsAssumption DEF Event, Tokens
    <3>3. history[j].tokens <= decoder.tokens
      BY <1>1, <2>1 DEF DeltaInv
    <3>4. QED
      BY <1>3, <1>6, <3>2, <3>3
  <2>2. QED
    BY <2>1
<1>9. PlaceInv'
  <2>1. \A j \in 1 .. n : history'[j].type \in {"message_start", "message_delta"}
                            => history'[j].tokens <= e.tokens
    BY <1>2, <1>8
  <2>2. history'[n] = history[n] /\ n + 1 - 1 = n
    BY <1>2, <1>5
  <2>3. Allowed(history', n + 1)
    BY <1>2, <1>7, <2>1, <2>2 DEF Allowed
  <2>4. QED
    BY <1>1, <1>4, <1>5, <2>3, PlaceStep
<1>10. BlocksInv'
  BY <1>1, <1>4, OutsideStep
<1>11. DeltaInv'
  <2>1. ASSUME NEW j \in 1 .. Len(history'),
               history'[j].type \in {"message_start", "message_delta"}
        PROVE  history'[j].tokens <= decoder'.tokens
    BY <1>2, <1>4, <1>6, <1>8, <2>1
  <2>2. QED
    BY <1>2, <1>4, <2>1 DEF DeltaInv
<1>12. AnswerInv'
  <2>1. (HasAnswer' <=> HasAnswer) /\ ~Tells(e)
    BY <1>4 DEF HasAnswer, Tells
  <2>2. QED
    BY <1>1, <1>5, <2>1, AnsweredStep DEF AnswerInv
<1>13. QED
  BY <1>4, <1>9, <1>10, <1>11, <1>12

LEMMA MessageStopStep ==
  ASSUME NEW e, Taken(e), e.type = "message_stop"
  PROVE  /\ PlaceInv' /\ BlocksInv' /\ DeltaInv' /\ AnswerInv'
         /\ decoder'.stopped /\ decoder'.deltas /\ decoder'.reason = "end_turn"
         /\ HasAnswer' <=> HasAnswer
<1> DEFINE n == Len(history)
<1>1. /\ TypeOK /\ PlaceInv /\ BlocksInv /\ DeltaInv /\ AnswerInv
      /\ history' = Append(history, e) /\ e \in Event
  BY DEF Taken, StreamInv
<1>2. /\ n \in Nat /\ Len(history') = n + 1 /\ history'[n + 1] = e
      /\ \A j \in 1 .. n : history'[j] = history[j]
  BY <1>1, Longer
<1>3. /\ decoder.reason = "end_turn"
      /\ decoder' = [decoder EXCEPT !.stopped = TRUE]
      /\ decoder \in Decoder /\ ~decoder.stopped
  BY <1>1 DEF Taken, Accepts, Fed, TypeOK
<1>4. decoder.deltas /\ decoder.started /\ ~decoder.open
  BY <1>1, <1>3 DEF DeltaInv, BlocksInv
<1>5. /\ decoder'.started /\ decoder'.tokens = decoder.tokens /\ decoder'.stopped
      /\ decoder'.blocks = decoder.blocks /\ ~decoder'.open
      /\ decoder'.deltas /\ decoder'.reason = decoder.reason
  BY <1>3, <1>4 DEF Decoder
<1>6. n > 0 /\ history[n].type = "message_delta" /\ history[n].reason = "end_turn"
  BY <1>1, <1>3, <1>4 DEF PlaceInv, DeltaInv
<1>7. PlaceInv'
  <2>1. history'[n] = history[n] /\ n + 1 - 1 = n
    BY <1>2, <1>6
  <2>2. Allowed(history', n + 1)
    BY <1>2, <1>6, <2>1 DEF Allowed
  <2>3. QED
    BY <1>1, <1>5, <1>6, <2>2, PlaceStep
<1>8. BlocksInv'
  BY <1>1, <1>5, OutsideStep
<1>9. DeltaInv'
  BY <1>1, <1>4, <1>5, DeltaStep
<1>10. AnswerInv'
  <2>1. (HasAnswer' <=> HasAnswer) /\ ~Tells(e)
    BY <1>5 DEF HasAnswer, Tells
  <2>2. QED
    BY <1>1, <1>6, <2>1, AnsweredStep DEF AnswerInv
<1>11. HasAnswer' <=> HasAnswer
  BY <1>5 DEF HasAnswer
<1>12. QED
  BY <1>3, <1>5, <1>7, <1>8, <1>9, <1>10, <1>11

(* Whatever is decoded, the decoder stays in step with the stream.         *)
LEMMA DecodeStep ==
  ASSUME TypeOK, StreamInv, NEW e \in Event, Decode(e)
  PROVE  /\ PlaceInv' /\ BlocksInv' /\ DeltaInv' /\ AnswerInv'
         /\ decoder'.stopped <=> Len(history') > 0 /\ history'[Len(history')].type = "message_stop"
         /\ decoder'.stopped => /\ decoder'.deltas /\ decoder'.reason = "end_turn"
                                /\ HasAnswer' <=> HasAnswer
         /\ ~decoder.stopped
<1>1. Taken(e)
  BY DEF Taken, Decode, Frame, StreamInv, StopInv
<1>2. Len(history') > 0 /\ history'[Len(history')] = e
  BY Longer DEF Decode
<1>3. e.type \in {"message_start", "block_start", "delta", "block_stop", "message_delta",
                  "message_stop"}
  BY DEF Decode, Accepts, Event
<1>4. ~decoder.stopped
  BY <1>1 DEF Taken
<1>5. CASE e.type = "message_start"
  BY <1>1, <1>2, <1>4, <1>5, StartStep
<1>6. CASE e.type = "block_start"
  BY <1>1, <1>2, <1>4, <1>6, BlockStartStep
<1>7. CASE e.type = "delta"
  BY <1>1, <1>2, <1>4, <1>7, TextStep
<1>8. CASE e.type = "block_stop"
  BY <1>1, <1>2, <1>4, <1>8, BlockStopStep
<1>9. CASE e.type = "message_delta"
  BY <1>1, <1>2, <1>4, <1>9, MessageDeltaStep
<1>10. CASE e.type = "message_stop"
  BY <1>1, <1>2, <1>4, <1>10, MessageStopStep
<1>11. QED
  BY <1>3, <1>5, <1>6, <1>7, <1>8, <1>9, <1>10

LEMMA EmptyStream == decoder = NewDecoder /\ history = <<>> => StreamInv
<1> SUFFICES ASSUME decoder = NewDecoder, history = <<>> PROVE StreamInv
  OBVIOUS
<1>1. /\ Len(history) = 0 /\ ~decoder.started /\ decoder.blocks = <<>> /\ ~decoder.open
      /\ ~decoder.deltas /\ ~decoder.stopped /\ decoder.reason = "none"
      /\ Len(decoder.blocks) = 0 /\ DOMAIN decoder.blocks = {}
  BY DEF NewDecoder
<1>2. Number(history, 0) = 0
  BY NumberStep
<1>3. ~HasAnswer /\ ~Answered(history)
  BY <1>1 DEF HasAnswer, Answered
<1>4. QED
  BY <1>1, <1>2, <1>3 DEF StreamInv, PlaceInv, BlocksInv, DeltaInv, StopInv, AnswerInv

(* What is sent again starts afresh, and nothing is decoded after the stop. *)
LEMMA StreamStep ==
  ASSUME TypeOK, StreamInv, [Next]_vars PROVE StreamInv'
<1>1. ASSUME UNCHANGED <<decoder, history>>, conn # "done"
      PROVE  StreamInv'
  <2>1. ~decoder.stopped
    BY <1>1 DEF StreamInv, StopInv
  <2>2. PlaceInv' /\ BlocksInv' /\ DeltaInv' /\ AnswerInv'
    BY <1>1 DEF StreamInv, PlaceInv, BlocksInv, DeltaInv, AnswerInv, HasAnswer
  <2>3. StopInv'
    BY <1>1, <2>1 DEF StreamInv, StopInv
  <2>4. QED
    BY <2>2, <2>3 DEF StreamInv
<1>2. ASSUME NEW e \in Event, Decode(e), decoder'.stopped => conn' = "done"
      PROVE  StreamInv'
  <2>1. /\ PlaceInv' /\ BlocksInv' /\ DeltaInv' /\ AnswerInv'
        /\ decoder'.stopped <=> Len(history') > 0 /\ history'[Len(history')].type = "message_stop"
        /\ decoder'.stopped => decoder'.deltas
    BY <1>2, DecodeStep
  <2>2. StopInv'
    BY <1>2, <2>1 DEF StopInv
  <2>3. QED
    BY <2>1, <2>2 DEF StreamInv
<1>3. CASE UNCHANGED vars
  BY <1>3
  DEF vars, StreamInv, PlaceInv, BlocksInv, DeltaInv, StopInv, AnswerInv, HasAnswer
<1>4. CASE Respond
  BY <1>1, <1>4 DEF Respond
<1>5. CASE Busy
  BY <1>1, <1>5 DEF Busy
<1>6. CASE Refuse
  BY <1>1, <1>6 DEF Refuse
<1>7. CASE Break
  BY <1>1, <1>7 DEF Break
<1>8. CASE Close
  BY <1>1, <1>8 DEF Close
<1>9. CASE Garble
  BY <1>1, <1>9 DEF Garble
<1>10. CASE Receive
  BY <1>1, <1>10 DEF Receive
<1>11. CASE Wake
  <2>1. decoder' = NewDecoder /\ history' = <<>>
    BY <1>11 DEF Wake
  <2>2. (decoder = NewDecoder /\ history = <<>> => StreamInv)'
    BY EmptyStream, PTL
  <2>3. NewDecoder' = NewDecoder
    BY DEF NewDecoder
  <2>4. QED
    BY <2>1, <2>2, <2>3
<1>12. CASE Overloaded
  BY <1>1, <1>12 DEF Overloaded, Frame
<1>13. CASE StreamError
  BY <1>1, <1>13 DEF StreamError, Frame
<1>14. ASSUME NEW e \in Event, Reject(e) PROVE StreamInv'
  BY <1>1, <1>14 DEF Reject, Frame
<1>15. ASSUME NEW e \in Event, GoOn(e) PROVE StreamInv'
  BY <1>2, <1>15 DEF GoOn
<1>16. ASSUME NEW e \in Event, Truncate(e) PROVE StreamInv'
  BY <1>2, <1>16 DEF Truncate, Ends
<1>17. ASSUME NEW e \in Event, Finish(e) PROVE StreamInv'
  BY <1>2, <1>17 DEF Finish, Ends
<1>18. QED
  BY <1>3, <1>4, <1>5, <1>6, <1>7, <1>8, <1>9, <1>10, <1>11, <1>12, <1>13, <1>14, <1>15,
     <1>16, <1>17 DEF Next

(* A call ends once, and with a reply only if its stream is complete.      *)
LEMMA ReplyStep ==
  ASSUME TypeOK, StreamInv, ReplyInv, [Next]_vars PROVE ReplyInv'
<1>1. ASSUME UNCHANGED <<decoder, result>>, conn # "done", conn' # "done"
      PROVE  ReplyInv'
  BY <1>1 DEF ReplyInv, HasAnswer
<1>2. ASSUME UNCHANGED decoder, conn # "done", conn' = "done",
             result' \in Result \ {"none", "reply"}
      PROVE  ReplyInv'
  BY <1>2 DEF ReplyInv, StreamInv, StopInv
<1>3. CASE UNCHANGED vars
  BY <1>3 DEF vars, ReplyInv, HasAnswer
<1>4. ASSUME NEW header, Retry(header), UNCHANGED decoder, conn # "done"
      PROVE  ReplyInv'
  BY <1>1, <1>2, <1>4 DEF Retry, Ends, Result
<1>5. CASE Respond
  BY <1>1, <1>5 DEF Respond
<1>6. CASE Busy
  BY <1>4, <1>6 DEF Busy
<1>7. CASE Refuse
  BY <1>2, <1>7 DEF Refuse, Ends, Result
<1>8. CASE Break
  BY <1>2, <1>4, <1>8 DEF Break, Ends, Result
<1>9. CASE Close
  BY <1>2, <1>9 DEF Close, Ends, Result
<1>10. CASE Garble
  BY <1>2, <1>10 DEF Garble, Result
<1>11. CASE Receive
  BY <1>1, <1>11 DEF Receive
<1>12. CASE Wake
  <2>1. /\ conn = "sleep" /\ conn' = "send" /\ result' = result
        /\ decoder' = NewDecoder
    BY <1>12 DEF Wake
  <2>2. result = "none" /\ ~decoder'.stopped
    BY <2>1 DEF ReplyInv, NewDecoder
  <2>3. QED
    BY <2>1, <2>2 DEF ReplyInv
<1>13. CASE Overloaded
  BY <1>2, <1>4, <1>13 DEF Overloaded, Frame, Ends, Result
<1>14. CASE StreamError
  BY <1>2, <1>14 DEF StreamError, Frame, Ends, Result
<1>15. ASSUME NEW e \in Event, Reject(e) PROVE ReplyInv'
  BY <1>2, <1>15 DEF Reject, Frame, Ends, Result
<1>16. ASSUME NEW e \in Event, GoOn(e) PROVE ReplyInv'
  BY <1>16 DEF GoOn, Decode, Frame, ReplyInv
<1>17. ASSUME NEW e \in Event, Truncate(e) PROVE ReplyInv'
  <2>1. Decode(e) /\ decoder'.reason # "end_turn" /\ conn' = "done"
        /\ result' \notin {"none", "reply"}
    BY <1>17 DEF Truncate, Ends
  <2>2. ~decoder'.stopped
    BY <2>1, DecodeStep
  <2>3. QED
    BY <2>1, <2>2 DEF ReplyInv
<1>18. ASSUME NEW e \in Event, Finish(e) PROVE ReplyInv'
  <2>1. Decode(e) /\ decoder'.stopped /\ conn' = "done"
        /\ result' # "none" /\ (result' = "reply" <=> HasAnswer)
    BY <1>18 DEF Finish, Ends
  <2>2. HasAnswer' <=> HasAnswer
    BY <2>1, DecodeStep
  <2>3. QED
    BY <2>1, <2>2 DEF ReplyInv
<1>19. QED
  BY <1>3, <1>5, <1>6, <1>7, <1>8, <1>9, <1>10, <1>11, <1>12, <1>13, <1>14, <1>15,
     <1>16, <1>17, <1>18 DEF Next

(* A stream that was followed to its stop is one of the protocol.          *)
LEMMA StoppedIsOrdered ==
  ASSUME TypeOK, PlaceInv, Len(history) > 0, history[Len(history)].type = "message_stop"
  PROVE  Len(history) > 1 /\ Ordered(history)
<1> DEFINE n == Len(history)
<1>1. n \in Nat /\ n > 1 /\ \A i \in 2 .. n : Allowed(history, i)
  BY DEF TypeOK, PlaceInv
<1>2. ASSUME NEW i \in 2 .. n, history[i].type = "message_stop" PROVE i = n
  <2>1. SUFFICES ASSUME i # n PROVE FALSE
    OBVIOUS
  <2>2. i + 1 \in 2 .. n /\ i + 1 - 1 = i
    BY <1>1, <2>1
  <2>3. Allowed(history, i + 1)
    BY <1>1, <2>2
  <2>4. ASSUME Within(history, i) PROVE FALSE
    BY <1>2, <2>4 DEF Within, InBlock
  <2>5. QED
    BY <1>2, <2>2, <2>3, <2>4 DEF Allowed
<1>3. ASSUME NEW i \in 2 .. n, history[i].type = "message_delta"
      PROVE  history[i].reason = IF i = n - 1 THEN "end_turn" ELSE "none"
  <2>1. i + 1 \in 2 .. n /\ i + 1 - 1 = i
    BY <1>1, <1>3
  <2>2. Allowed(history, i + 1)
    BY <1>1, <2>1
  <2>3. CASE i = n - 1
    BY <1>1, <2>1, <2>2, <2>3 DEF Allowed
  <2>4. CASE i # n - 1
    <3>1. history[i + 1].type # "message_stop"
      BY <1>1, <1>2, <2>1, <2>4
    <3>2. ~Within(history, i)
      BY <1>3 DEF Within, InBlock
    <3>3. history[i + 1].type = "message_delta"
      BY <1>3, <2>1, <2>2, <3>1, <3>2 DEF Allowed
    <3>4. QED
      BY <1>3, <2>1, <2>2, <2>4, <3>3 DEF Allowed
  <2>5. QED
    BY <2>3, <2>4
<1>4. ASSUME NEW i \in 2 .. n
      PROVE
        CASE history[i].type = "block_start" ->
           /\ history[i - 1].type \in {"message_start", "block_stop"}
           /\ history[i].index = Number(history, i - 1)
          [] history[i].type = "delta" ->
           /\ InBlock(history, i - 1) /\ history[i].index = Number(history, i) - 1
           /\ history[i].kind \in {history[Opener(history, i)].kind} \cup
                (IF history[Opener(history, i)].kind = "thinking" THEN {"signature"} ELSE {})
          [] history[i].type = "block_stop" ->
           InBlock(history, i - 1) /\ history[i].index = Number(history, i) - 1
          [] history[i].type = "message_delta" ->
           /\ history[i - 1].type \in {"message_start", "block_stop", "message_delta"}
           /\ \A j \in 1 .. i - 1 :
                history[j].type \in {"message_start", "message_delta"}
                  => history[j].tokens <= history[i].tokens
           /\ history[i].reason = IF i = Len(history) - 1 THEN "end_turn" ELSE "none"
          [] history[i].type = "message_stop" ->
           i = Len(history) /\ history[i - 1].type = "message_delta"
          [] OTHER -> FALSE
  <2>1. Allowed(history, i)
    BY <1>1
  <2>2. CASE history[i].type = "block_start"
    BY <2>1, <2>2 DEF Allowed
  <2>3. CASE history[i].type = "delta"
    BY <2>1, <2>3 DEF Allowed, Within
  <2>4. CASE history[i].type = "block_stop"
    BY <2>1, <2>4 DEF Allowed, Within
  <2>5. CASE history[i].type = "message_delta"
    BY <1>3, <2>1, <2>5 DEF Allowed
  <2>6. CASE history[i].type = "message_stop"
    BY <1>2, <2>1, <2>6 DEF Allowed
  <2>7. QED
    BY <2>1, <2>2, <2>3, <2>4, <2>5, <2>6 DEF Allowed
<1>5. QED
  BY <1>1, <1>4 DEF Ordered

LEMMA RepliesFollow ==
  ASSUME TypeOK, StreamInv, ReplyInv PROVE RepliesAreWellFormed
<1>1. ASSUME result = "reply" PROVE WellFormed(history)
  <2>1. decoder.stopped /\ HasAnswer
    BY <1>1 DEF ReplyInv
  <2>2. Len(history) > 0 /\ history[Len(history)].type = "message_stop"
    BY <2>1 DEF StreamInv, StopInv
  <2>3. history[1].type = "message_start" /\ Answered(history)
    BY <2>1, <2>2 DEF StreamInv, PlaceInv, AnswerInv
  <2>4. QED
    BY <2>2, <2>3, StoppedIsOrdered DEF WellFormed, StreamInv
<1>2. ASSUME WellFormed(history) PROVE result = "reply"
  <2>1. Len(history) > 0 /\ history[Len(history)].type = "message_stop" /\ Answered(history)
    BY <1>2 DEF WellFormed, TypeOK
  <2>2. decoder.stopped /\ HasAnswer
    BY <2>1 DEF StreamInv, StopInv, AnswerInv
  <2>3. QED
    BY <2>2 DEF ReplyInv
<1>3. QED
  BY <1>1, <1>2 DEF RepliesAreWellFormed

(* A reply is given for the streams of the protocol that hold an answer    *)
(* and for no others, however the events are ordered.                      *)
THEOREM RepliesAreComplete == Spec => []RepliesAreWellFormed
<1>1. Init => StreamInv /\ ReplyInv
  <2>1. Init => StreamInv
    BY EmptyStream DEF Init
  <2>2. Init => ReplyInv
    BY DEF Init, ReplyInv, NewDecoder
  <2>3. QED
    BY <2>1, <2>2
<1>2. TypeOK /\ StreamInv /\ ReplyInv /\ [Next]_vars => StreamInv' /\ ReplyInv'
  BY StreamStep, ReplyStep
<1>3. TypeOK /\ StreamInv /\ ReplyInv => RepliesAreWellFormed
  BY RepliesFollow
<1>4. QED
  BY <1>1, <1>2, <1>3, TransportTypes, PTL DEF Spec
=============================================================================
