--------------------------- MODULE N2Notification ---------------------------
(***************************************************************************)
(* A notification of the AMF on its way through a server: the handlers of  *)
(* the HTTP/2 server and of the HTTP/1 API, for notifications about a UE   *)
(* and others, from the message to the call of lmf_app and the response.   *)
(*                                                                         *)
(* "doc" is the JSON of an NRPPa notification, "docOther" that of another  *)
(* N2 notification, "object" JSON that from_json refuses, and "pdu" the    *)
(* first line of an NRPPa PDU.                                             *)
(***************************************************************************)
EXTENDS MimeParser

NoContent == 204
BadRequest == 400
InternalServerError == 500

(* lmf_app takes the PDU and fulfils a promise with it, or finds nothing   *)
(* in it to fulfil one; does not know the SUPI and returns false; throws;  *)
(* or has fulfilled a promise and throws when it does it again.            *)
AppResults == {"taken", "empty", "unknown", "refused", "twice"}

IsJson(body) ==
  /\ \A i \in DOMAIN body : body[i] \in {"doc", "docOther", "object", "blank"}
  /\ Cardinality({i \in DOMAIN body : body[i] # "blank"}) = 1

(* The model's from_json takes it: no nlohmann exception.                  *)
IsNotification(body) == \E i \in DOMAIN body : body[i] \in {"doc", "docOther"}

IsN2Info(body) == \E i \in DOMAIN body : body[i] = "doc"

(* The decoder stops where the PDU ends.                                   *)
Decodes(body) == body # <<>> /\ body[1] = "pdu"

(* The HTTP/1 handlers count the parts in eight bits.                      *)
CountsTwo(server, parts) ==
  IF server = "http1" THEN Len(parts) % 256 = 2 ELSE Len(parts) = 2

(* What parse and get_mime_parts leave: a message without parts is refused *)
(* like one that is none.                                                  *)
Parts(str) == IF Parses(str) THEN MimeParts(str) ELSE <<>>

HasJson(server, parts) == CountsTwo(server, parts) /\ IsJson(parts[1].body)

(* Is lmf_app called?                                                      *)
Reaches(server, parts) ==
  /\ HasJson(server, parts)
  /\ IsN2Info(parts[1].body) /\ Decodes(parts[2].body)

(* A message that is none is a bad request; but the HTTP/1 handler for UEs *)
(* throws an error of its own for what is no NRPPa notification or has no  *)
(* PDU.                                                                    *)
Invalid(server, kind, parts) ==
  IF /\ HasJson(server, parts) /\ IsNotification(parts[1].body)
     /\ server = "http1" /\ kind = "ue"
  THEN <<InternalServerError>>
  ELSE <<BadRequest>>

(* What is sent after lmf_app was called.  The HTTP/1 handler for UEs      *)
(* unsubscribes if the SUPI is unknown and the other sends nothing.        *)
Called(server, kind, app) ==
  CASE app \in {"refused", "twice"} -> <<InternalServerError>>
    [] app = "unknown" /\ server = "http1" /\ kind = "nonUe" -> <<>>
    [] OTHER -> <<NoContent>>

Responses(server, kind, parts, app) ==
  IF Reaches(server, parts) THEN Called(server, kind, app)
  ELSE Invalid(server, kind, parts)

=============================================================================
