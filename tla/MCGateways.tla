------------------------------ MODULE MCGateways ------------------------------
(***************************************************************************)
(* TLC instances of lessons 0 and 1, the two with a gateway, which know    *)
(* nothing of each other: a behaviour is one of the lesson that it starts. *)
(***************************************************************************)
EXTENDS ApiGatewayProps, RestGrpcProps

VARIABLE lesson

\* The id of both resources, of one, and one beyond an int32 of four bits; NaN is
\* the sentinel 0 on the wire.
SomePathIds == {1, 2, 17}

AnyInit ==
  /\ lesson \in {"api-gateway", "rest-grpc"}
  /\ GatewayInit /\ GrpcInit
  /\ lesson = "api-gateway" => \A b \in Backends : listening[b]

AnyNext ==
  /\ UNCHANGED lesson
  /\ \/ lesson = "api-gateway" /\ GatewayNext /\ UNCHANGED grpcVars
     \/ lesson = "rest-grpc" /\ GrpcNext /\ UNCHANGED gatewayVars

\* GatewayFairness, in its own lesson; the other has none.
AnyFairness ==
  \A c \in Clients : WF_gatewayVars(lesson = "api-gateway" /\ Serve(c))

AnySpec ==
  AnyInit /\ [][AnyNext]_<<lesson, gatewayVars, grpcVars>> /\ AnyFairness
=============================================================================
