---------------------------- MODULE RestGrpcProps -----------------------------
(***************************************************************************)
(* What lesson 1 promises, over the state of RestGrpc.                     *)
(***************************************************************************)
EXTENDS RestGrpc

\* Type invariant of the backends, the channels and the requests.
GrpcTypeOK ==
  /\ listening \in [Backends -> BOOLEAN]
  /\ inBackoff \in [Backends -> BOOLEAN]
  /\ lookup \in [Visitors -> Lookup]
  /\ outages \in [Backends -> 0 .. MaxOutages]
  /\ answered \in [Backends -> Nat]

Resources(kind) == IF kind = "user" THEN UserIds ELSE ProductIds
FitsInt32(n) == n # NaN /\ n \in -Int32Half .. Int32Half - 1

\* What a request is told of the backend's data is what a lookup of its own id, in
\* the resources it named, finds: 200 with that record, or 404 only if there is
\* none; the sentinel id 0 is never shown.  An id that is no int32 is the
\* exception: it may show another record (getUser and getProduct of the gateway,
\* GetUser and GetProduct of the backends).
RestAnswersMatch ==
  \A v \in Visitors :
    LET self == lookup[v]
    IN  self.pc = "done" =>
          /\ self.status = "200" => self.found # NotFound
          /\ (self.status = "200" /\ FitsInt32(self.id)) =>
               self.found = self.id /\ self.id \in Resources(self.kind)
          /\ self.status = "404" => self.id \notin Resources(self.kind)

\* A request fails with 500 only after its own backend has been away, and for no
\* outage that the backend had answered a call after when this request called it:
\* the gateway may go on failing after the backend is back, while its channel is in
\* backoff, but not once a call has come through, and never because the other
\* backend is away (the two clients of the gateway's app.module.ts, getUser and
\* getProduct, which let a rejected call through to Nest).
FailuresAreOutages ==
  \A v \in Visitors :
    LET self == lookup[v]
    IN  self.pc = "done" /\ self.status = "500" => self.seen < outages[self.kind]
=============================================================================
