----------------------- MODULE ResponseSessionsProofs -----------------------
(***************************************************************************)
(* What ResponseSessions keeps, for every set of devices and inputs.       *)
(***************************************************************************)
EXTENDS ResponseSessions, TLAPS

\* A device that never overlapped has at most one request on its way.
OneSent ==
    \A q, r \in Requests :
        /\ DeviceOf[q] = DeviceOf[r]
        /\ DeviceOf[r] \notin overlapped
        /\ request[q] = "sent"
        /\ request[r] = "sent"
        => q = r

\* Its cached session has every turn of the device that Neon answered ...
Cached ==
    \A d \in Devices : d \notin overlapped => Responded(d) \subseteq sessions[d]

\* ... and so does the session of its request on the way.
Carried ==
    \A r \in Requests :
        request[r] = "sent" /\ DeviceOf[r] \notin overlapped
            => Responded(DeviceOf[r]) \subseteq carried[r]

IInv == TypeOK /\ OneSent /\ Cached /\ Carried /\ InputsCarryAnswers

-----------------------------------------------------------------------------
\* The variables of get_response and the session cache keep their types.
THEOREM SessionTypes == Spec => []TypeOK
<1> USE RequestsAssumption DEF TypeOK
<1>1. Init => TypeOK
  BY DEF Init, RequestStates
<1>2. TypeOK /\ [Next]_vars => TypeOK'
  <2> SUFFICES ASSUME TypeOK, [Next]_vars PROVE TypeOK'
    OBVIOUS
  <2>1. ASSUME NEW r \in Requests, Ask(r) PROVE TypeOK'
    BY <2>1 DEF Ask, SessionOf, RequestStates, Responded, history
  <2>2. ASSUME NEW r \in Requests, TakeResponse(r) PROVE TypeOK'
    BY <2>2 DEF TakeResponse, RequestStates, ResponseSession, history
  <2>3. ASSUME NEW r \in Requests, NoResponse(r) PROVE TypeOK'
    BY <2>3 DEF NoResponse, RequestStates, history
  <2>4. CASE UNCHANGED vars
    BY <2>4 DEF vars, history
  <2> QED
    BY <2>1, <2>2, <2>3, <2>4 DEF Next
<1> QED
  BY <1>1, <1>2, PTL DEF Spec

\* For a device that waits for each response before its next request, every
\* request carries all the turns Neon answered: the session get_response caches
\* never lacks one, whatever other devices do and however requests fail.
THEOREM AnswersAreCarried == Spec => []InputsCarryAnswers
<1> USE RequestsAssumption
<1>1. Init => IInv
  BY DEF Init, IInv, TypeOK, RequestStates, OneSent, Cached, Carried,
         InputsCarryAnswers, Responded
<1>2. IInv /\ [Next]_vars => IInv'
  <2> SUFFICES ASSUME IInv, [Next]_vars, TypeOK' PROVE IInv'
    <3>1. TypeOK /\ [Next]_vars => TypeOK'
      BY DEF TypeOK, RequestStates, Next, vars, history, Ask, SessionOf, TakeResponse,
             NoResponse,
             Responded, ResponseSession
    <3> QED
      BY <3>1 DEF IInv
  <2> USE DEF IInv, TypeOK
  <2>1. ASSUME NEW r \in Requests, Ask(r) PROVE IInv'
    <3>1. OneSent'
      BY <2>1 DEF Ask, OneSent, Sent
    <3>2. \A d \in Devices : Responded(d)' = Responded(d)
      BY <2>1 DEF Ask, Responded
    <3>3. Cached'
      BY <2>1, <3>2 DEF Ask, Cached, Sent
    <3>4. Carried'
      BY <2>1, <3>2 DEF Ask, SessionOf, Carried, Cached, Sent
    <3>5. InputsCarryAnswers'
      BY <2>1 DEF Ask, SessionOf, InputsCarryAnswers, Cached, Sent
    <3> QED
      BY <3>1, <3>3, <3>4, <3>5
  <2>2. ASSUME NEW r \in Requests, TakeResponse(r) PROVE IInv'
    <3>1. OneSent'
      BY <2>2 DEF TakeResponse, OneSent, history
    <3>2. \A d \in Devices :
             Responded(d)' \subseteq
                 Responded(d) \union (IF d = DeviceOf[r] THEN {r} ELSE {})
      BY <2>2 DEF TakeResponse, Responded, history
    <3>3. Cached'
      <4> SUFFICES ASSUME NEW d \in Devices, d \notin overlapped'
                   PROVE  Responded(d)' \subseteq sessions'[d]
        BY DEF Cached
      <4>1. CASE d = DeviceOf[r]
        <5>1. Responded(d) \subseteq carried[r]
          BY <2>2, <4>1 DEF TakeResponse, Carried, history
        <5>2. sessions'[d] = carried[r] \union {r}
          BY <2>2, <4>1 DEF TakeResponse, ResponseSession
        <5> QED
          BY <3>2, <4>1, <5>1, <5>2 DEF history
      <4>2. CASE d # DeviceOf[r]
        BY <2>2, <3>2, <4>2 DEF TakeResponse, Cached, history
      <4> QED
        BY <4>1, <4>2
    <3>4. Carried'
      <4> SUFFICES ASSUME NEW q \in Requests, request'[q] = "sent",
                          DeviceOf[q] \notin overlapped'
                   PROVE  Responded(DeviceOf[q])' \subseteq carried'[q]
        BY DEF Carried
      <4>1. /\ q # r /\ request[q] = "sent"
            /\ carried'[q] = carried[q] /\ DeviceOf[q] \notin overlapped
        BY <2>2 DEF TakeResponse, history
      <4>2. DeviceOf[q] # DeviceOf[r]
        BY <2>2, <4>1 DEF TakeResponse, OneSent, history
      <4> QED
        BY <3>2, <4>1, <4>2 DEF Carried
    <3>5. InputsCarryAnswers'
      BY <2>2 DEF TakeResponse, InputsCarryAnswers, history
    <3> QED
      BY <3>1, <3>3, <3>4, <3>5
  <2>3. ASSUME NEW r \in Requests, NoResponse(r) PROVE IInv'
    <3>1. \A d \in Devices : Responded(d)' = Responded(d)
      BY <2>3 DEF NoResponse, Responded, history
    <3> QED
      BY <2>3, <3>1 DEF NoResponse, OneSent, Cached, Carried,
                        InputsCarryAnswers, history
  <2>4. CASE UNCHANGED vars
    BY <2>4 DEF vars, history, RequestStates, OneSent, Cached, Carried,
                InputsCarryAnswers, Responded
  <2> QED
    BY <2>1, <2>2, <2>3, <2>4 DEF Next
<1>3. IInv => InputsCarryAnswers
  BY DEF IInv
<1> QED
  BY <1>1, <1>2, <1>3, PTL DEF Spec
=============================================================================
