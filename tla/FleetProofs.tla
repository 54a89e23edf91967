----------------------------- MODULE FleetProofs -----------------------------
(***************************************************************************)
(* TLAPS proofs about Fleet, for any set of clients, names and sockets and *)
(* any number of faults.                                                   *)
(***************************************************************************)
EXTENDS Fleet, TLAPS

\* A handler that has come as far as Add has authenticated.
AuthInv == \A s \in Slot : handler[s] \in {"add"} \cup Registered => authed[s]

IInv == TypeOK /\ RegistryExact /\ AuthInv

\* Init establishes the inductive invariant.
LEMMA IInit == Init => IInv
<1> SUFFICES ASSUME Init PROVE IInv
  OBVIOUS
<1>1. TypeOK
  BY FleetAssumption
     DEF Init, TypeOK, ClientStates, HandlerStates, Codes
<1>2. RegistryExact /\ AuthInv
  BY FleetAssumption DEF Init, RegistryExact, AuthInv, Registered
<1> QED BY <1>1, <1>2 DEF IInv

\* Every action preserves it.
LEMMA IStep == IInv /\ [Next]_vars => IInv'
<1> SUFFICES ASSUME IInv, [Next]_vars PROVE IInv'
  OBVIOUS
<1> USE FleetAssumption
    DEF IInv, TypeOK, ClientStates, HandlerStates, Credentials, Codes,
        Registered, Name, clientVars, slotVars
<1>1. ASSUME NEW c \in Client, NEW s \in Slot, Connect(c, s) PROVE IInv'
  <2>1. TypeOK'
    BY <1>1 DEF Connect
  <2>2. RegistryExact'
    BY <1>1 DEF Connect, RegistryExact
  <2>3. AuthInv'
    BY <1>1 DEF Connect, AuthInv
  <2> QED BY <2>1, <2>2, <2>3
<1>2. ASSUME NEW c \in Client, Opened(c) PROVE IInv'
  <2>1. TypeOK'
    BY <1>2 DEF Opened
  <2>2. RegistryExact'
    BY <1>2 DEF Opened, RegistryExact
  <2>3. AuthInv'
    BY <1>2 DEF Opened, AuthInv
  <2> QED BY <2>1, <2>2, <2>3
<1>3. ASSUME NEW c \in Client, Welcomed(c) PROVE IInv'
  <2>1. TypeOK'
    BY <1>3 DEF Welcomed
  <2>2. RegistryExact'
    BY <1>3 DEF Welcomed, RegistryExact
  <2>3. AuthInv'
    BY <1>3 DEF Welcomed, AuthInv
  <2> QED BY <2>1, <2>2, <2>3
<1>4. ASSUME NEW c \in Client, HeartbeatLost(c) PROVE IInv'
  <2>1. TypeOK'
    BY <1>4 DEF HeartbeatLost
  <2>2. RegistryExact'
    BY <1>4 DEF HeartbeatLost, RegistryExact
  <2>3. AuthInv'
    BY <1>4 DEF HeartbeatLost, AuthInv
  <2> QED BY <2>1, <2>2, <2>3
<1>5. ASSUME NEW c \in Client, OnClose(c) PROVE IInv'
  <2>1. TypeOK'
    BY <1>5 DEF OnClose, FATAL_CLOSE
  <2>2. RegistryExact'
    BY <1>5 DEF OnClose, FATAL_CLOSE, RegistryExact
  <2>3. AuthInv'
    BY <1>5 DEF OnClose, FATAL_CLOSE, AuthInv
  <2> QED BY <2>1, <2>2, <2>3
<1>6. ASSUME NEW c \in Client, Stop(c) PROVE IInv'
  <2>1. TypeOK'
    BY <1>6 DEF Stop
  <2>2. RegistryExact'
    BY <1>6 DEF Stop, RegistryExact
  <2>3. AuthInv'
    BY <1>6 DEF Stop, AuthInv
  <2> QED BY <2>1, <2>2, <2>3
<1>7. ASSUME NEW c \in Client, Revoked(c) PROVE IInv'
  <2>1. TypeOK'
    BY <1>7 DEF Revoked
  <2>2. RegistryExact'
    BY <1>7 DEF Revoked, RegistryExact
  <2>3. AuthInv'
    BY <1>7 DEF Revoked, AuthInv
  <2> QED BY <2>1, <2>2, <2>3
<1>8. ASSUME NEW s \in Slot, HelloFails(s) PROVE IInv'
  <2>1. TypeOK'
    BY <1>8 DEF HelloFails, CloseWith
  <2>2. RegistryExact'
    BY <1>8 DEF HelloFails, CloseWith, RegistryExact
  <2>3. AuthInv'
    BY <1>8 DEF HelloFails, CloseWith, AuthInv
  <2> QED BY <2>1, <2>2, <2>3
<1>9. ASSUME NEW s \in Slot, ReadHello(s) PROVE IInv'
  <2>1. TypeOK'
    BY <1>9 DEF ReadHello, CloseWith
  <2>2. RegistryExact'
    BY <1>9 DEF ReadHello, CloseWith, RegistryExact
  <2>3. AuthInv'
    BY <1>9 DEF ReadHello, CloseWith, AuthInv
  <2> QED BY <2>1, <2>2, <2>3
<1>10. ASSUME NEW s \in Slot, Authenticate(s) PROVE IInv'
  <2>1. TypeOK'
    BY ZenonT(40), <1>10 DEF Authenticate, CloseWith, RefusalCode
  <2>2. RegistryExact'
    BY <1>10 DEF Authenticate, CloseWith, RefusalCode, RegistryExact
  <2>3. AuthInv'
    BY <1>10 DEF Authenticate, CloseWith, RefusalCode, AuthInv
  <2> QED BY <2>1, <2>2, <2>3
<1>11. ASSUME NEW s \in Slot, Add(s) PROVE IInv'
  <2>1. TypeOK'
    BY <1>11 DEF Add, CloseWith
  <2>2. RegistryExact'
    BY <1>11 DEF Add, CloseWith, RegistryExact
  <2>3. AuthInv'
    BY <1>11 DEF Add, CloseWith, AuthInv
  <2> QED BY <2>1, <2>2, <2>3
<1>12. ASSUME NEW s \in Slot, RecordHello(s) PROVE IInv'
  <2>1. TypeOK'
    BY <1>12 DEF RecordHello
  <2>2. RegistryExact'
    BY <1>12 DEF RecordHello, RegistryExact
  <2>3. AuthInv'
    BY <1>12 DEF RecordHello, AuthInv
  <2> QED BY <2>1, <2>2, <2>3
<1>13. ASSUME NEW s \in Slot, WriteWelcome(s) PROVE IInv'
  <2>1. TypeOK'
    BY <1>13 DEF WriteWelcome
  <2>2. RegistryExact'
    BY <1>13 DEF WriteWelcome, RegistryExact
  <2>3. AuthInv'
    BY <1>13 DEF WriteWelcome, AuthInv
  <2> QED BY <2>1, <2>2, <2>3
<1>14. ASSUME NEW s \in Slot, ServeEnds(s) PROVE IInv'
  <2>1. TypeOK'
    BY <1>14 DEF ServeEnds
  <2>2. RegistryExact'
    BY <1>14 DEF ServeEnds, RegistryExact
  <2>3. AuthInv'
    BY <1>14 DEF ServeEnds, AuthInv
  <2> QED BY <2>1, <2>2, <2>3
<1>15. ASSUME NEW s \in Slot, Remove(s) PROVE IInv'
  <2>1. TypeOK'
    BY <1>15 DEF Remove
  <2>2. RegistryExact'
    BY <1>15 DEF Remove, RegistryExact
  <2>3. AuthInv'
    BY <1>15 DEF Remove, AuthInv
  <2> QED BY <2>1, <2>2, <2>3
<1>16. ASSUME NEW s \in Slot, HelloTimeout(s) PROVE IInv'
  <2>1. TypeOK'
    BY <1>16 DEF HelloTimeout, CloseWith, Fault
  <2>2. RegistryExact'
    BY <1>16 DEF HelloTimeout, CloseWith, Fault, RegistryExact
  <2>3. AuthInv'
    BY <1>16 DEF HelloTimeout, CloseWith, Fault, AuthInv
  <2> QED BY <2>1, <2>2, <2>3
<1>17. ASSUME NEW s \in Slot, AuthenticateFails(s) PROVE IInv'
  <2>1. TypeOK'
    BY <1>17 DEF AuthenticateFails, CloseWith, Fault, FailureCodes
  <2>2. RegistryExact'
    BY <1>17 DEF AuthenticateFails, CloseWith, Fault, FailureCodes,
      RegistryExact
  <2>3. AuthInv'
    BY <1>17 DEF AuthenticateFails, CloseWith, Fault, FailureCodes, AuthInv
  <2> QED BY <2>1, <2>2, <2>3
<1>18. ASSUME NEW s \in Slot, ServeRefuses(s) PROVE IInv'
  <2>1. TypeOK'
    BY <1>18 DEF ServeRefuses, Fault
  <2>2. RegistryExact'
    BY <1>18 DEF ServeRefuses, Fault, RegistryExact
  <2>3. AuthInv'
    BY <1>18 DEF ServeRefuses, Fault, AuthInv
  <2> QED BY <2>1, <2>2, <2>3
<1>19. ASSUME NEW s \in Slot, ServePanics(s) PROVE IInv'
  <2>1. TypeOK'
    BY <1>19 DEF ServePanics, Fault
  <2>2. RegistryExact'
    BY <1>19 DEF ServePanics, Fault, RegistryExact
  <2>3. AuthInv'
    BY <1>19 DEF ServePanics, Fault, AuthInv
  <2> QED BY <2>1, <2>2, <2>3
<1>20. ASSUME NEW s \in Slot, LinkDrops(s) PROVE IInv'
  <2>1. TypeOK'
    BY <1>20 DEF LinkDrops, Fault
  <2>2. RegistryExact'
    BY <1>20 DEF LinkDrops, Fault, RegistryExact
  <2>3. AuthInv'
    BY <1>20 DEF LinkDrops, Fault, AuthInv
  <2> QED BY <2>1, <2>2, <2>3
<1>21. CASE Restart
  <2>1. TypeOK'
    BY <1>21 DEF Restart, Fault
  <2>2. RegistryExact'
    BY <1>21 DEF Restart, Fault, RegistryExact
  <2>3. AuthInv'
    BY <1>21 DEF Restart, Fault, AuthInv
  <2> QED BY <2>1, <2>2, <2>3
<1>22. CASE UNCHANGED vars
  <2>1. TypeOK'
    BY <1>22 DEF vars
  <2>2. RegistryExact'
    BY <1>22 DEF vars, RegistryExact
  <2>3. AuthInv'
    BY <1>22 DEF vars, AuthInv
  <2> QED BY <2>1, <2>2, <2>3
<1> QED BY <1>1, <1>2, <1>3, <1>4, <1>5, <1>6, <1>7, <1>8, <1>9, <1>10, <1>11,
     <1>12, <1>13, <1>14, <1>15, <1>16, <1>17, <1>18, <1>19, <1>20, <1>21,
     <1>22 DEF Next, Runs, Handles, Fails

\* The type invariant of Fleet.
THEOREM TypeCorrect == Spec => []TypeOK
<1>1. IInv => TypeOK
  BY DEF IInv
<1> QED BY <1>1, IInit, IStep, PTL DEF Spec

\* The registry names exactly the connections whose deferred Remove is armed.
THEOREM RegistryExactHolds == Spec => []RegistryExact
<1>1. IInv => RegistryExact
  BY DEF IInv
<1> QED BY <1>1, IInit, IStep, PTL DEF Spec

\* No machine name is ever served by two handlers.
THEOREM OneConnectionHolds == Spec => []OneConnectionPerNode
<1>1. IInv => OneConnectionPerNode
  <2> SUFFICES ASSUME IInv, NEW s \in Slot, NEW t \in Slot,
                      handler[s] \in Registered, handler[t] \in Registered,
                      Name(s) = Name(t)
               PROVE  s = t
    BY DEF OneConnectionPerNode
  <2>1. Name(s) \in NodeId
    BY FleetAssumption DEF IInv, TypeOK, Name
  <2>2. conns[Name(s)] = s /\ conns[Name(s)] = t
    BY <2>1 DEF IInv, RegistryExact
  <2> QED BY <2>2
<1> QED BY <1>1, IInit, IStep, PTL DEF Spec

\* Only authenticated connections are registered.
THEOREM OnlyAuthenticatedHolds == Spec => []OnlyAuthenticated
<1>1. IInv => OnlyAuthenticated
  BY DEF IInv, TypeOK, RegistryExact, AuthInv, OnlyAuthenticated
<1> QED BY <1>1, IInit, IStep, PTL DEF Spec

\* An entry changes hands only through NoSlot.
LEMMA EntryStep ==
  ASSUME TypeOK, [Next]_vars, NEW n \in NodeId, conns[n] # NoSlot
  PROVE  conns'[n] \in {conns[n], NoSlot}
<1> USE FleetAssumption DEF TypeOK, Name, clientVars, slotVars
<1>1. ASSUME NEW c \in Client, NEW s \in Slot, Connect(c, s)
      PROVE conns'[n] \in {conns[n], NoSlot}
  BY <1>1 DEF Connect
<1>2. ASSUME NEW c \in Client, Opened(c) PROVE conns'[n] \in {conns[n], NoSlot}
  BY <1>2 DEF Opened
<1>3. ASSUME NEW c \in Client, Welcomed(c)
      PROVE conns'[n] \in {conns[n], NoSlot}
  BY <1>3 DEF Welcomed
<1>4. ASSUME NEW c \in Client, HeartbeatLost(c)
      PROVE conns'[n] \in {conns[n], NoSlot}
  BY <1>4 DEF HeartbeatLost
<1>5. ASSUME NEW c \in Client, OnClose(c) PROVE conns'[n] \in {conns[n], NoSlot}
  BY <1>5 DEF OnClose
<1>6. ASSUME NEW c \in Client, Stop(c) PROVE conns'[n] \in {conns[n], NoSlot}
  BY <1>6 DEF Stop
<1>7. ASSUME NEW c \in Client, Revoked(c) PROVE conns'[n] \in {conns[n], NoSlot}
  BY <1>7 DEF Revoked
<1>8. ASSUME NEW s \in Slot, HelloFails(s)
      PROVE conns'[n] \in {conns[n], NoSlot}
  BY <1>8 DEF HelloFails
<1>9. ASSUME NEW s \in Slot, ReadHello(s) PROVE conns'[n] \in {conns[n], NoSlot}
  BY <1>9 DEF ReadHello
<1>10. ASSUME NEW s \in Slot, Authenticate(s)
       PROVE conns'[n] \in {conns[n], NoSlot}
  BY <1>10 DEF Authenticate
<1>11. ASSUME NEW s \in Slot, Add(s) PROVE conns'[n] \in {conns[n], NoSlot}
  BY <1>11 DEF Add
<1>12. ASSUME NEW s \in Slot, RecordHello(s)
       PROVE conns'[n] \in {conns[n], NoSlot}
  BY <1>12 DEF RecordHello
<1>13. ASSUME NEW s \in Slot, WriteWelcome(s)
       PROVE conns'[n] \in {conns[n], NoSlot}
  BY <1>13 DEF WriteWelcome
<1>14. ASSUME NEW s \in Slot, ServeEnds(s)
       PROVE conns'[n] \in {conns[n], NoSlot}
  BY <1>14 DEF ServeEnds
<1>15. ASSUME NEW s \in Slot, Remove(s) PROVE conns'[n] \in {conns[n], NoSlot}
  BY <1>15 DEF Remove
<1>16. ASSUME NEW s \in Slot, HelloTimeout(s)
       PROVE conns'[n] \in {conns[n], NoSlot}
  BY <1>16 DEF HelloTimeout
<1>17. ASSUME NEW s \in Slot, AuthenticateFails(s)
       PROVE conns'[n] \in {conns[n], NoSlot}
  BY <1>17 DEF AuthenticateFails
<1>18. ASSUME NEW s \in Slot, ServeRefuses(s)
       PROVE conns'[n] \in {conns[n], NoSlot}
  BY <1>18 DEF ServeRefuses
<1>19. ASSUME NEW s \in Slot, ServePanics(s)
       PROVE conns'[n] \in {conns[n], NoSlot}
  BY <1>19 DEF ServePanics
<1>20. ASSUME NEW s \in Slot, LinkDrops(s)
       PROVE conns'[n] \in {conns[n], NoSlot}
  BY <1>20 DEF LinkDrops
<1>21. CASE Restart
  BY <1>21 DEF Restart
<1>22. CASE UNCHANGED vars
  BY <1>22 DEF vars
<1> QED BY <1>1, <1>2, <1>3, <1>4, <1>5, <1>6, <1>7, <1>8, <1>9, <1>10, <1>11,
     <1>12, <1>13, <1>14, <1>15, <1>16, <1>17, <1>18, <1>19, <1>20, <1>21,
     <1>22 DEF Next, Runs, Handles, Fails

\* A live connection is never evicted by a newcomer.
THEOREM NewcomerLosesHolds == Spec => NewcomerLoses
<1>1. IInv /\ [Next]_vars =>
        [\A n \in NodeId :
           conns[n] # NoSlot => conns'[n] \in {conns[n], NoSlot}]_vars
  BY EntryStep DEF IInv
<1> QED BY <1>1, IInit, IStep, PTL DEF Spec, NewcomerLoses

-----------------------------------------------------------------------------
(* Whom a fatal close code can reach.                                      *)

\* A client's current socket is one it dialled itself, and the close code of a
\* socket dialled with a good machine token is never a fatal one: the code was
\* "dropped" when the socket was dialled, and only a refusal of the credential
\* makes it fatal.
CloseInv ==
  /\ \A c \in Client : cur[c] # NoSlot => owner[cur[c]] = c
  /\ \A s \in Slot : owner[s] \notin UserToken /\ cred[owner[s]] = "good"
                     => code[s] \notin FATAL_CLOSE

\* Init establishes it.
LEMMA CloseInit == Init => CloseInv
  BY FleetAssumption DEF Init, CloseInv, FATAL_CLOSE

\* Every action preserves it.
LEMMA CloseStep == TypeOK /\ CloseInv /\ [Next]_vars => CloseInv'
<1> SUFFICES ASSUME TypeOK, CloseInv, [Next]_vars PROVE CloseInv'
  OBVIOUS
<1> USE FleetAssumption
    DEF TypeOK, CloseInv, FATAL_CLOSE, Codes, Credentials, clientVars, slotVars
<1>1. ASSUME NEW c \in Client, NEW s \in Slot, Connect(c, s) PROVE CloseInv'
  BY <1>1 DEF Connect
<1>2. ASSUME NEW c \in Client, Opened(c) PROVE CloseInv'
  BY <1>2 DEF Opened
<1>3. ASSUME NEW c \in Client, Welcomed(c) PROVE CloseInv'
  BY <1>3 DEF Welcomed
<1>4. ASSUME NEW c \in Client, HeartbeatLost(c) PROVE CloseInv'
  BY <1>4 DEF HeartbeatLost
<1>5. ASSUME NEW c \in Client, OnClose(c) PROVE CloseInv'
  BY <1>5 DEF OnClose
<1>6. ASSUME NEW c \in Client, Stop(c) PROVE CloseInv'
  BY <1>6 DEF Stop
<1>7. ASSUME NEW c \in Client, Revoked(c) PROVE CloseInv'
  BY <1>7 DEF Revoked
<1>8. ASSUME NEW s \in Slot, HelloFails(s) PROVE CloseInv'
  BY <1>8 DEF HelloFails, CloseWith
<1>9. ASSUME NEW s \in Slot, ReadHello(s) PROVE CloseInv'
  BY <1>9 DEF ReadHello, CloseWith
<1>10. ASSUME NEW s \in Slot, Authenticate(s) PROVE CloseInv'
  BY <1>10 DEF Authenticate, CloseWith, RefusalCode
<1>11. ASSUME NEW s \in Slot, Add(s) PROVE CloseInv'
  BY <1>11 DEF Add, CloseWith
<1>12. ASSUME NEW s \in Slot, RecordHello(s) PROVE CloseInv'
  BY <1>12 DEF RecordHello
<1>13. ASSUME NEW s \in Slot, WriteWelcome(s) PROVE CloseInv'
  BY <1>13 DEF WriteWelcome
<1>14. ASSUME NEW s \in Slot, ServeEnds(s) PROVE CloseInv'
  BY <1>14 DEF ServeEnds
<1>15. ASSUME NEW s \in Slot, Remove(s) PROVE CloseInv'
  BY <1>15 DEF Remove
<1>16. ASSUME NEW s \in Slot, HelloTimeout(s) PROVE CloseInv'
  BY <1>16 DEF HelloTimeout, CloseWith
<1>17. ASSUME NEW s \in Slot, AuthenticateFails(s) PROVE CloseInv'
  BY <1>17 DEF AuthenticateFails, CloseWith, FailureCodes
<1>18. ASSUME NEW s \in Slot, ServeRefuses(s) PROVE CloseInv'
  BY <1>18 DEF ServeRefuses
<1>19. ASSUME NEW s \in Slot, ServePanics(s) PROVE CloseInv'
  BY <1>19 DEF ServePanics
<1>20. ASSUME NEW s \in Slot, LinkDrops(s) PROVE CloseInv'
  BY <1>20 DEF LinkDrops
<1>21. CASE Restart
  BY <1>21 DEF Restart
<1>22. CASE UNCHANGED vars
  BY <1>22 DEF vars
<1> QED BY <1>1, <1>2, <1>3, <1>4, <1>5, <1>6, <1>7, <1>8, <1>9, <1>10, <1>11,
     <1>12, <1>13, <1>14, <1>15, <1>16, <1>17, <1>18, <1>19, <1>20, <1>21,
     <1>22 DEF Next, Runs, Handles, Fails

\* A machine whose own token is good is never told to give up: whatever closes
\* its socket, it goes back to retrying.
THEOREM GoodClientRetriesHolds == Spec => GoodClientRetries
<1>1. IInv /\ CloseInv /\ [Next]_vars =>
        [\A c \in Client \ UserToken :
           cred[c] = "good" /\ OnClose(c) => client'[c] = "idle"]_vars
  <2> SUFFICES ASSUME IInv, CloseInv, NEW c \in Client \ UserToken,
                      cred[c] = "good", OnClose(c)
               PROVE  client'[c] = "idle"
    OBVIOUS
  <2>1. cur[c] \in Slot /\ owner[cur[c]] = c
    BY DEF OnClose, CloseInv, IInv, TypeOK
  <2>2. code[cur[c]] \notin FATAL_CLOSE
    BY <2>1 DEF CloseInv
  <2> QED BY <2>2 DEF OnClose, IInv, TypeOK
<1>2. IInv => TypeOK
  BY DEF IInv
<1> QED BY <1>1, <1>2, IInit, IStep, CloseInit, CloseStep, PTL
        DEF Spec, GoodClientRetries

-----------------------------------------------------------------------------
(* Nobody waits for a welcome that cannot come.                            *)

\* A socket is left open by a handler that has returned only behind a welcome,
\* which is on the wire from serve on; a client that has said hello did so on
\* its current socket.
StrandInv ==
  /\ \A s \in Slot : link[s] = "up" =>
       /\ handler[s] = "none" => welcome[s]
       /\ handler[s] \in {"serve", "remove"} => welcome[s]
  /\ \A c \in Client : client[c] = "dialing" => cur[c] # NoSlot
  /\ \A c \in Client : client[c] = "hello" => cur[c] # NoSlot /\ hello[cur[c]]

\* Init establishes it.
LEMMA StrandInit == Init => StrandInv
  BY FleetAssumption DEF Init, StrandInv

\* Every action preserves it.
LEMMA StrandStep == TypeOK /\ StrandInv /\ [Next]_vars => StrandInv'
<1> SUFFICES ASSUME TypeOK, StrandInv, [Next]_vars PROVE StrandInv'
  OBVIOUS
<1> USE FleetAssumption
    DEF TypeOK, StrandInv, HandlerStates, ClientStates, clientVars, slotVars
<1>1. ASSUME NEW c \in Client, NEW s \in Slot, Connect(c, s) PROVE StrandInv'
  BY <1>1 DEF Connect
<1>2. ASSUME NEW c \in Client, Opened(c) PROVE StrandInv'
  BY <1>2 DEF Opened
<1>3. ASSUME NEW c \in Client, Welcomed(c) PROVE StrandInv'
  BY <1>3 DEF Welcomed
<1>4. ASSUME NEW c \in Client, HeartbeatLost(c) PROVE StrandInv'
  BY <1>4 DEF HeartbeatLost
<1>5. ASSUME NEW c \in Client, OnClose(c) PROVE StrandInv'
  BY <1>5 DEF OnClose
<1>6. ASSUME NEW c \in Client, Stop(c) PROVE StrandInv'
  BY <1>6 DEF Stop
<1>7. ASSUME NEW c \in Client, Revoked(c) PROVE StrandInv'
  BY <1>7 DEF Revoked
<1>8. ASSUME NEW s \in Slot, HelloFails(s) PROVE StrandInv'
  BY <1>8 DEF HelloFails, CloseWith
<1>9. ASSUME NEW s \in Slot, ReadHello(s) PROVE StrandInv'
  BY <1>9 DEF ReadHello, CloseWith
<1>10. ASSUME NEW s \in Slot, Authenticate(s) PROVE StrandInv'
  BY <1>10 DEF Authenticate, CloseWith, RefusalCode
<1>11. ASSUME NEW s \in Slot, Add(s) PROVE StrandInv'
  BY <1>11 DEF Add, CloseWith
<1>12. ASSUME NEW s \in Slot, RecordHello(s) PROVE StrandInv'
  BY <1>12 DEF RecordHello
<1>13. ASSUME NEW s \in Slot, WriteWelcome(s) PROVE StrandInv'
  BY <1>13 DEF WriteWelcome
<1>14. ASSUME NEW s \in Slot, ServeEnds(s) PROVE StrandInv'
  BY <1>14 DEF ServeEnds
<1>15. ASSUME NEW s \in Slot, Remove(s) PROVE StrandInv'
  BY <1>15 DEF Remove
<1>16. ASSUME NEW s \in Slot, HelloTimeout(s) PROVE StrandInv'
  BY <1>16 DEF HelloTimeout, CloseWith
<1>17. ASSUME NEW s \in Slot, AuthenticateFails(s) PROVE StrandInv'
  BY <1>17 DEF AuthenticateFails, CloseWith, FailureCodes
<1>18. ASSUME NEW s \in Slot, ServeRefuses(s) PROVE StrandInv'
  BY <1>18 DEF ServeRefuses
<1>19. ASSUME NEW s \in Slot, ServePanics(s) PROVE StrandInv'
  BY <1>19 DEF ServePanics
<1>20. ASSUME NEW s \in Slot, LinkDrops(s) PROVE StrandInv'
  BY <1>20 DEF LinkDrops
<1>21. CASE Restart
  BY <1>21 DEF Restart
<1>22. CASE UNCHANGED vars
  BY <1>22 DEF vars
<1> QED BY <1>1, <1>2, <1>3, <1>4, <1>5, <1>6, <1>7, <1>8, <1>9, <1>10, <1>11,
     <1>12, <1>13, <1>14, <1>15, <1>16, <1>17, <1>18, <1>19, <1>20, <1>21,
     <1>22 DEF Next, Runs, Handles, Fails

\* A client that waits for its welcome on an open socket has a handler that will
\* send it or close the socket, or the welcome is already on the wire.
THEOREM NobodyStrandedHolds == Spec => []NobodyStranded
<1>1. ASSUME TypeOK, StrandInv, NEW c \in Client,
             client[c] = "hello", link[cur[c]] = "up"
      PROVE  \/ welcome[cur[c]]
             \/ handler[cur[c]] = "hello" /\ hello[cur[c]]
             \/ handler[cur[c]] \in {"auth", "add", "record", "welcome"}
  <2>1. cur[c] \in Slot /\ hello[cur[c]]
    BY <1>1 DEF StrandInv, TypeOK
  <2>2. handler[cur[c]] \in HandlerStates
    BY <2>1, <1>1 DEF TypeOK
  <2> QED BY <1>1, <2>1, <2>2 DEF StrandInv, HandlerStates
<1>2. IInv /\ StrandInv => NobodyStranded
  BY <1>1 DEF IInv, NobodyStranded
<1>3. IInv => TypeOK
  BY DEF IInv
<1> QED BY <1>2, <1>3, IInit, IStep, StrandInit, StrandStep, PTL DEF Spec
=============================================================================
