------------------------ MODULE GatewayServerProofs ------------------------
(***************************************************************************)
(* Proofs about GatewayServer, for any sets of gateways, Stores, keys and  *)
(* requests.                                                               *)
(***************************************************************************)
EXTENDS GatewayServer, Naturals, TLAPS

(* A bridge function waits only on behalf of a gateway with a server.      *)
WaitsForServer == mu # "free" => Running(gw)

(* Only that gateway has a socket, and none once Shutdown has begun.       *)
OneSocket ==
    \A g \in Gateways : socket[g] \in {"binding", "listening"} =>
        gw = g /\ Running(g) /\ mu \notin {"abandoning", "stopping"}

(* The tunnel is recorded between two calls and belongs to the gateway.    *)
OneTunnel ==
    /\ cfTunnel # NoGateway => cfTunnel = gw /\ Running(gw) /\ mu = "free"
    /\ \A g \in Gateways : process[g] # "none" => g = cfTunnel \/ (g = gw /\ mu = "tunnelling")

(* The only open Store is the bridge's.                                    *)
OneStore == \A s \in Stores : s \in open => s = db

RevokedAbsent == \A k \in revoked : key[k] = "absent"

(* Who arrived after the revocation of a key has not got past the look-up. *)
LateKeptOut ==
    \A r \in Requests : request[r].late =>
        request[r].pc = "arrived" /\ request[r].key \in revoked

ServerInv ==
    /\ TypeOK /\ WaitsForServer /\ OneSocket /\ OneTunnel /\ OneStore /\ RevokedAbsent
    /\ LateKeptOut

LEMMA InitInv == Init => ServerInv
<1> SUFFICES ASSUME Init PROVE ServerInv
  OBVIOUS
<1> USE ServerAssumption
<1>1. TypeOK
  BY DEF Init, TypeOK, Idle
<1>2. LateKeptOut
  BY DEF Init, LateKeptOut, Idle
<1>3. QED
  BY <1>1, <1>2 DEF Init, ServerInv, WaitsForServer, OneSocket, OneTunnel, OneStore, RevokedAbsent, Running

(* Nobody changes the bridge's fields while a function waits in mu, and    *)
(* what is not a bridge function or a serving goroutine changes none.      *)
LEMMA StartGatewayInv ==
    ASSUME ServerInv, NEW quickTunnel \in BOOLEAN, StartGateway(quickTunnel)
    PROVE  ServerInv'
<1> USE ServerAssumption
<1> PICK g \in Gateways : /\ Unused(g)
                          /\ gw' = g
                          /\ server' = [server EXCEPT ![g] = "set"]
                          /\ socket' = [socket EXCEPT ![g] = "binding"]
                          /\ store' = [store EXCEPT ![g] = db]
  BY DEF StartGateway
<1>1. TypeOK'
  BY DEF ServerInv, TypeOK, StartGateway, WithStore, tunnelVars, storeVars, keyVars
<1>2. cfTunnel = NoGateway /\ cfTunnel' = cfTunnel /\ process' = process /\ mu' # "tunnelling"
  BY DEF ServerInv, OneTunnel, StartGateway, tunnelVars
<1>3. \A h \in Gateways : socket[h] \notin {"binding", "listening"}
  BY DEF ServerInv, OneSocket, StartGateway
<1>4. Running(gw)' /\ mu' \notin {"abandoning", "stopping"}
  BY DEF ServerInv, TypeOK, Running, StartGateway
<1>5. OneSocket'
  BY <1>3, <1>4 DEF ServerInv, TypeOK, OneSocket
<1>6. OneTunnel'
  BY <1>2 DEF ServerInv, OneTunnel, StartGateway, Running
<1>7. WaitsForServer'
  BY <1>4 DEF WaitsForServer
<1>8. QED
  BY <1>1, <1>5, <1>6, <1>7
  DEF ServerInv, OneStore, RevokedAbsent, LateKeptOut, StartGateway, storeVars, keyVars

LEMMA ServingInv ==
    ASSUME ServerInv, NEW g \in Gateways, Listen(g) \/ ServeFails(g) \/ CloudflaredDies(g)
    PROVE  ServerInv'
<1> USE ServerAssumption
<1>1. TypeOK'
  BY DEF ServerInv, TypeOK, Listen, ServeFails, CloudflaredDies, tunnelVars, storeVars, keyVars, serverVars
<1>2. WaitsForServer' /\ OneSocket' /\ OneTunnel'
  BY DEF ServerInv, TypeOK, WaitsForServer, OneSocket, OneTunnel, Running,
         Listen, ServeFails, CloudflaredDies, tunnelVars, serverVars
<1>3. QED
  BY <1>1, <1>2
  DEF ServerInv, OneStore, RevokedAbsent, LateKeptOut, Listen, ServeFails, CloudflaredDies, storeVars, keyVars

LEMMA WaitingInv ==
    ASSUME ServerInv, Waiting
    PROVE  ServerInv'
<1> USE ServerAssumption
<1>0. UNCHANGED <<storeVars, keyVars, request>> /\ gw \in Gateways
  BY DEF Waiting, StartFails, StartReturns, StartCloudflared, TunnelReady, TunnelFails,
         ShutdownDone, ShutdownDeadline, ServerInv, WaitsForServer, Running, TypeOK
<1>1. OneStore' /\ RevokedAbsent' /\ LateKeptOut'
  BY <1>0 DEF ServerInv, OneStore, RevokedAbsent, LateKeptOut, storeVars, keyVars
<1>2. CASE StartFails
  BY <1>0, <1>1, <1>2 DEF ServerInv, TypeOK, WaitsForServer, OneSocket, OneTunnel, Running,
         StartFails, tunnelVars, storeVars, keyVars
<1>3. CASE StartReturns
  BY <1>0, <1>1, <1>3 DEF ServerInv, TypeOK, WaitsForServer, OneSocket, OneTunnel, Running,
         StartReturns, serverVars, tunnelVars, storeVars, keyVars
<1>4. CASE StartCloudflared
  BY <1>0, <1>1, <1>4 DEF ServerInv, TypeOK, WaitsForServer, OneSocket, OneTunnel, Running,
         StartCloudflared, serverVars, storeVars, keyVars
<1>5. CASE TunnelReady
  BY <1>0, <1>1, <1>5 DEF ServerInv, TypeOK, WaitsForServer, OneSocket, OneTunnel, Running,
         TunnelReady, serverVars, storeVars, keyVars
<1>6. CASE TunnelFails
  BY <1>0, <1>1, <1>6 DEF ServerInv, TypeOK, WaitsForServer, OneSocket, OneTunnel, Running,
         TunnelFails, CloseSocket, storeVars, keyVars
<1>7. CASE ShutdownDone
  BY <1>0, <1>1, <1>7 DEF ServerInv, TypeOK, WaitsForServer, OneSocket, OneTunnel, Running,
         ShutdownDone, tunnelVars, storeVars, keyVars
<1>8. CASE ShutdownDeadline
  BY <1>0, <1>1, <1>8 DEF ServerInv, TypeOK, WaitsForServer, OneSocket, OneTunnel, Running,
         ShutdownDeadline, tunnelVars, storeVars, keyVars
<1>9. QED
  BY <1>2, <1>3, <1>4, <1>5, <1>6, <1>7, <1>8 DEF Waiting

LEMMA StopGatewayInv ==
    ASSUME ServerInv, StopGateway
    PROVE  ServerInv'
<1> USE ServerAssumption
<1>1. TypeOK'
  BY DEF ServerInv, TypeOK, StopGateway, CloseSocket, storeVars, keyVars
<1>2. WaitsForServer' /\ OneSocket' /\ OneTunnel'
  BY DEF ServerInv, TypeOK, WaitsForServer, OneSocket, OneTunnel, Running, StopGateway, CloseSocket
<1>3. QED
  BY <1>1, <1>2 DEF ServerInv, OneStore, RevokedAbsent, LateKeptOut, StopGateway, storeVars, keyVars

LEMMA BridgeInv ==
    ASSUME ServerInv,
           \/ \E s \in Stores : OpenWalletDatabase(s)
           \/ OpenFails
           \/ \E k \in Keys : GenerateAPIKey(k) \/ RevokeAPIKey(k)
    PROVE  ServerInv'
<1> USE ServerAssumption
<1>1. TypeOK'
  BY DEF ServerInv, TypeOK, OpenWalletDatabase, OpenFails, OpenAfterClose, GenerateAPIKey, RevokeAPIKey,
         serverVars, tunnelVars, storeVars, keyVars
<1>2. WaitsForServer' /\ OneSocket' /\ OneTunnel'
  BY DEF ServerInv, WaitsForServer, OneSocket, OneTunnel, Running, OpenWalletDatabase, OpenFails,
         GenerateAPIKey, RevokeAPIKey, serverVars, tunnelVars
<1>3. OneStore'
  BY DEF ServerInv, TypeOK, OneStore, OpenWalletDatabase, OpenFails, OpenAfterClose,
         GenerateAPIKey, RevokeAPIKey, storeVars
<1>4. RevokedAbsent' /\ LateKeptOut'
  BY DEF ServerInv, TypeOK, RevokedAbsent, LateKeptOut, OpenWalletDatabase, OpenFails,
         GenerateAPIKey, RevokeAPIKey, keyVars
<1>5. QED
  BY <1>1, <1>2, <1>3, <1>4 DEF ServerInv

RequestStep(r) ==
    \/ \E g \in Gateways, k \in Keys : Arrive(r, g, k)
    \/ LookUp(r) \/ Authorise(r) \/ Refuse(r) \/ Finish(r) \/ UpdateAPIKeyLastUsed(r)

(* What a request finds is in the database of the bridge, and not revoked. *)
LEMMA FoundIsOpen ==
    ASSUME ServerInv, NEW r \in Requests, LookUp(r)
    PROVE  /\ db # NoStore /\ key[request[r].key] = WalletOf[db]
           /\ request[r].key \notin revoked
<1> USE ServerAssumption
<1> DEFINE s == store[request[r].gateway]
           k == request[r].key
<1>1. s \in open /\ key[k] = WalletOf[s] /\ s \in Stores
  BY DEF LookUp, Found, ServerInv, TypeOK
<1>2. s = db /\ db # NoStore
  BY <1>1 DEF ServerInv, OneStore
<1>3. key[k] # "absent"
  BY <1>1
<1>4. QED
  BY <1>1, <1>2, <1>3 DEF ServerInv, RevokedAbsent

RequestType ==
    [pc : {"idle", "arrived", "comparing", "serving", "done"},
     gateway : Gateways \cup {NoGateway},
     key : Keys \cup {NoKey}, touch : Keys \cup {NoKey}, late : BOOLEAN]

LEMMA RequestInv ==
    ASSUME ServerInv, NEW r \in Requests, RequestStep(r)
    PROVE  ServerInv'
<1> USE ServerAssumption
<1>1. UNCHANGED <<mu, gw, serverVars, tunnelVars, storeVars, keyVars>>
  BY DEF RequestStep, Arrive, LookUp, Authorise, Refuse, Finish, UpdateAPIKeyLastUsed, RowsAfterTouch, keyVars
<1>2. request' \in [Requests -> RequestType]
  <2>0. request \in [Requests -> RequestType]
    BY DEF ServerInv, TypeOK, RequestType
  <2>1. ASSUME NEW g \in Gateways, NEW k \in Keys, Arrive(r, g, k)
        PROVE  request' \in [Requests -> RequestType]
    <3> DEFINE new == [pc |-> "arrived", gateway |-> g, key |-> k, touch |-> NoKey, late |-> k \in revoked]
    <3>1. (k \in revoked) \in BOOLEAN
      OBVIOUS
    <3>2. new \in RequestType
      BY <3>1, Zenon DEF RequestType
    <3>3. request' = [request EXCEPT ![r] = new]
      BY <2>1 DEF Arrive
    <3> HIDE DEF new
    <3>4. QED
      BY <2>0, <3>2, <3>3
  <2>2. CASE LookUp(r) \/ Authorise(r) \/ Refuse(r) \/ Finish(r) \/ UpdateAPIKeyLastUsed(r)
    <3>1. request[r] \in RequestType /\ Idle \in RequestType
      BY <2>0 DEF Idle, RequestType
    <3>2. \/ request' = [request EXCEPT ![r].pc = "comparing"]
          \/ request' = [request EXCEPT ![r].pc = "serving", ![r].touch = request[r].key]
          \/ request' = [request EXCEPT ![r] = Idle]
          \/ request' = [request EXCEPT ![r].pc = "done"]
          \/ request' = [request EXCEPT ![r].touch = NoKey]
      BY <2>0, <2>2 DEF LookUp, Authorise, Refuse, Finish, UpdateAPIKeyLastUsed
    <3>3. QED
      BY <2>0, <3>1, <3>2 DEF RequestType
  <2>3. QED
    BY <2>1, <2>2 DEF RequestStep
<1>3. LateKeptOut'
  <2>1. CASE LookUp(r)
    BY <1>1, <2>1, FoundIsOpen DEF ServerInv, TypeOK, LateKeptOut, LookUp, keyVars
  <2>2. CASE ~LookUp(r)
    BY <1>1, <2>2 DEF ServerInv, TypeOK, LateKeptOut, RequestStep, Arrive, Authorise, Refuse, Finish,
       UpdateAPIKeyLastUsed, Idle, keyVars
  <2>3. QED
    BY <2>1, <2>2
<1>4. QED
  BY <1>1, <1>2, <1>3
  DEF ServerInv, TypeOK, RequestType, WaitsForServer, OneSocket, OneTunnel, OneStore, RevokedAbsent, Running,
      serverVars, tunnelVars, storeVars, keyVars

LEMMA Stutter ==
    ASSUME ServerInv, UNCHANGED gatewayVars
    PROVE  ServerInv'
BY DEF ServerInv, TypeOK, WaitsForServer, OneSocket, OneTunnel, OneStore, RevokedAbsent, LateKeptOut,
       Running, gatewayVars

THEOREM ServerInvariant == Spec => []ServerInv
<1>1. ServerInv /\ [Next]_gatewayVars => ServerInv'
  BY StartGatewayInv, ServingInv, WaitingInv, StopGatewayInv, BridgeInv, RequestInv, Stutter DEF Next, RequestStep
<1>2. QED
  BY InitInv, <1>1, PTL DEF Spec

(* Type correctness of the server, tunnel, keys and requests.              *)
THEOREM ServerTypeCorrect == Spec => []TypeOK
<1>1. ServerInv => TypeOK
  BY DEF ServerInv
<1>2. QED
  BY ServerInvariant, <1>1, PTL

(* What listens is the gateway the bridge reports and stops, whatever      *)
(* start, tunnel or stop failed before (server.go, api.go StartGateway).   *)
THEOREM ServingReachable == Spec => []ServingIsReachable
<1>1. ServerInv => ServingIsReachable
  BY DEF ServerInv, OneSocket, ServingIsReachable
<1>2. QED
  BY ServerInvariant, <1>1, PTL

(* The tunnel's URL and process are those of the running gateway           *)
(* (api.go StartGateway, StopGateway, quick.go).                           *)
THEOREM TunnelBelongs == Spec => []TunnelFollowsGateway
<1>1. ServerInv => TunnelFollowsGateway
  BY DEF ServerInv, OneTunnel, TunnelFollowsGateway
<1>2. QED
  BY ServerInvariant, <1>1, PTL

(* Only its own steps change a request.                                    *)
LEMMA OwnSteps ==
    ASSUME ServerInv, [Next]_gatewayVars, NEW r \in Requests, request'[r] # request[r]
    PROVE  RequestStep(r)
<1>1. PICK q \in Requests : RequestStep(q)
  BY DEF Next, RequestStep, gatewayVars, Waiting, StartGateway, StopGateway, StartFails, StartReturns,
       StartCloudflared, TunnelReady, TunnelFails, ShutdownDone, ShutdownDeadline, Listen, ServeFails,
       CloudflaredDies, OpenWalletDatabase, OpenFails, GenerateAPIKey, RevokeAPIKey
<1>2. q = r
  BY <1>1 DEF ServerInv, TypeOK, RequestStep, Arrive, LookUp, Authorise, Refuse, Finish, UpdateAPIKeyLastUsed
<1>3. QED
  BY <1>1, <1>2

(* A request is checked by a row of the database that is open then, and    *)
(* none that arrived after its key's revocation was reported is let in     *)
(* (auth.go, store.go ValidateAPIKey and RevokeAPIKey).                    *)
THEOREM Revocation == Spec => RevocationBlocks
<1>1. ASSUME ServerInv, [Next]_gatewayVars, NEW r \in Requests,
             request[r].pc = "arrived", request'[r].pc = "comparing"
      PROVE  db # NoStore /\ key[request[r].key] = WalletOf[db]
  <2>1. RequestStep(r)
    BY <1>1, OwnSteps
  <2>2. LookUp(r)
    BY <1>1, <2>1 DEF ServerInv, TypeOK, RequestStep, Arrive, Authorise, Refuse, Finish,
       UpdateAPIKeyLastUsed, Idle
  <2>3. QED
    BY <1>1, <2>2, FoundIsOpen
<1>2. ASSUME ServerInv, [Next]_gatewayVars, NEW r \in Requests,
             request[r].pc # "serving", request'[r].pc = "serving"
      PROVE  request[r].pc = "comparing" /\ ~request[r].late
  <2>1. RequestStep(r)
    BY <1>2, OwnSteps
  <2>2. Authorise(r)
    BY <1>2, <2>1 DEF ServerInv, TypeOK, RequestStep, Arrive, LookUp, Refuse, Finish,
       UpdateAPIKeyLastUsed, Idle
  <2>3. QED
    BY <1>2, <2>2 DEF Authorise, ServerInv, LateKeptOut
<1>3. ServerInv /\ [Next]_gatewayVars =>
        [\A r \in Requests :
            /\ request[r].pc = "arrived" /\ request'[r].pc = "comparing" =>
                  db # NoStore /\ key[request[r].key] = WalletOf[db]
            /\ request[r].pc # "serving" /\ request'[r].pc = "serving" =>
                  request[r].pc = "comparing" /\ ~request[r].late]_gatewayVars
  BY <1>1, <1>2
<1>4. QED
  BY ServerInvariant, <1>3, PTL DEF Spec, RevocationBlocks

(* The waits still before a bridge function that holds mu: a bind error,   *)
(* the tunnel's URL, requests to end.                                      *)
Waits(m) == CASE m = "free" -> 0
              [] m \in {"binding", "abandoning", "stopping"} -> 1
              [] m = "tunnelling" -> 2
              [] m = "bindingForTunnel" -> 3

(* Action property: a function that holds mu comes closer to giving it     *)
(* back with every wait that ends, and nothing that happens meanwhile      *)
(* takes mu from it or sends it back to an earlier wait: no request, no    *)
(* serving goroutine, no death of cloudflared, no other bridge function.   *)
WaitsEnd ==
    [][mu # "free" => mu' = mu \/ Waits(mu') < Waits(mu)]_gatewayVars
        /\ [][Waiting => Waits(mu') < Waits(mu)]_gatewayVars

(* The part of MuReturned that does not rest on fairness: at most three    *)
(* waits, each ended by its own deadline (api.go StartGateway and          *)
(* StopGateway, server.go Start and Stop, quick.go StartQuickTunnel).      *)
THEOREM WaitsComeToAnEnd == Spec => WaitsEnd
<1>1. ASSUME Waiting
      PROVE  Waits(mu') < Waits(mu)
  BY <1>1 DEF Waiting, Waits, StartFails, StartReturns, StartCloudflared, TunnelReady, TunnelFails,
       ShutdownDone, ShutdownDeadline
<1>2. ASSUME [Next]_gatewayVars, mu # "free", ~Waiting
      PROVE  mu' = mu
  BY <1>2 DEF Next, gatewayVars, StartGateway, StopGateway, Listen, ServeFails, CloudflaredDies,
       OpenWalletDatabase, OpenFails, GenerateAPIKey, RevokeAPIKey, Arrive, LookUp, Authorise, Refuse, Finish,
       UpdateAPIKeyLastUsed
<1>3. [Next]_gatewayVars => [mu # "free" => mu' = mu \/ Waits(mu') < Waits(mu)]_gatewayVars
  BY <1>1, <1>2
<1>4. [Next]_gatewayVars => [Waiting => Waits(mu') < Waits(mu)]_gatewayVars
  BY <1>1
<1>5. QED
  BY <1>3, <1>4, PTL DEF Spec, WaitsEnd
=============================================================================
