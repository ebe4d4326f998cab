--------------------------- MODULE GatewayServer ---------------------------
(***************************************************************************)
(* The HTTP server of the gateway, its API keys and its public tunnel: the *)
(* bridge functions StartGateway, StopGateway and RevokeAPIKey             *)
(* (mobile/api.go), Gateway.Start and Stop (gateway/server.go), the        *)
(* authentication of requests (gateway/auth.go, store.go) and the          *)
(* cloudflared process (cloudflared/quick.go).  What an authorised request *)
(* then does is in GatewayRecords and EndpointRelay.                       *)
(*                                                                         *)
(* A bridge function holds mu while it waits: for a bind error, for the    *)
(* tunnel's URL, for requests to end.  Requests, the goroutine that serves *)
(* and the cloudflared process go on meanwhile.  Gateway and Store objects *)
(* are taken from a set and can be taken again once nothing refers to      *)
(* them, so that the sets bound how many there are at once.                *)
(***************************************************************************)
CONSTANTS Requests,  \* requests in flight at once
          Keys,      \* API keys generated in the life of the app
          Wallets,   \* each has a database file with its own api_keys
          Gateways, NoGateway,
          Stores, NoStore,
          WalletOf,  \* the wallet whose file a Store has open
          NoKey

ASSUME ServerAssumption ==
    /\ NoGateway \notin Gateways
    /\ NoStore \notin Stores
    /\ NoKey \notin Keys
    /\ Wallets \cap {"unused", "absent"} = {}
    /\ WalletOf \in [Stores -> Wallets]

VARIABLES mu,       \* where the bridge function that holds mu is waiting
          gw,       \* the Gateway object, or nil
          server,   \* their http.Server: "none" when nil
          socket,   \* what the serving goroutine of each has reached
          store,    \* the Store each was made with
          cfTunnel, \* the gateway whose tunnel is recorded, or nil
          process,  \* the cloudflared process started for each
          db,       \* the Store of the bridge, or nil
          open,     \* the Stores that are not closed
          key,      \* each key's row: in which wallet's file, if in any
          revoked,  \* the keys RevokeAPIKey has reported as revoked
          request

serverVars == <<server, socket, store>>
tunnelVars == <<cfTunnel, process>>
storeVars == <<db, open>>
keyVars == <<key, revoked>>
gatewayVars == <<mu, gw, server, socket, store, cfTunnel, process, db, open, key,
                 revoked, request>>

(* A request; "late" when it arrived after the revocation of its key had   *)
(* been reported.                                                          *)
Idle == [pc |-> "idle", gateway |-> NoGateway, key |-> NoKey, touch |-> NoKey, late |-> FALSE]

TypeOK ==
    /\ mu \in {"free", "binding", "bindingForTunnel", "tunnelling", "abandoning", "stopping"}
    /\ gw \in Gateways \cup {NoGateway}
    /\ server \in [Gateways -> {"none", "set"}]
    /\ socket \in [Gateways -> {"closed", "binding", "listening", "failed"}]
    /\ store \in [Gateways -> Stores \cup {NoStore}]
    /\ cfTunnel \in Gateways \cup {NoGateway}
    /\ process \in [Gateways -> {"none", "running", "dead"}]
    /\ db \in Stores \cup {NoStore}
    /\ open \subseteq Stores
    /\ key \in [Keys -> {"unused", "absent"} \cup Wallets]
    /\ revoked \subseteq Keys
    /\ request \in [Requests -> [pc : {"idle", "arrived", "comparing", "serving", "done"},
                                 gateway : Gateways \cup {NoGateway},
                                 key : Keys \cup {NoKey}, touch : Keys \cup {NoKey},
                                 late : BOOLEAN]]
    /\ \A g \in Gateways : server[g] = "set" => store[g] # NoStore

(* The app has called Init and OpenWalletDatabase; the settings screen is  *)
(* the caller of everything that follows.                                  *)
Init ==
    /\ mu = "free" /\ gw = NoGateway /\ cfTunnel = NoGateway
    /\ server = [g \in Gateways |-> "none"]
    /\ socket = [g \in Gateways |-> "closed"]
    /\ store = [g \in Gateways |-> NoStore]
    /\ process = [g \in Gateways |-> "none"]
    /\ db \in Stores
    /\ open = {db}
    /\ key = [k \in Keys |-> "unused"]
    /\ revoked = {}
    /\ request = [r \in Requests |-> Idle]
-----------------------------------------------------------------------------
(* Requests of a gateway whose handlers have not returned.                 *)
InFlight(g) == {r \in Requests : /\ request[r].pc \in {"arrived", "comparing", "serving"}
                              /\ request[r].gateway = g}

(* Gateway.Running, and what GatewayStatus tells the settings screen.      *)
Running(g) == g # NoGateway /\ server[g] = "set"
GatewayStatus == [running |-> Running(gw), url |-> cfTunnel]

(* Nothing refers to the object any more: a new one may take its name.     *)
Unused(g) ==
    /\ g # gw /\ g # cfTunnel
    /\ socket[g] \in {"closed", "failed"}
    /\ process[g] = "none"
    /\ \A r \in Requests : request[r].gateway # g

(* A gateway is only made with the Store of the bridge when there is one.  *)
WithAnyStore == TRUE  \* mutated: StartGateway does not look whether db is nil

WithStore == db # NoStore

(* StartGateway, up to the 100 ms in which it waits for a bind error.      *)
StartGateway(quickTunnel) ==
    /\ mu = "free"
    /\ WithStore
    /\ ~Running(gw)
    /\ \E g \in Gateways :
         /\ Unused(g)
         /\ gw' = g
         /\ server' = [server EXCEPT ![g] = "set"]
         /\ socket' = [socket EXCEPT ![g] = "binding"]
         /\ store' = [store EXCEPT ![g] = db]
    /\ mu' = IF quickTunnel THEN "bindingForTunnel" ELSE "binding"
    /\ UNCHANGED <<tunnelVars, storeVars, keyVars, request>>

(* The serving goroutine: it listens, or ListenAndServe returns an error,  *)
(* at once or at any time later.                                           *)
Listen(g) ==
    /\ socket[g] = "binding"
    /\ socket' = [socket EXCEPT ![g] = "listening"]
    /\ UNCHANGED <<mu, gw, server, store, tunnelVars, storeVars, keyVars, request>>

ServeFails(g) ==
    /\ socket[g] \in {"binding", "listening"}
    /\ socket' = [socket EXCEPT ![g] = "failed"]
    /\ UNCHANGED <<mu, gw, server, store, tunnelVars, storeVars, keyVars, request>>

(* Start sees the error in time: the server is dropped, gw stays set.      *)
StartFails ==
    /\ mu \in {"binding", "bindingForTunnel"}
    /\ socket[gw] = "failed"
    /\ server' = [server EXCEPT ![gw] = "none"]
    /\ mu' = "free"
    /\ UNCHANGED <<gw, socket, store, tunnelVars, storeVars, keyVars, request>>

StartReturns ==
    /\ mu = "binding"
    /\ mu' = "free"
    /\ UNCHANGED <<gw, serverVars, tunnelVars, storeVars, keyVars, request>>
-----------------------------------------------------------------------------
(* Gateway.Stop: Shutdown closes the socket at once and then waits up to   *)
(* five seconds for the requests in flight.  A goroutine that had not      *)
(* bound yet returns ErrServerClosed.                                      *)
KeepListening(g) == UNCHANGED socket  \* mutated: Stop only forgets the server

CloseSocket(g) ==
    socket' = [socket EXCEPT ![g] = IF @ \in {"binding", "listening"} THEN "closed" ELSE @]

(* StartQuickTunnel runs cloudflared and waits up to 90 s for its URL.     *)
StartCloudflared ==
    /\ mu = "bindingForTunnel"
    /\ process' = [process EXCEPT ![gw] = "running"]
    /\ mu' = "tunnelling"
    /\ UNCHANGED <<gw, serverVars, cfTunnel, storeVars, keyVars, request>>

(* The URL appears.  The deferred cancel ends the process's context, and   *)
(* the goroutine that os/exec keeps for it kills the process some time     *)
(* after StartGateway has returned.                                        *)
TunnelReady ==
    /\ mu = "tunnelling"
    /\ cfTunnel' = gw
    /\ mu' = "free"
    /\ UNCHANGED <<gw, serverVars, process, storeVars, keyVars, request>>

(* cloudflared is not installed or the address has no port: nothing was    *)
(* started.  It ends without a URL, or the 90 s pass: killed and reaped.   *)
(* Either way the gateway is stopped again.                                *)
TunnelFails ==
    /\ mu \in {"bindingForTunnel", "tunnelling"}
    /\ process' = [process EXCEPT ![gw] = "none"]
    /\ CloseSocket(gw)
    /\ mu' = "abandoning"
    /\ UNCHANGED <<gw, server, store, cfTunnel, storeVars, keyVars, request>>

(* It dies: by itself, or because its context was cancelled.               *)
CloudflaredDies(g) ==
    /\ process[g] = "running"
    /\ process' = [process EXCEPT ![g] = "dead"]
    /\ UNCHANGED <<mu, gw, serverVars, cfTunnel, storeVars, keyVars, request>>

\* Mutated: the server is stopped, the tunnel forgotten.
StopServerOnly ==
    /\ mu = "free"
    /\ Running(gw)
    /\ CloseSocket(gw)
    /\ mu' = "stopping"
    /\ UNCHANGED <<gw, server, store, tunnelVars, storeVars, keyVars, request>>

(* StopGateway: the tunnel first, killed and reaped, then the server.      *)
StopGateway ==
    /\ mu = "free"
    /\ gw # NoGateway
    /\ process' = [g \in Gateways |-> IF g = cfTunnel THEN "none" ELSE process[g]]
    /\ cfTunnel' = NoGateway
    /\ IF server[gw] = "none"
       THEN gw' = NoGateway /\ UNCHANGED <<mu, socket>>
       ELSE CloseSocket(gw) /\ mu' = "stopping" /\ UNCHANGED gw
    /\ UNCHANGED <<server, store, storeVars, keyVars, request>>

(* Shutdown returns in time.                                               *)
ShutdownDone ==
    /\ mu \in {"abandoning", "stopping"}
    /\ InFlight(gw) = {}
    /\ server' = [server EXCEPT ![gw] = "none"]
    /\ gw' = NoGateway
    /\ mu' = "free"
    /\ UNCHANGED <<socket, store, tunnelVars, storeVars, keyVars, request>>

ShutdownWithoutDeadline == ShutdownDone  \* mutated: Shutdown(context.Background())

(* Or the deadline passes first: StopGateway returns the error and leaves  *)
(* gw, StartGateway does not look at it.                                   *)
ShutdownDeadline ==
    /\ mu \in {"abandoning", "stopping"}
    /\ server' = [server EXCEPT ![gw] = "none"]
    /\ gw' = IF mu = "stopping" THEN gw ELSE NoGateway
    /\ mu' = "free"
    /\ UNCHANGED <<socket, store, tunnelVars, storeVars, keyVars, request>>
-----------------------------------------------------------------------------
(* OpenWalletDatabase closes the Store of the bridge and opens another, or *)
(* fails after the close.  A gateway keeps the one it was made with.       *)
OpenAfterClose == open \ {db}

OpenWalletDatabase(s) ==
    /\ mu = "free"
    /\ s \notin open
    /\ \A g \in Gateways : store[g] = s => Unused(g)
    /\ db' = s
    /\ open' = OpenAfterClose \cup {s}
    /\ UNCHANGED <<mu, gw, serverVars, tunnelVars, keyVars, request>>

OpenFails ==
    /\ mu = "free"
    /\ db' = NoStore
    /\ open' = OpenAfterClose
    /\ UNCHANGED <<mu, gw, serverVars, tunnelVars, keyVars, request>>

(* A key's secret is random: generated once, never again.                  *)
GenerateAPIKey(k) ==
    /\ mu = "free"
    /\ db # NoStore
    /\ key[k] = "unused"
    /\ key' = [key EXCEPT ![k] = WalletOf[db]]
    /\ UNCHANGED <<mu, gw, serverVars, tunnelVars, storeVars, revoked, request>>

(* A key of another wallet's file is not found: an error, nothing changes. *)
RevokeAPIKey(k) ==
    /\ mu = "free"
    /\ db # NoStore
    /\ key[k] = WalletOf[db]
    /\ key' = [key EXCEPT ![k] = "absent"]
    /\ revoked' = revoked \cup {k}
    /\ UNCHANGED <<mu, gw, serverVars, tunnelVars, storeVars, request>>
-----------------------------------------------------------------------------
Arrive(r, g, k) ==
    /\ request[r].pc = "idle"
    /\ socket[g] = "listening"
    /\ request' = [request EXCEPT ![r] = [pc |-> "arrived", gateway |-> g, key |-> k,
                                          touch |-> NoKey, late |-> k \in revoked]]
    /\ UNCHANGED <<mu, gw, serverVars, tunnelVars, storeVars, keyVars>>

(* ValidateAPIKey reads the row of the key from the gateway's Store.       *)
Found(k, s) == s \in open /\ key[k] = WalletOf[s]

LookUp(r) ==
    /\ request[r].pc = "arrived"
    /\ Found(request[r].key, store[request[r].gateway])
    /\ request' = [request EXCEPT ![r].pc = "comparing"]
    /\ UNCHANGED <<mu, gw, serverVars, tunnelVars, storeVars, keyVars>>

(* bcrypt compares what was read, authMiddleware lets the handler run and  *)
(* starts a goroutine that sets the key's last_used.  No lock is held and  *)
(* nothing is read again: the key may have been revoked, or the Store      *)
(* closed, since the row was read.                                         *)
Authorise(r) ==
    /\ request[r].pc = "comparing"
    /\ request' = [request EXCEPT ![r].pc = "serving", ![r].touch = request[r].key]
    /\ UNCHANGED <<mu, gw, serverVars, tunnelVars, storeVars, keyVars>>

(* 401; or 500 when the Store is closed before or while the row is read.   *)
Refuse(r) ==
    /\ \/ request[r].pc = "arrived" /\ ~Found(request[r].key, store[request[r].gateway])
       \/ request[r].pc = "comparing" /\ store[request[r].gateway] \notin open
    /\ request' = [request EXCEPT ![r] = Idle]
    /\ UNCHANGED <<mu, gw, serverVars, tunnelVars, storeVars, keyVars>>

Finish(r) ==
    /\ request[r].pc = "serving"
    /\ request' = [request EXCEPT ![r] = IF @.touch = NoKey THEN Idle ELSE [@ EXCEPT !.pc = "done"]]
    /\ UNCHANGED <<mu, gw, serverVars, tunnelVars, storeVars, keyVars>>

(* UpdateAPIKeyLastUsed: an UPDATE, which changes nothing when the row has *)
(* gone meanwhile.  The column itself is not modelled.                     *)
RowsAfterUpsert(k, s) == [key EXCEPT ![k] = WalletOf[s]]  \* mutated: INSERT OR REPLACE

RowsAfterTouch(k, s) == key

UpdateAPIKeyLastUsed(r) ==
    /\ request[r].touch # NoKey
    /\ key' = IF store[request[r].gateway] \in open
              THEN RowsAfterTouch(request[r].key, store[request[r].gateway]) ELSE key
    /\ request' = [request EXCEPT ![r] = IF @.pc = "done" THEN Idle ELSE [@ EXCEPT !.touch = NoKey]]
    /\ UNCHANGED <<mu, gw, serverVars, tunnelVars, storeVars, revoked>>
-----------------------------------------------------------------------------
Waiting ==
    StartFails \/ StartReturns \/ StartCloudflared \/ TunnelReady \/ TunnelFails
        \/ ShutdownDone \/ ShutdownDeadline

Next ==
    \/ \E quickTunnel \in BOOLEAN : StartGateway(quickTunnel)
    \/ StopGateway
    \/ Waiting
    \/ \E g \in Gateways : Listen(g) \/ ServeFails(g) \/ CloudflaredDies(g)
    \/ \E s \in Stores : OpenWalletDatabase(s)
    \/ OpenFails
    \/ \E k \in Keys : GenerateAPIKey(k) \/ RevokeAPIKey(k)
    \/ \E r \in Requests :
         \/ \E g \in Gateways, k \in Keys : Arrive(r, g, k)
         \/ LookUp(r) \/ Authorise(r) \/ Refuse(r) \/ Finish(r) \/ UpdateAPIKeyLastUsed(r)

Spec == Init /\ [][Next]_gatewayVars

(* Every wait of a bridge function ends at its own deadline: 100 ms, 90 s  *)
(* or five seconds.  Nothing is assumed of clients, who may keep their     *)
(* requests open, or of cloudflared.                                       *)
FairSpec == Spec /\ WF_gatewayVars(Waiting)
-----------------------------------------------------------------------------
(* Safety: what listens is the gateway that GatewayStatus reports and that *)
(* StopGateway stops, through failed starts, tunnels that do not come up   *)
(* and stops that time out: no server goes on that the user cannot see.    *)
ServingIsReachable ==
    \A g \in Gateways : socket[g] = "listening" => gw = g /\ Running(g)

(* Safety: the public URL is shown only beside a running gateway, and a    *)
(* cloudflared process that has not been reaped is the one StopGateway     *)
(* will reap or the one StartQuickTunnel is waiting for.                   *)
TunnelFollowsGateway ==
    /\ cfTunnel # NoGateway => cfTunnel = gw /\ Running(gw)
    /\ \A g \in Gateways : process[g] # "none" =>
          \/ g = cfTunnel
          \/ g = gw /\ mu = "tunnelling"

(* Action property: revoking a key blocks its further use.  The row by     *)
(* which a request is checked is read from the database that is open at    *)
(* that moment, where RevokeAPIKey could have deleted it (not from the     *)
(* file of a wallet the user has left while its gateway goes on running),  *)
(* and a request that arrives after the revocation was reported is never   *)
(* let in, whatever gateway, Store or late write of last_used it meets.    *)
(* One whose row was read just before may still be: the code admits it.    *)
RevocationBlocks ==
    [][\A r \in Requests :
          /\ request[r].pc = "arrived" /\ request'[r].pc = "comparing" =>
                db # NoStore /\ key[request[r].key] = WalletOf[db]
          /\ request[r].pc # "serving" /\ request'[r].pc = "serving" =>
                request[r].pc = "comparing" /\ ~request[r].late]_gatewayVars

(* Liveness: a bridge function that holds mu gives it back, although a     *)
(* request may never end and cloudflared never answer: until then every    *)
(* other call of the app waits.                                            *)
MuReturned == mu # "free" ~> mu = "free"
=============================================================================
