----------------------------- MODULE Addresses -----------------------------
(***************************************************************************)
(* Deposit addresses: issued once per user and asset from a counter of the *)
(* chain (src/routes/api_routes/alchemy_deposit.js), watched through a     *)
(* WebSocket that is opened again when it closes                           *)
(* (src/webhooks/alchemyWatcher.js), and retired after the BTC key was     *)
(* replaced (src/scripts/retire-btc-deposit-addresses.js).                 *)
(*                                                                         *)
(* An address is its chain, the key it derives from and its index.         *)
(***************************************************************************)
EXTENDS Integers, Sequences, FiniteSets

CONSTANTS
    Askers,       \* address requests at work at a time
    Owners,       \* users
    BscAssets,    \* assets of the bsc chain
    Todos,        \* what requests ask for: sequences of assets
    EvmKeys,      \* forms of the EVM key: subset of {"xpub", "single"}
    MaxIssued,    \* bound: indexes taken of a chain
    MaxAsked,     \* bound: address requests
    MaxEvents     \* bound: closings, restarts and runs of the script together

Assets == {"BTC"} \cup BscAssets
ChainOf(asset) == IF asset = "BTC" THEN "btc" ELSE "bsc"

ASSUME AddressesAssumption ==
    /\ "BTC" \notin BscAssets
    /\ \A todo \in Todos : todo \in Seq(Assets) /\ todo # <<>>
    /\ EvmKeys \subseteq {"xpub", "single"}
    /\ MaxIssued \in Nat /\ MaxAsked \in Nat /\ MaxEvents \in Nat

VARIABLES
    evmKey,      \* the form of the EVM key
    btcKey,      \* the BTC account key the process started with, 0 when none
    nextIndex,   \* DerivationCounter
    addresses,   \* WalletAddress rows
    asking,      \* requests at work
    ws,          \* the WebSocket: its state and subscriptions
    retiring,    \* the script: rows it read, the key, and whether it has run
    told,        \* history: answers
    requested,   \* requests so far
    events       \* closings, restarts and script runs so far

addrVars == <<evmKey, btcKey, nextIndex, addresses, asking, ws, retiring, told, requested, events>>

Idle == [at |-> "none"]

\* One counter per chain and one row per address are never broken; the rest
\* are the types.
AddrTypeOK ==
    /\ evmKey \in EvmKeys /\ btcKey \in 0..2
    /\ nextIndex \in [{"btc", "bsc"} -> 0..MaxIssued]
    /\ \A r \in addresses : r.owner \in Owners /\ r.asset \in Assets /\ r.retired \in BOOLEAN
    /\ \A r, s \in addresses : r.addr = s.addr => r = s
    /\ \A a \in Askers : asking[a].at \in {"none", "find", "index", "create"}
    /\ ws.state \in {"connecting", "open", "closed"} /\ ws.loaded \in BOOLEAN
    /\ requested \in 0..MaxAsked /\ events \in 0..MaxEvents

Connecting(w) == [w EXCEPT !.state = "connecting", !.loaded = FALSE, !.subs = {}]

AddrInit ==
    /\ evmKey \in EvmKeys /\ btcKey \in {0, 1}
    /\ evmKey = "single" => btcKey = 1
    /\ nextIndex = [c \in {"btc", "bsc"} |-> 0]
    /\ addresses = {}
    /\ asking = [a \in Askers |-> Idle]
    /\ ws = [state |-> "connecting", loaded |-> FALSE, subs |-> {}]
    /\ retiring = [read |-> {}, key |-> 0, ranFor |-> 0]
    /\ told = {}
    /\ requested = 0
    /\ events = 0

----------------------------------------------------------------------------
(* Requests: GET /:userId/:asset asks for one asset, GET /:userId for all. *)

\* An answer, with the key the script has run for when it is the server's.
Answer(owner, asset, addr) ==
    [owner |-> owner, asset |-> asset, addr |-> addr,
     key |-> IF asset = "BTC" /\ retiring.ranFor = btcKey THEN btcKey ELSE 0]

\* The next asset of a request, or the end.
Advance(a, q) ==
    asking' = [asking EXCEPT ![a] =
        IF Len(q.todo) = 1 THEN Idle ELSE [q EXCEPT !.todo = Tail(q.todo)]]

\* Mutation of IsReissued: a retired address is found, too.
IsReissuedAny(r, owner, asset) == r.owner = owner /\ r.asset = asset

\* Mutation of IsReissued: any owner's address is found.
IsReissuedOfAnyone(r, owner, asset) == r.asset = asset /\ ~r.retired

\* findOne({ userId, asset, chain, retiredAt: null })
IsReissued(r, owner, asset) == r.owner = owner /\ r.asset = asset /\ ~r.retired

FindAddress(a, q) ==
    LET asset == Head(q.todo)
        found == {r \in addresses : IsReissued(r, q.owner, asset)}
    IN  \/ \E r \in found :
              /\ told' = told \cup {Answer(q.owner, asset, r.addr)}
              /\ Advance(a, q)
        \/ /\ found = {} /\ asset = "BTC" /\ btcKey = 0
           /\ Advance(a, q) /\ UNCHANGED told
        \/ /\ found = {} /\ (asset = "BTC" => btcKey # 0)
           /\ asking' = [asking EXCEPT ![a] = [q EXCEPT !.at = "index"]] /\ UNCHANGED told

AskAddress(a, owner, todo) ==
    /\ asking[a].at = "none"
    /\ requested < MaxAsked /\ requested' = requested + 1
    /\ FindAddress(a, [at |-> "find", owner |-> owner, todo |-> todo, addr |-> <<>>,
                       here |-> FALSE])
    /\ UNCHANGED <<evmKey, btcKey, nextIndex, addresses, ws, retiring, events>>

\* The loop of GET /:userId goes on.
NextAsset(a) ==
    /\ asking[a].at = "find"
    /\ FindAddress(a, asking[a])
    /\ UNCHANGED <<evmKey, btcKey, nextIndex, addresses, ws, retiring, requested, events>>

\* deriveEvmDepositAddress, deriveBtcDepositAddress: a single EVM wallet has
\* one address, whatever the index.
AddressAt(chain, i) ==
    IF chain = "btc" THEN <<"btc", btcKey, i>>
    ELSE <<"bsc", 0, IF evmKey = "single" THEN 0 ELSE i>>

\* subscribeAddress: nothing when the socket is not open.
Subscribed(w, addr) == IF w.state = "open" THEN [w EXCEPT !.subs = @ \cup {addr}] ELSE w

\* Mutation of TakenIndex: the counter is read and not moved.
TakenIndexKept(chain) == nextIndex

TakenIndex(chain) == [nextIndex EXCEPT ![chain] = @ + 1]

\* getNextIndexForChain, then the address is derived and watched.
TakeIndex(a) ==
    LET q == asking[a]
        chain == ChainOf(Head(q.todo))
        addr == AddressAt(chain, nextIndex[chain])
    IN  /\ q.at = "index"
        /\ nextIndex[chain] < MaxIssued
        /\ nextIndex' = TakenIndex(chain)
        /\ ws' = IF chain = "bsc" THEN Subscribed(ws, addr) ELSE ws
        /\ asking' = [asking EXCEPT ![a] = [q EXCEPT !.at = "create", !.addr = addr,
               !.here = (chain = "bsc" /\ ws.state = "open")]]
        /\ UNCHANGED <<evmKey, btcKey, addresses, retiring, told, requested, events>>

\* Mutation of Collides: the address is not unique.
CollidesNever(addr) == FALSE

Collides(addr) == \E r \in addresses : r.addr = addr

\* Mutation of RowMade: the answer does not wait for the row, which fails.
RowMadeNone(q, asset) == {}

RowMade(q, asset) ==
    {[owner |-> q.owner, asset |-> asset, addr |-> q.addr, retired |-> FALSE,
      \* history: asked for on another connection
      late |-> asset # "BTC" /\ ws.loaded /\ ~q.here]}

\* WalletAddress.create, then the answer.  When it collides the request fails,
\* what it was told for other assets included.
CreateAddress(a) ==
    LET q == asking[a]
        asset == Head(q.todo)
    IN  /\ q.at = "create"
        /\ IF Collides(q.addr)
           THEN /\ asking' = [asking EXCEPT ![a] = Idle]
                /\ UNCHANGED <<addresses, told>>
           ELSE /\ addresses' = addresses \cup RowMade(q, asset)
                /\ told' = told \cup {Answer(q.owner, asset, q.addr)}
                /\ Advance(a, [q EXCEPT !.at = "find", !.addr = <<>>])
        /\ UNCHANGED <<evmKey, btcKey, nextIndex, ws, retiring, requested, events>>

----------------------------------------------------------------------------
(* The WebSocket. *)

\* 'open': the backoff starts again and the rows are asked for.
SocketOpens ==
    /\ ws.state = "connecting"
    /\ ws' = [ws EXCEPT !.state = "open"]
    /\ UNCHANGED <<evmKey, btcKey, nextIndex, addresses, asking, retiring, told, requested, events>>

\* Mutation of Loaded: rows that were watched before are not subscribed again.
LoadedNone == {}

\* The rows a new connection subscribes.
Loaded == {r.addr : r \in {r \in addresses : r.addr[1] = "bsc"}}

LoadRows ==
    /\ ws.state = "open" /\ ~ws.loaded
    /\ ws' = [ws EXCEPT !.loaded = TRUE, !.subs = @ \cup Loaded]
    /\ addresses' = {[r EXCEPT !.late = FALSE] : r \in addresses}
    /\ UNCHANGED <<evmKey, btcKey, nextIndex, asking, retiring, told, requested, events>>

\* 'error' and 'close'; how long the timer waits is left out.
SocketCloses ==
    /\ ws.state # "closed"
    /\ events < MaxEvents /\ events' = events + 1
    /\ ws' = [ws EXCEPT !.state = "closed", !.loaded = FALSE, !.subs = {}]
    /\ asking' = [a \in Askers |-> IF asking[a].at = "create"
                                   THEN [asking[a] EXCEPT !.here = FALSE] ELSE asking[a]]
    /\ UNCHANGED <<evmKey, btcKey, nextIndex, addresses, retiring, told, requested>>

\* The timer of scheduleReconnect.
Reconnect ==
    /\ ws.state = "closed"
    /\ ws' = Connecting(ws)
    /\ UNCHANGED <<evmKey, btcKey, nextIndex, addresses, asking, retiring, told, requested, events>>

----------------------------------------------------------------------------
(* Restarts and the script. *)

\* The process starts again, perhaps with another BTC key; its requests are lost.
RestartIssuer ==
    /\ events < MaxEvents /\ events' = events + 1
    /\ btcKey' \in {btcKey, 2}
    /\ asking' = [a \in Askers |-> Idle]
    /\ ws' = Connecting(ws)
    /\ UNCHANGED <<evmKey, nextIndex, addresses, retiring, told, requested>>

\* The script of the operator, with the key the server now runs with, reads
\* the active BTC addresses of other keys.
RetireReads ==
    /\ events < MaxEvents /\ events' = events + 1
    /\ btcKey # 0 /\ retiring.key = 0
    /\ retiring' = [retiring EXCEPT !.key = btcKey,
           !.read = {r.addr : r \in {r \in addresses :
                        r.asset = "BTC" /\ ~r.retired /\ r.addr[2] # btcKey}}]
    /\ UNCHANGED <<evmKey, btcKey, nextIndex, addresses, asking, ws, told, requested>>

RetireWrites ==
    /\ retiring.key # 0
    /\ addresses' = {[r EXCEPT !.retired = @ \/ r.addr \in retiring.read] : r \in addresses}
    /\ retiring' = [read |-> {}, key |-> 0, ranFor |-> retiring.key]
    /\ UNCHANGED <<evmKey, btcKey, nextIndex, asking, ws, told, requested, events>>

AddrNext ==
    \/ \E a \in Askers :
        \/ \E o \in Owners, todo \in Todos : AskAddress(a, o, todo)
        \/ NextAsset(a) \/ TakeIndex(a) \/ CreateAddress(a)
    \/ SocketOpens \/ LoadRows \/ SocketCloses \/ Reconnect
    \/ RestartIssuer \/ RetireReads \/ RetireWrites

AddrSpec == AddrInit /\ [][AddrNext]_addrVars

----------------------------------------------------------------------------
(* Properties *)

\* An address is told to one user for one asset only, also when requests
\* overlap and when there is a single EVM wallet: what arrives there is credited
\* to the user of the row.
ToldToOne ==
    \A t, u \in told : t.addr = u.addr => t.owner = u.owner /\ t.asset = u.asset

\* What was told is in the rows the watchers attribute deposits by, and stays
\* there when it is retired ("the record is kept", WalletAddress.js:45-48).
ToldIsKept ==
    \A t \in told : \E r \in addresses :
        r.addr = t.addr /\ r.owner = t.owner /\ r.asset = t.asset

\* "Each affected user gets a new address from the current key"
\* (retire-btc-deposit-addresses.js:80): once the script ran for the key of the
\* server, no BTC address of another key is told.
ToldFromCurrentKey ==
    \A t \in told : t.asset = "BTC" /\ t.key # 0 => t.addr[2] = t.key

\* No request fails because its address is taken, unless there is a single EVM
\* wallet: the counter gives every index once, to requests that overlap, too.
IndexIsFree ==
    \A a, b \in Askers :
        asking[a].at = "create" /\ (evmKey = "xpub" \/ asking[a].addr[1] = "btc") =>
            /\ ~\E r \in addresses : r.addr = asking[a].addr
            /\ asking[b].at = "create" /\ asking[a].addr = asking[b].addr => a = b

\* After a reconnect or a restart, every bsc address is subscribed on the new
\* connection; an address asked for across the reconnect may be missed.
SubscribedAgain ==
    ws.loaded =>
        \A r \in addresses : r.addr[1] = "bsc" /\ ~r.late => r.addr \in ws.subs

\* An address belongs to one user for good, and what is paid to it is noticed.
AddressesAreKept ==
    /\ ToldToOne /\ ToldIsKept /\ ToldFromCurrentKey
    /\ IndexIsFree /\ SubscribedAgain
=============================================================================
