------------------------------ MODULE ConnPool ------------------------------
(***************************************************************************)
(* The bounded PostgreSQL connection pool and the tenant-bound transaction *)
(* every store runs through it (internal/pg, Pool; internal/dash/db, Store *)
(* .bind, which internal/pgstore and internal/pgoutbox mirror).  A server  *)
(* session keeps its transaction and its transaction-local tenant setting; *)
(* a connection may die at any time.                                       *)
(***************************************************************************)
EXTENDS Integers, FiniteSets

CONSTANTS
    Conn,           \* connection identities, reused after a close
    Client,         \* goroutines that run one transaction after another
    Tenant,
    Nobody,         \* app.current_tenant is not set
    NoConn,
    MaxOpen             \* the pool's cap

VARIABLES
    session,        \* the server side of each open connection
    free,           \* the idle channel
    tokens,         \* permissions to open a connection
    client,
    closed          \* Close: "no", "draining" or "yes"

poolVars == <<session, free, tokens, client, closed>>

ASSUME PoolAssumption ==
    /\ MaxOpen \in Nat \ {0}
    /\ Nobody \notin Tenant
    /\ NoConn \notin Conn
    /\ IsFiniteSet(Conn) /\ IsFiniteSet(Client)

Shut == [live |-> FALSE, open |-> FALSE, txn |-> "none", tenant |-> Nobody]
Fresh == [live |-> TRUE, open |-> TRUE, txn |-> "none", tenant |-> Nobody]

Done == [pc |-> "idle", conn |-> NoConn, tenant |-> Nobody, broken |-> FALSE]

PoolInit ==
    /\ session = [c \in Conn |-> Shut]
    /\ free = {}
    /\ tokens = MaxOpen
    /\ client = [k \in Client |-> Done]
    /\ closed = "no"

-----------------------------------------------------------------------------
(* Pool.Get *)

Holding(k, c) == [client[k] EXCEPT !.pc = "begin", !.conn = c]

WrongReceived(c) == free

Received(c) == free \ {c}

Take(k, c) ==
    /\ c \in free
    /\ free' = Received(c)
    /\ client' = [client EXCEPT ![k] = Holding(k, c)]
    /\ UNCHANGED <<session, tokens, closed>>

(* The principal's tenant comes with the request.                            *)
Enter(k, t) ==
    /\ client[k].pc = "idle"
    /\ client' = [client EXCEPT ![k] = [Done EXCEPT !.pc = "get", !.tenant = t]]
    /\ UNCHANGED <<session, free, tokens, closed>>

(* The fast path finds an idle connection or goes on to wait.                *)
GetFast(k) ==
    /\ client[k].pc = "get"
    /\ \/ \E c \in free : Take(k, c)
       \/ /\ free = {}
          /\ client' = [client EXCEPT ![k].pc = "wait"]
          /\ UNCHANGED <<session, free, tokens, closed>>

WrongGetIdle(k) == FALSE

GetIdle(k) == client[k].pc = "wait" /\ \E c \in free : Take(k, c)

CanOpen == tokens > 0

GetToken(k) ==
    /\ client[k].pc = "wait"
    /\ CanOpen
    /\ tokens' = tokens - 1
    /\ client' = [client EXCEPT ![k].pc = "dial"]
    /\ UNCHANGED <<session, free, closed>>

GetCancelled(k) ==
    /\ client[k].pc = "wait"
    /\ client' = [client EXCEPT ![k] = Done]
    /\ UNCHANGED <<session, free, tokens, closed>>

Dial(k) ==
    /\ client[k].pc = "dial"
    /\ \E c \in Conn :
         /\ ~session[c].open
         /\ session' = [session EXCEPT ![c] = Fresh]
         /\ client' = [client EXCEPT ![k] = Holding(k, c)]
    /\ UNCHANGED <<free, tokens, closed>>

(* returnToken never blocks.                                                 *)
TokenBack == IF tokens < MaxOpen THEN tokens + 1 ELSE tokens

DialFails(k) ==
    /\ client[k].pc = "dial"
    /\ tokens' = TokenBack
    /\ client' = [client EXCEPT ![k] = Done]
    /\ UNCHANGED <<session, free, closed>>

-----------------------------------------------------------------------------
(* Store.bind: begin, set_config, the body, commit or rollback, Put *)

(* One statement on the client's connection: the server runs it (and moves   *)
(* its session to s), or the connection turns out to be dead.                *)
Runs(k, s, pc) ==
    /\ session[client[k].conn].live
    /\ session' = [session EXCEPT ![client[k].conn] = s]
    /\ client' = [client EXCEPT ![k].pc = pc]
    /\ UNCHANGED <<free, tokens, closed>>

DeadWire(k, pc, broken) ==
    /\ ~session[client[k].conn].live
    /\ client' = [client EXCEPT ![k].pc = pc, ![k].broken = broken]
    /\ UNCHANGED <<session, free, tokens, closed>>

Begin(k) ==
    LET s == session[client[k].conn] IN
    /\ client[k].pc = "begin"
    /\ \/ Runs(k, [s EXCEPT !.txn = "open"], "bind")
       \/ DeadWire(k, "put", TRUE)

Bind(k) ==
    LET s == session[client[k].conn] IN
    /\ client[k].pc = "bind"
    /\ \/ Runs(k, [s EXCEPT !.tenant = client[k].tenant], "body")
       \/ DeadWire(k, "rollback", FALSE)

(* The body ends well, or with an error of a statement or of its own.        *)
Body(k) ==
    LET s == session[client[k].conn] IN
    /\ client[k].pc = "body"
    /\ \/ Runs(k, s, "commit")
       \/ Runs(k, [s EXCEPT !.txn = "aborted"], "rollback")
       \/ Runs(k, s, "rollback")
       \/ DeadWire(k, "rollback", FALSE)

WrongEnded(s) == [s EXCEPT !.txn = "none"]

(* The end of a transaction resets what was set for it alone.                *)
Ended(s) == [s EXCEPT !.txn = "none", !.tenant = Nobody]

(* The error of a rollback is ignored.                                       *)
Rollback(k) ==
    /\ client[k].pc = "rollback"
    /\ \/ Runs(k, Ended(session[client[k].conn]), "put")
       \/ DeadWire(k, "put", FALSE)

(* A commit may be refused by the server; either way a failed one discards   *)
(* the connection.                                                           *)
Commit(k) ==
    LET c == client[k].conn IN
    /\ client[k].pc = "commit"
    /\ \/ Runs(k, Ended(session[c]), "put")
       \/ /\ session[c].live
          /\ session' = [session EXCEPT ![c] = Ended(session[c])]
          /\ client' = [client EXCEPT ![k].pc = "put", ![k].broken = TRUE]
          /\ UNCHANGED <<free, tokens, closed>>
       \/ DeadWire(k, "put", TRUE)

Put(k) ==
    LET c == client[k].conn IN
    /\ client[k].pc = "put"
    /\ client' = [client EXCEPT ![k] = Done]
    /\ IF client[k].broken \/ Cardinality(free) = MaxOpen
       THEN /\ session' = [session EXCEPT ![c] = Shut]
            /\ tokens' = TokenBack
            /\ UNCHANGED free
       ELSE /\ free' = free \cup {c}
            /\ UNCHANGED <<session, tokens>>
    /\ UNCHANGED closed

-----------------------------------------------------------------------------
(* Pool.Close marks the pool and closes what is idle, one by one.            *)
Close ==
    /\ closed = "no"
    /\ closed' = "draining"
    /\ UNCHANGED <<session, free, tokens, client>>

CloseOne ==
    /\ closed = "draining"
    /\ \/ \E c \in free :
            /\ free' = free \ {c}
            /\ session' = [session EXCEPT ![c] = Shut]
            /\ UNCHANGED closed
       \/ /\ free = {}
          /\ closed' = "yes"
          /\ UNCHANGED <<session, free>>
    /\ UNCHANGED <<tokens, client>>

(* The server or the network drops a connection; the server rolls back.      *)
Die(c) ==
    /\ session[c].live
    /\ session' = [session EXCEPT ![c] = [Shut EXCEPT !.open = TRUE]]
    /\ UNCHANGED <<free, tokens, client, closed>>

Work(k) ==
    \/ GetFast(k) \/ Dial(k) \/ DialFails(k) \/ Begin(k) \/ Bind(k) \/ Body(k)
    \/ Rollback(k) \/ Commit(k) \/ Put(k)

Served(k) == GetIdle(k) \/ GetToken(k)

PoolNext ==
    \/ \E k \in Client : Work(k) \/ Served(k) \/ GetCancelled(k) \/ \E t \in Tenant : Enter(k, t)
    \/ \E c \in Conn : Die(c)
    \/ Close \/ CloseOne

PoolSpec == PoolInit /\ [][PoolNext]_poolVars

-----------------------------------------------------------------------------
(* Properties *)

Pc == {"idle", "get", "wait", "dial", "begin", "bind", "body", "rollback", "commit", "put"}
Owning == {"begin", "bind", "body", "rollback", "commit", "put"}

(* Every variable keeps its type.                                            *)
PoolTypeOK ==
    /\ session \in [Conn -> [live : BOOLEAN, open : BOOLEAN, txn : {"none", "open", "aborted"},
                             tenant : Tenant \cup {Nobody}]]
    /\ free \subseteq Conn
    /\ tokens \in 0 .. MaxOpen
    /\ client \in [Client -> [pc : Pc, conn : Conn \cup {NoConn}, tenant : Tenant \cup {Nobody},
                              broken : BOOLEAN]]
    /\ closed \in {"no", "draining", "yes"}

Open == {c \in Conn : session[c].open}
Dialing == {k \in Client : client[k].pc = "dial"}

(* A token bounds the open connections to MaxOpen, and none is ever lost: until  *)
(* Close, every token is idle, being dialled with, or held by a connection.  *)
TokensBalance ==
    /\ Cardinality(Open) + Cardinality(Dialing) <= MaxOpen
    /\ closed = "no" => tokens + Cardinality(Open) + Cardinality(Dialing) = MaxOpen

Owns(k, c) == client[k].pc \in Owning /\ client[k].conn = c

(* No two owners and no leak: an open connection is idle or in the hands of  *)
(* exactly one client, a closed one belongs to nobody.                       *)
OneOwner ==
    \A c \in Conn :
        /\ c \in free => ~\E k \in Client : Owns(k, c)
        /\ \A k, l \in Client : Owns(k, c) /\ Owns(l, c) => k = l
        /\ session[c].open <=> c \in free \/ \E k \in Client : Owns(k, c)

(* Tokens, idle connections and owners agree at every step.                  *)
PoolConsistent == PoolTypeOK /\ TokensBalance /\ OneOwner

(* G1: a body runs under its own tenant, and an idle connection carries      *)
(* neither a transaction nor a tenant into the next request.                 *)
NoTenantLeak ==
    /\ \A c \in free : session[c].txn = "none" /\ session[c].tenant = Nobody
    /\ \A k \in Client : client[k].pc \in {"body", "commit"} /\ session[client[k].conn].live
                         => session[client[k].conn].tenant = client[k].tenant

(* Tokens, idle connections and owners agree, and no transaction runs under  *)
(* another tenant's setting (internal/pg Pool, db.Store).                    *)
PoolSafe == PoolConsistent /\ NoTenantLeak

(* Nobody waits for ever: a waiting request gets a connection, gives up, or  *)
(* the pool was closed.                                                      *)
WaitersServed == \A k \in Client : []<>(client[k].pc # "wait" \/ closed # "no")

-----------------------------------------------------------------------------
(* Inductive strengthening *)

Clean(c) == session[c].txn = "none" /\ session[c].tenant = Nobody

(* A dead session has nothing left, one about to be handed back neither, and *)
(* whoever owns a connection names it.                                       *)
Quiet ==
    /\ \A c \in Conn : (~session[c].live => Clean(c)) /\ (session[c].live => session[c].open)
    /\ \A k \in Client : client[k].pc = "put" => Clean(client[k].conn)
    /\ \A k \in Client : client[k].pc \in Owning => client[k].conn \in Conn

(* After Close, closed idle connections no longer return their token.        *)
Balance ==
    /\ tokens + Cardinality(Open) + Cardinality(Dialing) <= MaxOpen
    /\ closed = "no" => tokens + Cardinality(Open) + Cardinality(Dialing) = MaxOpen

PoolInv == PoolTypeOK /\ Quiet /\ OneOwner /\ NoTenantLeak /\ Balance
=============================================================================
