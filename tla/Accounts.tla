------------------------------ MODULE Accounts ------------------------------
(***************************************************************************)
(* What a user owns in the backend, src/src: subscriptions                 *)
(* (SubscriptionsService), the terminals paired by one-time codes          *)
(* (PairingService for MetaTrader 5, CbotService.claim for cTrader cBots,  *)
(* AgentsService.heartbeat for trading accounts) and the connections       *)
(* authorised by one-time links (CTraderService).                          *)
(*                                                                         *)
(* As in TradeJobs a request is what it reads and decides, then what it    *)
(* writes; a transaction, or one conditional updateMany, is a step.        *)
(***************************************************************************)
EXTENDS Integers, Sequences, FiniteSets

CONSTANTS User,
          Handler,     \* requests the backend serves at a time
          Code,        \* the pairing codes and OAuth links ever issued
          Device,      \* an MT5 deviceId, or a cTrader broker account
          Account,     \* an MT5 login at a server
          Nobody,
          Term,        \* [Plan -> Nat], durationDays
          MaxAccounts, \* [Plan -> Nat], entitlement.maxAccounts
          Enforced,    \* SUBSCRIPTIONS_ENFORCED
          Overlap,     \* two users may be first on one device or account together
          MaxTime,     \* bound on the clock
          MaxGrants,   \* bound on the subscriptions of all users together
          MaxTrouble   \* bound on restarts and lost answers

Plan == {"TRIAL", "PRO"}

ASSUME AccountsAssumption ==
  /\ Nobody \notin User \cup Code \cup ({"cbot", "agent"} \X Device)
  /\ {Term, MaxAccounts} \subseteq [Plan -> Nat]
  /\ {Enforced, Overlap} \subseteq BOOLEAN
  /\ {MaxTime, MaxGrants, MaxTrouble} \subseteq Nat

VARIABLES
  now,
  subs,     \* subs[u]: the user's Subscription rows, in order of createdAt
  code,     \* PairingCode, CbotPairingCode and CTraderOAuthState rows
  uses,     \* history: how many tokens or connections each code has yielded
  place,    \* Agent and CbotInstance rows: owner, and whose code gave the token
  account,  \* TradingAccount rows: owner, and the agent it hangs on
  conn,     \* CTraderConnection rows, named by the link they came from; what
            \* cTrader's server takes as the refresh token is server
  linked,   \* linked[u]: the connection of the user's CTraderAccount
  lost,     \* history: connections whose new tokens never arrived
  handler,  \* handler[h]: the request h has read and not yet written
  trouble

pairing == <<place, account>>
oauth   == <<conn, linked, lost>>
codes   == <<code, uses>>
env     == <<now, trouble>>
vars    == <<env, subs, codes, pairing, oauth, handler>>

Place == {"cbot", "agent"} \X Device

\* PAST_DUE is read together with TRIAL and ACTIVE, and written nowhere.
Live      == {"TRIAL", "ACTIVE"}
SubStatus == Live \cup {"SUSPENDED", "CANCELED", "EXPIRED"}

Idle == [op |-> "idle"]

Request ==
  {Idle}
    \cup [op : {"grant"}, user : User, plan : Plan, until : Nat]
    \cup [op : {"granting"}, user : User, plan : Plan, until : Nat, replaced : SUBSET Nat]
    \cup [op : {"set"}, user : User, sub : Nat, status : {"SUSPENDED", "EXPIRED"}]
    \cup [op : {"claim"}, code : Code, place : Place]
    \cup [op : {"beat"}, place : Place, account : Account]
    \cup [op : {"complete", "exchange", "discover"}, code : Code]
    \cup [op : {"refresh", "store"}, code : Code, token : Nat]

SubRow     == [status : SubStatus, plan : Plan, until : Nat]
CodeRow    == [kind : {"none", "cbot", "agent", "oauth"}, user : User \cup {Nobody},
               until : Nat, used : BOOLEAN]
PlaceRow   == [owner : User \cup {Nobody}, holder : User \cup {Nobody}]
AccountRow == [owner : User \cup {Nobody}, via : Place \cup {Nobody}]
ConnRow    == [status : {"none", "PENDING", "ACTIVE", "ERROR"},
               stored : Nat, server : Nat, fresh : BOOLEAN]

TypeOK ==
  /\ now \in 0 .. MaxTime /\ trouble \in 0 .. MaxTrouble
  /\ subs \in [User -> Seq(SubRow)]
  /\ code \in [Code -> CodeRow] /\ uses \in [Code -> Nat]
  /\ place \in [Place -> PlaceRow] /\ account \in [Account -> AccountRow]
  /\ conn \in [Code -> ConnRow] /\ linked \in [User -> Code \cup {Nobody}]
  /\ lost \subseteq Code
  /\ handler \in [Handler -> Request]

Init ==
  /\ now = 0 /\ trouble = 0
  /\ subs = [u \in User |-> <<>>]
  /\ code = [c \in Code |-> [kind |-> "none", user |-> Nobody, until |-> 0, used |-> FALSE]]
  /\ uses = [c \in Code |-> 0]
  /\ place = [p \in Place |-> [owner |-> Nobody, holder |-> Nobody]]
  /\ account = [a \in Account |-> [owner |-> Nobody, via |-> Nobody]]
  /\ conn = [c \in Code |-> [status |-> "none", stored |-> 0, server |-> 0, fresh |-> FALSE]]
  /\ linked = [u \in User |-> Nobody]
  /\ lost = {}
  /\ handler = [h \in Handler |-> Idle]

Serve(h, request) == handler[h] = Idle /\ handler' = [handler EXCEPT ![h] = request]
Becomes(h, request) == handler' = [handler EXCEPT ![h] = request]
Done(h) == Becomes(h, Idle)

-----------------------------------------------------------------------------
(* Subscriptions.                                                          *)

\* findFirst, newest first, among the rows of u with one of these statuses: one
\* row or none.
Newest(u, statuses) ==
  LET rows == {i \in DOMAIN subs[u] : subs[u][i].status \in statuses}
  IN  {i \in rows : \A j \in rows : j <= i}

\* MaxGrants counts the rows there are and those on the way.
Room ==
  Cardinality({r \in User \X (1 .. MaxGrants) : r[2] \in DOMAIN subs[r[1]]})
    + Cardinality({h \in Handler : handler[h].op \in {"grant", "granting"}}) < MaxGrants

\* ensureTrial finds no subscription; an administrator grants any plan.  The
\* period runs from here, whenever the transaction gets its turn.
BeginGrant(h, u, plan) ==
  /\ Room
  /\ plan = "TRIAL" \/ subs[u] # <<>>
  /\ Serve(h, [op |-> "grant", user |-> u, plan |-> plan, until |-> now + Term[plan]])
  /\ UNCHANGED <<env, subs, codes, pairing, oauth>>

\* The transaction of grantToUser: the rows it cancels are those its first
\* statement sees ...
OpenGrant(h) ==
  /\ handler[h].op = "grant"
  /\ LET r == handler[h]
     IN  Becomes(h, [op |-> "granting", user |-> r.user, plan |-> r.plan, until |-> r.until,
           replaced |-> {i \in DOMAIN subs[r.user] : subs[r.user][i].status \in Live}])
  /\ UNCHANGED <<env, subs, codes, pairing, oauth>>

\* ... and that are still live when it has their locks.
CommitGrant(h) ==
  /\ handler[h].op = "granting"
  /\ LET r == handler[h]
         left == [i \in DOMAIN subs[r.user] |->
                    IF i \in r.replaced /\ subs[r.user][i].status \in Live
                      THEN [subs[r.user][i] EXCEPT !.status = "CANCELED"] ELSE subs[r.user][i]]
     IN  subs' = [subs EXCEPT ![r.user] = Append(left,
           [status |-> IF r.plan = "TRIAL" THEN "TRIAL" ELSE "ACTIVE",
            plan |-> r.plan, until |-> r.until])]
  /\ Done(h)
  /\ UNCHANGED <<env, codes, pairing, oauth>>

\* suspendByTelegramId: the newest live row.
BeginSuspend(h, u) ==
  /\ \E i \in Newest(u, Live) :
       Serve(h, [op |-> "set", user |-> u, sub |-> i, status |-> "SUSPENDED"])
  /\ UNCHANGED <<env, subs, codes, pairing, oauth>>

\* The row that counts for u: a suspension hides the older ones.
Current(u) == Newest(u, Live \cup {"SUSPENDED"})

\* currentForUser, called by every poll of a cBot and every check of a limit,
\* finds that the current row has ended.
BeginLapse(h, u) ==
  /\ \E i \in Current(u) :
       /\ subs[u][i].status \in Live /\ subs[u][i].until <= now
       /\ Serve(h, [op |-> "set", user |-> u, sub |-> i, status |-> "EXPIRED"])
  /\ UNCHANGED <<env, subs, codes, pairing, oauth>>

\* Mutant: the lapse is written over every live row of the user.
SetOfUser(r) ==
  [i \in DOMAIN subs[r.user] |->
     IF subs[r.user][i].status \in Live THEN [subs[r.user][i] EXCEPT !.status = r.status]
                                        ELSE subs[r.user][i]]

\* Both are written by the row's id, whatever its status has become.
SetById(r) == [subs[r.user] EXCEPT ![r.sub].status = r.status]

CommitSet(h) ==
  /\ handler[h].op = "set"
  /\ subs' = [subs EXCEPT ![handler[h].user] = SetById(handler[h])]
  /\ Done(h)
  /\ UNCHANGED <<env, codes, pairing, oauth>>

\* assertCanPairAccount for one more cBot account.  No code writes REVOKED.
MayPair(u) ==
  Enforced =>
    \E i \in Current(u) :
      /\ subs[u][i].status \in Live /\ now < subs[u][i].until
      /\ Cardinality({d \in Device : place[<<"cbot", d>>].owner = u})
           < MaxAccounts[subs[u][i].plan]

-----------------------------------------------------------------------------
(* One-time codes, pairing and heartbeats.                                 *)

\* PairingService.create, createPairingCode, createAuthorizationUrl: one tick.
Issue(u, c, kind) ==
  /\ code[c].kind = "none"
  /\ code' = [code EXCEPT ![c] = [kind |-> kind, user |-> u, until |-> now + 1, used |-> FALSE]]
  /\ UNCHANGED <<env, subs, uses, pairing, oauth, handler>>

\* Mutant: the conditional update forgets claimedAt.
RedeemableTwice(c) == now < code[c].until

\* The check of a claim, and again the where clause of its conditional update.
Redeemable(c) == ~code[c].used /\ now < code[c].until

\* Mutant: the owner found is not compared.
OpenToAnyone(owner, u) == TRUE

\* A device or account is new, or belongs to the user already.
OpenTo(owner, u) == owner \in {Nobody, u}

\* Unless Overlap, a device nobody has yet is not being claimed for another
\* user, nor is a new account reported for another user.
NoRivalClaim(u, p) ==
  \/ Overlap \/ place[p].owner # Nobody
  \/ \A h \in Handler :
       handler[h].op = "claim" /\ handler[h].place = p => code[handler[h].code].user = u

NoRivalBeat(u, a) ==
  \/ Overlap \/ account[a].owner # Nobody
  \/ \A h \in Handler :
       handler[h].op = "beat" /\ handler[h].account = a => place[handler[h].place].owner = u

\* PairingService.claim and CbotService.claim up to the transaction.
BeginClaim(h, c, p) ==
  /\ code[c].kind = p[1] /\ Redeemable(c)
  /\ OpenTo(place[p].owner, code[c].user)
  /\ p[1] = "cbot" /\ place[p].owner = Nobody => MayPair(code[c].user)
  /\ NoRivalClaim(code[c].user, p)
  /\ Serve(h, [op |-> "claim", code |-> c, place |-> p])
  /\ UNCHANGED <<env, subs, codes, pairing, oauth>>

\* The transaction.  An upsert that finds a row replaces its token and leaves
\* its owner; a code that is gone rolls everything back.
CommitClaim(h) ==
  /\ handler[h].op = "claim"
  /\ LET c == handler[h].code
         p == handler[h].place
         u == code[c].user
     IN  IF Redeemable(c)
           THEN /\ code' = [code EXCEPT ![c].used = TRUE]
                /\ uses' = [uses EXCEPT ![c] = @ + 1]
                /\ place' = [place EXCEPT ![p] =
                     [owner |-> IF @.owner = Nobody THEN u ELSE @.owner, holder |-> u]]
           ELSE UNCHANGED <<codes, place>>
  /\ Done(h)
  /\ UNCHANGED <<env, subs, account, oauth>>

\* AgentsService.heartbeat by a paired agent: the check of the account's owner ...
BeginHeartbeat(h, p, a) ==
  /\ p[1] = "agent" /\ place[p].owner # Nobody
  /\ OpenTo(account[a].owner, place[p].owner)
  /\ NoRivalBeat(place[p].owner, a)
  /\ Serve(h, [op |-> "beat", place |-> p, account |-> a])
  /\ UNCHANGED <<env, subs, codes, pairing, oauth>>

\* ... and the upsert, which moves the account to this agent.
CommitHeartbeat(h) ==
  /\ handler[h].op = "beat"
  /\ LET p == handler[h].place
     IN  account' = [account EXCEPT ![handler[h].account] =
           [owner |-> IF @.owner = Nobody THEN place[p].owner ELSE @.owner, via |-> p]]
  /\ Done(h)
  /\ UNCHANGED <<env, subs, codes, place, oauth>>

-----------------------------------------------------------------------------
(* Authorisation of a cTrader connection, and its tokens.                  *)

\* completeAuthorization reads the state of the link ...
BeginComplete(h, c) ==
  /\ code[c].kind = "oauth" /\ Redeemable(c)
  /\ Serve(h, [op |-> "complete", code |-> c])
  /\ UNCHANGED <<env, subs, codes, pairing, oauth>>

\* ... consumes it, or throws because another request has ...
Consume(h) ==
  /\ handler[h].op = "complete"
  /\ LET c == handler[h].code
     IN  IF Redeemable(c)
           THEN /\ code' = [code EXCEPT ![c].used = TRUE]
                /\ Becomes(h, [op |-> "exchange", code |-> c])
           ELSE UNCHANGED code /\ Done(h)
  /\ UNCHANGED <<env, subs, uses, pairing, oauth>>

\* ... exchanges the code at cTrader's server and stores the connection, or
\* throws: the link is spent all the same ...
Exchange(h) ==
  /\ handler[h].op = "exchange"
  /\ LET c == handler[h].code
     IN  \/ /\ conn' = [conn EXCEPT ![c] = [status |-> "PENDING", stored |-> 1,
                                            server |-> 1, fresh |-> TRUE]]
            /\ uses' = [uses EXCEPT ![c] = @ + 1]
            /\ Becomes(h, [op |-> "discover", code |-> c])
         \/ UNCHANGED <<conn, uses>> /\ Done(h)
  /\ UNCHANGED <<env, subs, code, pairing, linked, lost>>

\* ... and loads the accounts: all in one transaction, or the error.
Discover(h) ==
  /\ handler[h].op = "discover"
  /\ LET c == handler[h].code
     IN  \/ /\ conn' = [conn EXCEPT ![c].status = "ACTIVE"]
            /\ linked' = [linked EXCEPT ![code[c].user] = c]
         \/ conn' = [conn EXCEPT ![c].status = "ERROR"] /\ UNCHANGED linked
  /\ Done(h)
  /\ UNCHANGED <<env, subs, codes, pairing, lost>>

\* accessTokenForConnection, called when a worker connects for a job of any of
\* the accounts: the access token is about to expire ...
BeginRefresh(h, c) ==
  /\ conn[c].status = "ACTIVE" /\ ~conn[c].fresh
  /\ Serve(h, [op |-> "refresh", code |-> c, token |-> conn[c].stored])
  /\ UNCHANGED <<env, subs, codes, pairing, oauth>>

\* ... cTrader's server takes a refresh token once and answers with the next
\* one; an answer that does not come within ten seconds is lost ...
Fetch(h) ==
  /\ handler[h].op = "refresh"
  /\ LET c == handler[h].code
         next == conn[c].server + 1
     IN  \/ /\ handler[h].token = conn[c].server
            /\ conn' = [conn EXCEPT ![c].server = next]
            /\ \/ /\ Becomes(h, [op |-> "store", code |-> c, token |-> next])
                  /\ UNCHANGED <<lost, trouble>>
               \/ /\ trouble < MaxTrouble /\ trouble' = trouble + 1
                  /\ lost' = lost \cup {c} /\ Done(h)
         \/ /\ handler[h].token # conn[c].server
            /\ Done(h) /\ UNCHANGED <<conn, lost, trouble>>
  /\ UNCHANGED <<now, subs, codes, pairing, linked>>

\* Mutant: only the access token is stored.
StoredAccessOnly(r) == [conn EXCEPT ![r.code].fresh = TRUE]

\* ... and the answer is stored by the connection's id.
Stored(r) == [conn EXCEPT ![r.code].stored = r.token, ![r.code].fresh = TRUE]

Store(h) ==
  /\ handler[h].op = "store"
  /\ conn' = Stored(handler[h])
  /\ Done(h)
  /\ UNCHANGED <<env, subs, codes, pairing, linked, lost>>

-----------------------------------------------------------------------------
(* Time and restarts.                                                      *)

\* A period ends; so does the life of every access token.
Tick ==
  /\ now < MaxTime /\ now' = now + 1
  /\ conn' = [c \in Code |-> [conn[c] EXCEPT !.fresh = FALSE]]
  /\ UNCHANGED <<trouble, subs, codes, pairing, linked, lost, handler>>

\* The server stops: what its requests hold is gone.
Restart ==
  /\ trouble < MaxTrouble /\ trouble' = trouble + 1
  /\ \E h \in Handler : handler[h] # Idle
  /\ lost' = lost \cup {c \in Code : \E h \in Handler :
                          handler[h].op = "store" /\ handler[h].code = c}
  /\ handler' = [h \in Handler |-> Idle]
  /\ UNCHANGED <<now, subs, codes, pairing, conn, linked>>

Begin(h) ==
  /\ handler[h] = Idle
  /\ \/ \E u \in User : \/ \E plan \in Plan : BeginGrant(h, u, plan)
                        \/ BeginSuspend(h, u) \/ BeginLapse(h, u)
     \/ \E c \in Code : \/ \E p \in Place : BeginClaim(h, c, p)
                        \/ BeginComplete(h, c) \/ BeginRefresh(h, c)
     \/ \E p \in Place, a \in Account : BeginHeartbeat(h, p, a)

Commit(h) ==
  \/ OpenGrant(h) \/ CommitGrant(h) \/ CommitSet(h)
  \/ CommitClaim(h) \/ CommitHeartbeat(h)
  \/ Consume(h) \/ Exchange(h) \/ Discover(h) \/ Fetch(h) \/ Store(h)

Next ==
  \/ \E h \in Handler : Begin(h) \/ Commit(h)
  \/ \E u \in User, c \in Code, kind \in {"cbot", "agent", "oauth"} : Issue(u, c, kind)
  \/ Tick \/ Restart

Spec == Init /\ [][Next]_vars

-----------------------------------------------------------------------------
(* Properties.                                                             *)

\* A code or a link is good for one terminal or one connection, however many
\* claims of it are under way: the conditional update decides, not the check.
OneUse == \A c \in Code : uses[c] <= 1

\* A lapse read before a grant and written after it ends the row that had
\* ended, never the new one.
NoEarlyLapse ==
  [][\A u \in User : \A i \in DOMAIN subs[u] :
       subs[u][i].status # "EXPIRED" /\ subs'[u][i].status = "EXPIRED"
         => subs[u][i].until <= now]_vars

\* Whoever holds the token of a terminal is its owner, and an MT5 account hangs
\* on an agent of its owner: claims and heartbeats compare the owner and leave
\* it alone later.
OwnersAgree ==
  /\ \A p \in Place : place[p].holder = place[p].owner
  /\ \A a \in Account : account[a].via # Nobody => place[account[a].via].owner = account[a].owner

\* A connection keeps a refresh token cTrader's server still takes, although
\* several starts may refresh it at a time: the last answer stored is the last
\* one given.  Only a lost answer breaks it.
StaysConnected ==
  \A c \in Code : conn[c].status = "ACTIVE" =>
    \/ conn[c].stored = conn[c].server
    \/ c \in lost
    \/ \E h \in Handler : /\ handler[h].op = "store" /\ handler[h].code = c
                          /\ handler[h].token = conn[c].server
=============================================================================
