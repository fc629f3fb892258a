--------------------------- MODULE Accounts_proofs ---------------------------
(***************************************************************************)
(* Proofs about Accounts, for any users, codes, devices, plans and number  *)
(* of concurrent requests.                                                 *)
(***************************************************************************)
EXTENDS Accounts, TLAPS

\* What a suspended request holds, by its operation.
LEMMA RequestShape ==
  ASSUME NEW r \in Request
  PROVE  /\ r.op = "grant" => r \in [op : {"grant"}, user : User, plan : Plan, until : Nat]
         /\ r.op = "granting" =>
              r \in [op : {"granting"}, user : User, plan : Plan, until : Nat,
                     replaced : SUBSET Nat]
         /\ r.op = "set" =>
              r \in [op : {"set"}, user : User, sub : Nat, status : {"SUSPENDED", "EXPIRED"}]
         /\ r.op = "claim" => r \in [op : {"claim"}, code : Code, place : Place]
         /\ r.op = "beat" => r \in [op : {"beat"}, place : Place, account : Account]
         /\ r.op \in {"complete", "exchange", "discover"} =>
              r \in [op : {"complete", "exchange", "discover"}, code : Code]
         /\ r.op \in {"refresh", "store"} =>
              r \in [op : {"refresh", "store"}, code : Code, token : Nat]
  BY DEF Request, Idle

\* A request that is served, goes on or ends leaves the others alone.
LEMMA HandlerTyped ==
  ASSUME TypeOK, NEW h \in Handler, NEW r \in Request, handler' = [handler EXCEPT ![h] = r]
  PROVE  handler' \in [Handler -> Request]
  BY DEF TypeOK

LEMMA IdleRequest == Idle \in Request
  BY DEF Request

\* A row found is one of the user's rows.
LEMMA NewestIsRow ==
  ASSUME TypeOK, NEW u \in User, NEW statuses, NEW i \in Newest(u, statuses)
  PROVE  i \in DOMAIN subs[u] /\ i \in Nat /\ subs[u][i].status \in statuses
  BY DEF Newest, TypeOK

\* A row with one field replaced is still a row.
LEMMA RowsTyped ==
  /\ \A x \in CodeRow : [x EXCEPT !.used = TRUE] \in CodeRow
  /\ \A x \in PlaceRow, u \in User \cup {Nobody} :
       [owner |-> IF x.owner = Nobody THEN u ELSE x.owner, holder |-> u] \in PlaceRow
  /\ \A x \in ConnRow : /\ [x EXCEPT !.status = "ACTIVE"] \in ConnRow
                        /\ [x EXCEPT !.status = "ERROR"] \in ConnRow
  /\ \A x \in ConnRow, n \in Nat : /\ [x EXCEPT !.server = n] \in ConnRow
                                 /\ [x EXCEPT !.stored = n, !.fresh = TRUE] \in ConnRow
  /\ [status |-> "PENDING", stored |-> 1, server |-> 1, fresh |-> TRUE] \in ConnRow
  BY DEF CodeRow, PlaceRow, ConnRow

\* What a step may do to the requests: one of them gets another request, or all end.
LEMMA RequestsTyped ==
  ASSUME TypeOK, Next PROVE handler' \in [Handler -> Request]
<1>1. ASSUME NEW h \in Handler, Begin(h) PROVE handler' \in [Handler -> Request]
  <2>1. ASSUME NEW u \in User, NEW plan \in Plan, BeginGrant(h, u, plan)
        PROVE  handler' \in [Handler -> Request]
    <3>1. now + Term[plan] \in Nat
      BY AccountsAssumption DEF TypeOK
    <3>2. [op |-> "grant", user |-> u, plan |-> plan, until |-> now + Term[plan]] \in Request
      BY <3>1 DEF Request
    <3>3. QED
      BY <2>1, <3>2, HandlerTyped DEF BeginGrant, Serve
  <2>2. ASSUME NEW u \in User, BeginSuspend(h, u) PROVE handler' \in [Handler -> Request]
    <3>1. PICK i \in Newest(u, Live) :
            handler' = [handler EXCEPT ![h] =
              [op |-> "set", user |-> u, sub |-> i, status |-> "SUSPENDED"]]
      BY <2>2 DEF BeginSuspend, Serve
    <3>2. i \in Nat
      BY NewestIsRow
    <3>3. [op |-> "set", user |-> u, sub |-> i, status |-> "SUSPENDED"] \in Request
      BY <3>2 DEF Request
    <3>4. QED
      BY <3>1, <3>3, HandlerTyped
  <2>3. ASSUME NEW u \in User, BeginLapse(h, u) PROVE handler' \in [Handler -> Request]
    <3>1. PICK i \in Newest(u, Live \cup {"SUSPENDED"}) :
            handler' = [handler EXCEPT ![h] =
              [op |-> "set", user |-> u, sub |-> i, status |-> "EXPIRED"]]
      BY <2>3 DEF BeginLapse, Serve, Current
    <3>2. i \in Nat
      BY NewestIsRow
    <3>3. [op |-> "set", user |-> u, sub |-> i, status |-> "EXPIRED"] \in Request
      BY <3>2 DEF Request
    <3>4. QED
      BY <3>1, <3>3, HandlerTyped
  <2>4. ASSUME NEW c \in Code, NEW p \in Place, BeginClaim(h, c, p)
        PROVE  handler' \in [Handler -> Request]
    <3>1. [op |-> "claim", code |-> c, place |-> p] \in Request
      BY DEF Request
    <3>2. QED
      BY <2>4, <3>1, HandlerTyped DEF BeginClaim, Serve
  <2>5. ASSUME NEW p \in Place, NEW a \in Account, BeginHeartbeat(h, p, a)
        PROVE  handler' \in [Handler -> Request]
    <3>1. [op |-> "beat", place |-> p, account |-> a] \in Request
      BY DEF Request
    <3>2. QED
      BY <2>5, <3>1, HandlerTyped DEF BeginHeartbeat, Serve
  <2>6. ASSUME NEW c \in Code, BeginComplete(h, c) PROVE handler' \in [Handler -> Request]
    <3>1. [op |-> "complete", code |-> c] \in Request
      BY DEF Request
    <3>2. QED
      BY <2>6, <3>1, HandlerTyped DEF BeginComplete, Serve
  <2>7. ASSUME NEW c \in Code, BeginRefresh(h, c) PROVE handler' \in [Handler -> Request]
    <3>1. conn[c].stored \in Nat
      BY DEF TypeOK, ConnRow
    <3>2. [op |-> "refresh", code |-> c, token |-> conn[c].stored] \in Request
      BY <3>1 DEF Request
    <3>3. QED
      BY <2>7, <3>2, HandlerTyped DEF BeginRefresh, Serve
  <2>8. QED
    BY <1>1, <2>1, <2>2, <2>3, <2>4, <2>5, <2>6, <2>7 DEF Begin
<1>2. ASSUME NEW h \in Handler, Commit(h) PROVE handler' \in [Handler -> Request]
  <2>1. CASE OpenGrant(h)
    <3> DEFINE r == handler[h]
               live == {i \in DOMAIN subs[r.user] : subs[r.user][i].status \in Live}
               next == [op |-> "granting", user |-> r.user, plan |-> r.plan,
                        until |-> r.until, replaced |-> live]
    <3>1. r.user \in User /\ r.plan \in Plan /\ r.until \in Nat
      BY <2>1, RequestShape DEF OpenGrant, TypeOK
    <3>2. subs[r.user] \in Seq(SubRow)
      BY <3>1 DEF TypeOK
    <3>3. live \subseteq Nat
      BY <3>2
    <3>4. next \in Request
      BY <3>1, <3>3 DEF Request
    <3>5. QED
      BY <2>1, <3>4, HandlerTyped DEF OpenGrant, Becomes
  <2>2. CASE CommitGrant(h) \/ CommitSet(h) \/ CommitClaim(h) \/ CommitHeartbeat(h)
               \/ Discover(h) \/ Store(h)
    BY <2>2, IdleRequest, HandlerTyped
       DEF CommitGrant, CommitSet, CommitClaim, CommitHeartbeat, Discover, Store, Done, Becomes
  <2>3. CASE Consume(h) \/ Exchange(h)
    <3>1. handler[h].code \in Code
      BY <2>3, RequestShape DEF Consume, Exchange, TypeOK
    <3>2. /\ [op |-> "exchange", code |-> handler[h].code] \in Request
          /\ [op |-> "discover", code |-> handler[h].code] \in Request
      BY <3>1 DEF Request
    <3>3. QED
      BY <2>3, <3>2, IdleRequest, HandlerTyped DEF Consume, Exchange, Done, Becomes
  <2>4. CASE Fetch(h)
    <3>1. handler[h].code \in Code
      BY <2>4, RequestShape DEF Fetch, TypeOK
    <3>2. conn[handler[h].code].server + 1 \in Nat
      BY <3>1 DEF TypeOK, ConnRow
    <3>3. [op |-> "store", code |-> handler[h].code, token |-> conn[handler[h].code].server + 1]
            \in Request
      BY <3>1, <3>2 DEF Request
    <3>4. QED
      BY <2>4, <3>3, IdleRequest, HandlerTyped DEF Fetch, Done, Becomes
  <2>5. QED
    BY <1>2, <2>1, <2>2, <2>3, <2>4 DEF Commit
<1>3. ASSUME NEW u \in User, NEW c \in Code, NEW kind \in {"cbot", "agent", "oauth"},
             Issue(u, c, kind)
      PROVE  handler' \in [Handler -> Request]
  BY <1>3 DEF Issue, TypeOK
<1>4. CASE Tick
  BY <1>4 DEF Tick, TypeOK
<1>5. CASE Restart
  BY <1>5, IdleRequest DEF Restart
<1>6. QED
  BY <1>1, <1>2, <1>3, <1>4, <1>5 DEF Next

-----------------------------------------------------------------------------
\* Type correctness: rows, codes, connections and requests keep their shape.
THEOREM TypeCorrect == Spec => []TypeOK
<1>1. Init => TypeOK
  <2> SUFFICES ASSUME Init PROVE TypeOK
    OBVIOUS
  <2>1. now \in 0 .. MaxTime /\ trouble \in 0 .. MaxTrouble
    BY AccountsAssumption DEF Init
  <2>2. subs \in [User -> Seq(SubRow)]
    BY DEF Init
  <2>3. code \in [Code -> CodeRow] /\ uses \in [Code -> Nat]
    BY DEF Init, CodeRow
  <2>4. place \in [Place -> PlaceRow] /\ account \in [Account -> AccountRow]
    BY DEF Init, PlaceRow, AccountRow
  <2>5. conn \in [Code -> ConnRow] /\ linked \in [User -> Code \cup {Nobody}] /\ lost \subseteq Code
    BY DEF Init, ConnRow
  <2>6. handler \in [Handler -> Request]
    BY IdleRequest DEF Init
  <2>7. QED
    BY <2>1, <2>2, <2>3, <2>4, <2>5, <2>6 DEF TypeOK
<1>2. TypeOK /\ [Next]_vars => TypeOK'
  <2>1. CASE UNCHANGED vars
    BY <2>1 DEF vars, env, codes, pairing, oauth, TypeOK
  <2> SUFFICES ASSUME TypeOK, Next PROVE TypeOK'
    BY <2>1
  <2>2. handler' \in [Handler -> Request]
    BY RequestsTyped
  <2> DEFINE rest == /\ now' \in 0 .. MaxTime /\ trouble' \in 0 .. MaxTrouble
                     /\ subs' \in [User -> Seq(SubRow)]
                     /\ code' \in [Code -> CodeRow] /\ uses' \in [Code -> Nat]
                     /\ place' \in [Place -> PlaceRow]
                     /\ account' \in [Account -> AccountRow]
                     /\ conn' \in [Code -> ConnRow]
                     /\ linked' \in [User -> Code \cup {Nobody}]
                     /\ lost' \subseteq Code
  <2>3. ASSUME NEW h \in Handler, Begin(h) PROVE rest
    BY <2>3 DEF Begin, BeginGrant, BeginSuspend, BeginLapse, BeginClaim, BeginHeartbeat,
                BeginComplete, BeginRefresh, env, codes, pairing, oauth, TypeOK
  <2>4. ASSUME NEW h \in Handler, OpenGrant(h) PROVE rest
    BY <2>4 DEF OpenGrant, env, codes, pairing, oauth, TypeOK
  <2>5. ASSUME NEW h \in Handler, CommitGrant(h) PROVE rest
    <3> DEFINE r == handler[h]
               left == [i \in DOMAIN subs[r.user] |->
                          IF i \in r.replaced /\ subs[r.user][i].status \in Live
                            THEN [subs[r.user][i] EXCEPT !.status = "CANCELED"]
                            ELSE subs[r.user][i]]
               new == [status |-> IF r.plan = "TRIAL" THEN "TRIAL" ELSE "ACTIVE",
                       plan |-> r.plan, until |-> r.until]
    <3>1. r.user \in User /\ r.plan \in Plan
      BY <2>5, RequestShape DEF CommitGrant, TypeOK
    <3>2. subs[r.user] \in Seq(SubRow)
      BY <3>1 DEF TypeOK
    <3>3. r.until \in Nat
      BY <2>5, RequestShape DEF CommitGrant, TypeOK
    <3>4. new \in SubRow
      BY <3>1, <3>3 DEF SubRow, SubStatus, Live
    <3>5. \A i \in DOMAIN subs[r.user] : subs[r.user][i] \in SubRow
      BY <3>2
    <3>6. \A i \in DOMAIN subs[r.user] : left[i] \in SubRow
      BY <3>5 DEF SubRow, SubStatus
    <3>7. left \in Seq(SubRow)
      <4>1. DOMAIN left = 1 .. Len(subs[r.user]) /\ Len(subs[r.user]) \in Nat
        BY <3>2
      <4>2. left \in [1 .. Len(subs[r.user]) -> SubRow]
        BY <3>6, <4>1
      <4> HIDE DEF left
      <4>3. QED
        BY <4>1, <4>2
    <3>8. subs' = [subs EXCEPT ![r.user] = Append(left, new)]
      BY <2>5 DEF CommitGrant
    <3>9. Append(left, new) \in Seq(SubRow)
      <4> HIDE DEF left, new
      <4> QED BY <3>4, <3>7
    <3>10. subs' \in [User -> Seq(SubRow)]
      <4> HIDE DEF left, new, r
      <4> QED BY <3>8, <3>9 DEF TypeOK
    <3>11. QED
      BY <2>5, <3>10 DEF CommitGrant, env, codes, pairing, oauth, TypeOK
  <2>6. ASSUME NEW h \in Handler, CommitSet(h) PROVE rest
    <3> DEFINE r == handler[h]
    <3>1. r.user \in User /\ r.sub \in Nat /\ r.status \in {"SUSPENDED", "EXPIRED"}
      BY <2>6, RequestShape DEF CommitSet, TypeOK
    <3>2. subs[r.user] \in Seq(SubRow)
      BY <3>1 DEF TypeOK
    <3>3. \A i \in DOMAIN subs[r.user] : subs[r.user][i] \in SubRow
      BY <3>2
    <3>4. SetById(r) \in Seq(SubRow)
      <4>1. DOMAIN subs[r.user] = 1 .. Len(subs[r.user]) /\ Len(subs[r.user]) \in Nat
        BY <3>2
      <4>2. SetById(r) \in [1 .. Len(subs[r.user]) -> SubRow]
        BY <3>1, <3>3, <4>1 DEF SetById, SubRow, SubStatus
      <4>3. QED
        BY <4>1, <4>2
    <3>5. subs' \in [User -> Seq(SubRow)]
      <4>1. subs' = [subs EXCEPT ![r.user] = SetById(r)]
        BY <2>6 DEF CommitSet
      <4> HIDE DEF r
      <4>2. QED
        BY <3>4, <4>1 DEF TypeOK
    <3>6. QED
      BY <2>6, <3>5 DEF CommitSet, env, codes, pairing, oauth, TypeOK
  <2>7. ASSUME NEW h \in Handler, CommitClaim(h) PROVE rest
    <3> DEFINE c == handler[h].code
               p == handler[h].place
    <3>1. c \in Code /\ p \in Place
      BY <2>7, RequestShape DEF CommitClaim, TypeOK
    <3>2. code[c].user \in User \cup {Nobody} /\ place[p] \in PlaceRow
      BY <3>1 DEF TypeOK, CodeRow
    <3>3. place' \in [Place -> PlaceRow]
      <4> DEFINE u == code[c].user
                 row == [owner |-> IF place[p].owner = Nobody THEN u ELSE place[p].owner,
                         holder |-> u]
      <4>1. place' \in {place, [place EXCEPT ![p] = row]}
        BY <2>7 DEF CommitClaim
      <4>2. row \in PlaceRow
        BY <3>2, RowsTyped
      <4>3. QED
        BY <3>1, <4>1, <4>2 DEF TypeOK
    <3>4. code' \in [Code -> CodeRow] /\ uses' \in [Code -> Nat]
      <4>1. /\ code' \in {code, [code EXCEPT ![c].used = TRUE]}
            /\ uses' \in {uses, [uses EXCEPT ![c] = uses[c] + 1]}
        BY <2>7 DEF CommitClaim, codes
      <4>2. [code[c] EXCEPT !.used = TRUE] \in CodeRow
        BY <3>1, RowsTyped DEF TypeOK
      <4>3. uses[c] + 1 \in Nat
        BY <3>1 DEF TypeOK
      <4>4. QED
        BY <3>1, <4>1, <4>2, <4>3 DEF TypeOK
    <3>5. QED
      BY <2>7, <3>3, <3>4 DEF CommitClaim, env, oauth, TypeOK
  <2>8. ASSUME NEW h \in Handler, CommitHeartbeat(h) PROVE rest
    <3>1. handler[h].account \in Account /\ handler[h].place \in Place
      BY <2>8, RequestShape DEF CommitHeartbeat, TypeOK
    <3>2. account' \in [Account -> AccountRow]
      BY <2>8, <3>1 DEF CommitHeartbeat, TypeOK, AccountRow, PlaceRow
    <3>3. QED
      BY <2>8, <3>2 DEF CommitHeartbeat, env, codes, oauth, TypeOK
  <2>9. ASSUME NEW h \in Handler, Consume(h) PROVE rest
    <3>1. handler[h].code \in Code
      BY <2>9, RequestShape DEF Consume, TypeOK
    <3>2. code' \in [Code -> CodeRow]
      <4>1. code' \in {code, [code EXCEPT ![handler[h].code].used = TRUE]}
        BY <2>9 DEF Consume
      <4>2. code[handler[h].code] \in CodeRow
        BY <3>1 DEF TypeOK
      <4>3. [code[handler[h].code] EXCEPT !.used = TRUE] \in CodeRow
        BY <4>2, RowsTyped
      <4>4. QED
        BY <3>1, <4>1, <4>3 DEF TypeOK
    <3>3. QED
      BY <2>9, <3>2 DEF Consume, env, pairing, oauth, TypeOK
  <2>10. ASSUME NEW h \in Handler, Exchange(h) PROVE rest
    <3>1. handler[h].code \in Code
      BY <2>10, RequestShape DEF Exchange, TypeOK
    <3>2. conn' \in [Code -> ConnRow] /\ uses' \in [Code -> Nat]
      <4> DEFINE c == handler[h].code
                 row == [status |-> "PENDING", stored |-> 1, server |-> 1, fresh |-> TRUE]
      <4>1. /\ conn' \in {conn, [conn EXCEPT ![c] = row]}
            /\ uses' \in {uses, [uses EXCEPT ![c] = uses[c] + 1]}
        BY <2>10 DEF Exchange
      <4>2. row \in ConnRow
        BY RowsTyped
      <4>3. uses[c] + 1 \in Nat
        BY <3>1 DEF TypeOK
      <4>4. QED
        BY <3>1, <4>1, <4>2, <4>3 DEF TypeOK
    <3>3. QED
      BY <2>10, <3>2 DEF Exchange, env, pairing, TypeOK
  <2>11. ASSUME NEW h \in Handler, Discover(h) PROVE rest
    <3>1. handler[h].code \in Code
      BY <2>11, RequestShape DEF Discover, TypeOK
    <3>2. conn' \in [Code -> ConnRow]
      <4> DEFINE c == handler[h].code
      <4>1. conn' \in {[conn EXCEPT ![c].status = "ACTIVE"], [conn EXCEPT ![c].status = "ERROR"]}
        BY <2>11 DEF Discover
      <4>2. /\ [conn[c] EXCEPT !.status = "ACTIVE"] \in ConnRow
            /\ [conn[c] EXCEPT !.status = "ERROR"] \in ConnRow
        BY <3>1, RowsTyped DEF TypeOK
      <4>3. QED
        BY <3>1, <4>1, <4>2 DEF TypeOK
    <3>3. linked' \in [User -> Code \cup {Nobody}]
      BY <2>11, <3>1 DEF Discover, TypeOK
    <3>4. QED
      BY <2>11, <3>2, <3>3 DEF Discover, env, codes, pairing, TypeOK
  <2>12. ASSUME NEW h \in Handler, Fetch(h) PROVE rest
    <3>1. handler[h].code \in Code
      BY <2>12, RequestShape DEF Fetch, TypeOK
    <3>2. conn' \in [Code -> ConnRow]
      <4>1. conn[handler[h].code].server + 1 \in Nat
        BY <3>1 DEF TypeOK, ConnRow
      <4> DEFINE c == handler[h].code
                 next == conn[c].server + 1
      <4>2. conn' \in {conn, [conn EXCEPT ![c].server = next]}
        BY <2>12 DEF Fetch
      <4>3. [conn[c] EXCEPT !.server = next] \in ConnRow
        BY <3>1, <4>1, RowsTyped DEF TypeOK
      <4>4. QED
        BY <3>1, <4>2, <4>3 DEF TypeOK
    <3>3. lost' \subseteq Code /\ trouble' \in 0 .. MaxTrouble
      BY <2>12, <3>1, AccountsAssumption DEF Fetch, TypeOK
    <3>4. QED
      BY <2>12, <3>2, <3>3 DEF Fetch, codes, pairing, TypeOK
  <2>13. ASSUME NEW h \in Handler, Store(h) PROVE rest
    <3>1. handler[h].code \in Code /\ handler[h].token \in Nat
      BY <2>13, RequestShape DEF Store, TypeOK
    <3>2. conn' \in [Code -> ConnRow]
      BY <2>13, <3>1, RowsTyped DEF Store, Stored, TypeOK
    <3>3. QED
      BY <2>13, <3>2 DEF Store, env, codes, pairing, TypeOK
  <2>14. ASSUME NEW u \in User, NEW c \in Code, NEW kind \in {"cbot", "agent", "oauth"},
                Issue(u, c, kind)
         PROVE  rest
    <3>1. code' \in [Code -> CodeRow]
      BY <2>14, AccountsAssumption DEF Issue, TypeOK, CodeRow
    <3>2. QED
      BY <2>14, <3>1 DEF Issue, env, pairing, oauth, TypeOK
  <2>15. ASSUME Tick PROVE rest
    <3>1. conn' \in [Code -> ConnRow]
      BY <2>15 DEF Tick, TypeOK, ConnRow
    <3>2. now' \in 0 .. MaxTime
      BY <2>15, AccountsAssumption DEF Tick, TypeOK
    <3>3. QED
      BY <2>15, <3>1, <3>2 DEF Tick, codes, pairing, TypeOK
  <2>16. ASSUME Restart PROVE rest
    <3>1. trouble' \in 0 .. MaxTrouble /\ lost' \subseteq Code
      BY <2>16, AccountsAssumption DEF Restart, TypeOK
    <3>2. QED
      BY <2>16, <3>1 DEF Restart, codes, pairing, TypeOK
  <2>17. rest
    <3> HIDE DEF rest
    <3> QED BY <2>3, <2>4, <2>5, <2>6, <2>7, <2>8, <2>9, <2>10, <2>11, <2>12, <2>13, <2>14,
               <2>15, <2>16 DEF Next, Commit
  <2>18. QED
    BY <2>2, <2>17 DEF TypeOK
<1>3. QED
  BY <1>1, <1>2, PTL DEF Spec

-----------------------------------------------------------------------------
(***************************************************************************)
(* One use of a code.  What yields a token either finds the code unused in *)
(* the same step, or carries it since it took it: the requests between     *)
(* Consume and Exchange, one per code.                                     *)
(***************************************************************************)
Unspent(c)    == uses[c] = 0 /\ conn[c].status = "none"
Holding(h, c) == handler[h].op = "exchange" /\ handler[h].code = c
Connected     == {"discover", "refresh", "store"}

CodesInv ==
  /\ \A c \in Code : code[c].kind = "none" => code[c].until = 0 /\ ~code[c].used
  /\ \A c \in Code : ~code[c].used => Unspent(c)
  /\ \A h \in Handler, c \in Code : Holding(h, c) => code[c].used /\ Unspent(c)
  /\ \A h, k \in Handler, c \in Code : Holding(h, c) /\ Holding(k, c) => h = k
  /\ \A h \in Handler : handler[h].op \in Connected => conn[handler[h].code].status # "none"
  /\ OneUse

\* The steps that neither redeem, take nor issue a code.
Elsewhere ==
  /\ UNCHANGED codes
  /\ \A c \in Code : conn'[c].status = "none" <=> conn[c].status = "none"
  /\ \A h \in Handler : handler'[h].op = "exchange" => handler'[h] = handler[h]
  /\ \A h \in Handler : handler'[h].op \in Connected =>
       handler'[h].code \in Code /\ conn[handler'[h].code].status # "none"

LEMMA ElsewhereKeeps ==
  ASSUME CodesInv, Elsewhere PROVE CodesInv'
<1>1. \A c \in Code : Unspent(c)' <=> Unspent(c)
  BY DEF Elsewhere, codes, Unspent
<1>2. \A h \in Handler, c \in Code : Holding(h, c)' => Holding(h, c)
  BY DEF Elsewhere, Holding
<1>3. \A h \in Handler : handler'[h].op \in Connected => conn'[handler'[h].code].status # "none"
  <2>1. \A c : conn[c].status # "none" /\ c \in Code => conn'[c].status # "none"
    BY DEF Elsewhere
  <2>2. QED
    BY <2>1 DEF Elsewhere
<1>4. QED
  BY <1>1, <1>2, <1>3 DEF CodesInv, Elsewhere, codes, OneUse

\* Only the request of h changes.
Alone(h) == \A k \in Handler \ {h} : handler'[k] = handler[k]

\* A request is served, goes on or ends, and is not about to spend a code.
LEMMA ServedElsewhere ==
  ASSUME TypeOK, CodesInv, Next, UNCHANGED codes,
         \A c \in Code : conn'[c].status = "none" <=> conn[c].status = "none",
         NEW h \in Handler, Alone(h), handler'[h].op # "exchange",
         handler'[h].op \in Connected => conn[handler'[h].code].status # "none"
  PROVE  Elsewhere
<1>1. ASSUME NEW k \in Handler
      PROVE  /\ handler'[k].op = "exchange" => handler'[k] = handler[k]
             /\ handler'[k].op \in Connected =>
                  handler'[k].code \in Code /\ conn[handler'[k].code].status # "none"
  <2>1. handler'[k] \in Request
    BY RequestsTyped
  <2>2. handler'[k].op \in Connected => handler'[k].code \in Code
    BY <2>1, RequestShape DEF Connected
  <2>3. CASE k = h
    BY <2>2, <2>3
  <2>4. CASE k # h
    BY <2>2, <2>4 DEF CodesInv, Alone
  <2>5. QED
    BY <2>3, <2>4
<1>2. QED
  BY <1>1 DEF Elsewhere

LEMMA CodesSteps ==
  ASSUME TypeOK, CodesInv, Next
  PROVE  \/ Elsewhere
         \/ \E h \in Handler : CommitClaim(h) \/ Consume(h) \/ Exchange(h)
         \/ \E u \in User, c \in Code, kind \in {"cbot", "agent", "oauth"} : Issue(u, c, kind)
<1>1. ASSUME NEW h \in Handler, Begin(h) PROVE Elsewhere
  <2>1. UNCHANGED codes /\ UNCHANGED conn
    BY <1>1 DEF Begin, BeginGrant, BeginSuspend, BeginLapse, BeginClaim, BeginHeartbeat,
                BeginComplete, BeginRefresh, oauth
  <2>2. ASSUME NEW c \in Code, BeginRefresh(h, c) PROVE Elsewhere
    <3>1. Alone(h) /\ handler'[h].op = "refresh" /\ handler'[h].code = c
      BY <2>2 DEF BeginRefresh, Serve, TypeOK, Alone
    <3>2. conn[c].status # "none"
      BY <2>2 DEF BeginRefresh
    <3>3. QED
      BY <2>1, <3>1, <3>2, ServedElsewhere
  <2>3. ASSUME NEW u \in User, NEW plan \in Plan, BeginGrant(h, u, plan) PROVE Elsewhere
    <3>1. Alone(h) /\ handler'[h].op = "grant"
      BY <2>3 DEF BeginGrant, Serve, TypeOK, Alone
    <3>2. QED
      BY <2>1, <3>1, ServedElsewhere DEF Connected
  <2>4. ASSUME NEW u \in User, BeginSuspend(h, u) PROVE Elsewhere
    <3>1. Alone(h) /\ handler'[h].op = "set"
      BY <2>4 DEF BeginSuspend, Serve, TypeOK, Alone
    <3>2. QED
      BY <2>1, <3>1, ServedElsewhere DEF Connected
  <2>5. ASSUME NEW u \in User, BeginLapse(h, u) PROVE Elsewhere
    <3>1. Alone(h) /\ handler'[h].op = "set"
      BY <2>5 DEF BeginLapse, Serve, TypeOK, Alone
    <3>2. QED
      BY <2>1, <3>1, ServedElsewhere DEF Connected
  <2>6. ASSUME NEW c \in Code, NEW p \in Place, BeginClaim(h, c, p) PROVE Elsewhere
    <3>1. Alone(h) /\ handler'[h].op = "claim"
      BY <2>6 DEF BeginClaim, Serve, TypeOK, Alone
    <3>2. QED
      BY <2>1, <3>1, ServedElsewhere DEF Connected
  <2>7. ASSUME NEW c \in Code, BeginComplete(h, c) PROVE Elsewhere
    <3>1. Alone(h) /\ handler'[h].op = "complete"
      BY <2>7 DEF BeginComplete, Serve, TypeOK, Alone
    <3>2. QED
      BY <2>1, <3>1, ServedElsewhere DEF Connected
  <2>8. ASSUME NEW p \in Place, NEW a \in Account, BeginHeartbeat(h, p, a) PROVE Elsewhere
    <3>1. Alone(h) /\ handler'[h].op = "beat"
      BY <2>8 DEF BeginHeartbeat, Serve, TypeOK, Alone
    <3>2. QED
      BY <2>1, <3>1, ServedElsewhere DEF Connected
  <2>9. QED
    BY <1>1, <2>2, <2>3, <2>4, <2>5, <2>6, <2>7, <2>8 DEF Begin
<1>2. ASSUME NEW h \in Handler, OpenGrant(h) PROVE Elsewhere
  <2>1. Alone(h) /\ handler'[h].op = "granting"
    BY <1>2 DEF OpenGrant, Becomes, TypeOK, Alone
  <2>2. UNCHANGED codes /\ UNCHANGED conn
    BY <1>2 DEF OpenGrant, oauth
  <2>3. QED
    BY <2>1, <2>2, ServedElsewhere DEF Connected
<1>3. ASSUME NEW h \in Handler, CommitGrant(h) \/ CommitSet(h) \/ CommitHeartbeat(h)
      PROVE  Elsewhere
  <2>1. UNCHANGED codes /\ UNCHANGED conn /\ handler' = [handler EXCEPT ![h] = Idle]
    BY <1>3 DEF CommitGrant, CommitSet, CommitHeartbeat, Done, Becomes, oauth
  <2>2. Alone(h) /\ handler'[h].op = "idle"
    BY <2>1 DEF Idle, TypeOK, Alone
  <2>3. QED
    BY <2>1, <2>2, ServedElsewhere DEF Connected
<1>4. ASSUME NEW h \in Handler, Discover(h) PROVE Elsewhere
  <2> DEFINE c == handler[h].code
  <2>1. c \in Code /\ conn[c] \in ConnRow
    BY <1>4, RequestShape DEF Discover, TypeOK
  <2>2. conn[c].status # "none"
    BY <1>4 DEF Discover, CodesInv, Connected
  <2>3. conn' \in {[conn EXCEPT ![c].status = "ACTIVE"], [conn EXCEPT ![c].status = "ERROR"]}
    BY <1>4 DEF Discover
  <2>4. conn'[c].status \in {"ACTIVE", "ERROR"}
    BY <2>1, <2>3 DEF TypeOK, ConnRow
  <2>5. \A d \in Code \ {c} : conn'[d] = conn[d]
    BY <2>1, <2>3 DEF TypeOK
  <2>6. \A d \in Code : conn'[d].status = "none" <=> conn[d].status = "none"
    BY <2>2, <2>4, <2>5
  <2>7. UNCHANGED codes /\ handler' = [handler EXCEPT ![h] = Idle]
    BY <1>4 DEF Discover, Done, Becomes
  <2>8. Alone(h) /\ handler'[h].op = "idle"
    BY <2>7 DEF Idle, TypeOK, Alone
  <2>9. QED
    BY <2>6, <2>7, <2>8, ServedElsewhere DEF Connected
<1>5. ASSUME NEW h \in Handler, Fetch(h) PROVE Elsewhere
  <2> DEFINE c == handler[h].code
             next == conn[c].server + 1
  <2>1. c \in Code /\ conn[c] \in ConnRow /\ conn[c].status # "none"
    BY <1>5, RequestShape DEF Fetch, TypeOK, CodesInv, Connected
  <2>2. conn' \in {conn, [conn EXCEPT ![c].server = next]}
    BY <1>5 DEF Fetch
  <2>3. conn'[c].status = conn[c].status
    <3>1. conn'[c] \in {conn[c], [conn[c] EXCEPT !.server = next]}
      BY <2>1, <2>2 DEF TypeOK
    <3> HIDE DEF c, next
    <3>2. QED
      BY <2>1, <3>1 DEF ConnRow
  <2>4. \A d \in Code \ {c} : conn'[d] = conn[d]
    BY <2>1, <2>2 DEF TypeOK
  <2>5. \A d \in Code : conn'[d].status = "none" <=> conn[d].status = "none"
    BY <2>3, <2>4
  <2>6. UNCHANGED codes
    BY <1>5 DEF Fetch
  <2>7. Alone(h) /\ (handler'[h].op = "idle" \/ (handler'[h].op = "store" /\ handler'[h].code = c))
    BY <1>5 DEF Fetch, Done, Becomes, Idle, TypeOK, Alone
  <2>8. QED
    BY <2>1, <2>5, <2>6, <2>7, ServedElsewhere DEF Connected
<1>6. ASSUME NEW h \in Handler, Store(h) PROVE Elsewhere
  <2> DEFINE r == handler[h]
             c == r.code
  <2>1. c \in Code /\ conn[c] \in ConnRow
    BY <1>6, RequestShape DEF Store, TypeOK
  <2>2. conn' = [conn EXCEPT ![c].stored = r.token, ![c].fresh = TRUE]
    BY <1>6 DEF Store, Stored
  <2>3. conn'[c].status = conn[c].status
    <3>1. conn'[c] = [conn[c] EXCEPT !.stored = r.token, !.fresh = TRUE]
      BY <2>1, <2>2 DEF TypeOK
    <3> HIDE DEF c, r
    <3>2. QED
      BY <2>1, <3>1 DEF ConnRow
  <2>4. \A d \in Code \ {c} : conn'[d] = conn[d]
    BY <2>1, <2>2 DEF TypeOK
  <2>5. \A d \in Code : conn'[d].status = "none" <=> conn[d].status = "none"
    BY <2>3, <2>4
  <2>6. UNCHANGED codes /\ Alone(h) /\ handler'[h].op = "idle"
    BY <1>6 DEF Store, Done, Becomes, Idle, TypeOK, Alone
  <2>7. QED
    BY <2>5, <2>6, ServedElsewhere DEF Connected
<1>7. CASE Tick
  <2>1. \A c \in Code : conn'[c].status = conn[c].status
    BY <1>7 DEF Tick, TypeOK, ConnRow
  <2>2. \A h \in Handler : handler[h].op \in Connected =>
          handler[h].code \in Code /\ conn[handler[h].code].status # "none"
    <3>1. ASSUME NEW h \in Handler, handler[h].op \in Connected PROVE handler[h].code \in Code
      BY <3>1, RequestShape DEF TypeOK, Connected
    <3>2. QED
      BY <3>1 DEF CodesInv
  <2>3. UNCHANGED codes /\ handler' = handler
    BY <1>7 DEF Tick
  <2>4. QED
    BY <2>1, <2>2, <2>3 DEF Elsewhere
<1>8. CASE Restart
  BY <1>8 DEF Restart, Idle, Elsewhere, Connected
<1>9. QED
  BY <1>1, <1>2, <1>3, <1>4, <1>5, <1>6, <1>7, <1>8 DEF Next, Commit

\* The row of a code that is redeemed; a code never issued cannot be.
LEMMA RedeemedRow ==
  ASSUME TypeOK, CodesInv, NEW c \in Code, Redeemable(c),
         code' = [code EXCEPT ![c].used = TRUE]
  PROVE  /\ code'[c].used /\ code'[c].kind # "none" /\ code'[c].user = code[c].user
         /\ code'[c].kind = code[c].kind
         /\ \A d \in Code \ {c} : code'[d] = code[d]
<1>1. code[c] \in CodeRow /\ now \in Nat
  BY DEF TypeOK
<1>2. code[c].kind # "none"
  BY <1>1 DEF CodesInv, Redeemable
<1>3. code'[c] = [code[c] EXCEPT !.used = TRUE] /\ \A d \in Code \ {c} : code'[d] = code[d]
  BY DEF TypeOK
<1>4. QED
  BY <1>1, <1>2, <1>3 DEF CodeRow

LEMMA CodesInvariant == Spec => []CodesInv
<1>1. Init => CodesInv
  BY DEF Init, CodesInv, Unspent, Holding, OneUse, Idle, Connected
<1>2. TypeOK /\ CodesInv /\ [Next]_vars => CodesInv'
  <2>1. ASSUME TypeOK, CodesInv, UNCHANGED vars PROVE CodesInv'
    BY <2>1 DEF vars, codes, oauth, CodesInv, Unspent, Holding, OneUse
  <2>2. ASSUME TypeOK, CodesInv, NEW h \in Handler, CommitClaim(h) PROVE CodesInv'
    <3> DEFINE c == handler[h].code
    <3>1. c \in Code
      BY <2>2, RequestShape DEF CommitClaim, TypeOK
    <3>2. handler' = [handler EXCEPT ![h] = Idle] /\ conn' = conn
      BY <2>2 DEF CommitClaim, Done, Becomes, oauth
    <3>3. CASE UNCHANGED codes
      BY <2>2, <3>2, <3>3 DEF CodesInv, codes, Unspent, Holding, OneUse, Idle, Connected, TypeOK
    <3>4. CASE /\ Redeemable(c)
               /\ code' = [code EXCEPT ![c].used = TRUE]
               /\ uses' = [uses EXCEPT ![c] = @ + 1]
      <4>1. uses[c] = 0 /\ uses'[c] = 1 /\ \A d \in Code \ {c} : uses'[d] = uses[d]
        BY <2>2, <3>1, <3>4 DEF CodesInv, Unspent, TypeOK, Redeemable
      <4>2. /\ code'[c].used /\ code'[c].kind # "none"
            /\ \A d \in Code \ {c} : code'[d] = code[d]
        BY <2>2, <3>1, <3>4, RedeemedRow
      <4>3. \A k \in Handler : ~Holding(k, c)
        BY <2>2, <3>1, <3>4 DEF CodesInv, Redeemable
      <4>4. \A k \in Handler, d \in Code : Holding(k, d)' => Holding(k, d)
        BY <2>2, <3>2 DEF Holding, Idle, TypeOK
      <4>5. \A k \in Handler : handler'[k].op \in Connected => handler'[k] = handler[k]
        BY <2>2, <3>2 DEF Idle, TypeOK, Connected
      <4>6. QED
        BY <2>2, <3>1, <3>2, <4>1, <4>2, <4>3, <4>4, <4>5 DEF CodesInv, Unspent, OneUse
    <3>5. QED
      BY <2>2, <3>3, <3>4 DEF CommitClaim
  <2>3. ASSUME TypeOK, CodesInv, NEW h \in Handler, Consume(h) PROVE CodesInv'
    <3> DEFINE c == handler[h].code
    <3>1. c \in Code
      BY <2>3, RequestShape DEF Consume, TypeOK
    <3>2. conn' = conn /\ uses' = uses
      BY <2>3 DEF Consume, oauth
    <3>3. CASE UNCHANGED code /\ handler' = [handler EXCEPT ![h] = Idle]
      BY <2>3, <3>2, <3>3 DEF CodesInv, Unspent, Holding, OneUse, Idle, Connected, TypeOK
    <3>4. CASE /\ Redeemable(c)
               /\ code' = [code EXCEPT ![c].used = TRUE]
               /\ handler' = [handler EXCEPT ![h] = [op |-> "exchange", code |-> c]]
      <4>1. Unspent(c) /\ \A k \in Handler : ~Holding(k, c)
        BY <2>3, <3>1, <3>4 DEF CodesInv, Redeemable
      <4>2. /\ code'[c].used /\ code'[c].kind # "none"
            /\ \A d \in Code \ {c} : code'[d] = code[d]
        BY <2>3, <3>1, <3>4, RedeemedRow
      <4>3. handler'[h].op = "exchange" /\ handler'[h].code = c /\ Alone(h)
        BY <2>3, <3>4 DEF TypeOK, Alone
      <4>4. \A k \in Handler, d \in Code :
              Holding(k, d)' => (k = h /\ d = c) \/ (k # h /\ Holding(k, d))
        <5>1. ASSUME NEW k \in Handler, NEW d \in Code, Holding(k, d)', k # h PROVE Holding(k, d)
          BY <4>3, <5>1 DEF Holding, Alone
        <5>2. ASSUME NEW d \in Code, Holding(h, d)' PROVE d = c
          BY <4>3, <5>2 DEF Holding
        <5>3. QED
          BY <5>1, <5>2 DEF Holding
      <4>5. \A k \in Handler : handler'[k].op \in Connected => handler'[k] = handler[k]
        BY <4>3 DEF Connected, Alone
      <4>6. QED
        BY <2>3, <3>1, <3>2, <4>1, <4>2, <4>4, <4>5 DEF CodesInv, Unspent, OneUse
    <3>5. QED
      BY <2>3, <3>3, <3>4 DEF Consume, Done, Becomes
  <2>4. ASSUME TypeOK, CodesInv, NEW h \in Handler, Exchange(h) PROVE CodesInv'
    <3> DEFINE c == handler[h].code
    <3>1. c \in Code /\ Holding(h, c) /\ code' = code
      BY <2>4, RequestShape DEF Exchange, TypeOK, Holding
    <3>2. CASE UNCHANGED <<conn, uses>> /\ handler' = [handler EXCEPT ![h] = Idle]
      BY <2>4, <3>1, <3>2 DEF CodesInv, Unspent, Holding, OneUse, Idle, Connected, TypeOK
    <3>3. CASE /\ conn' = [conn EXCEPT ![c] = [status |-> "PENDING", stored |-> 1,
                                               server |-> 1, fresh |-> TRUE]]
               /\ uses' = [uses EXCEPT ![c] = @ + 1]
               /\ handler' = [handler EXCEPT ![h] = [op |-> "discover", code |-> c]]
      <4>1. code[c].used /\ uses[c] = 0 /\ \A k \in Handler : Holding(k, c) => k = h
        BY <2>4, <3>1 DEF CodesInv, Unspent
      <4>2. uses'[c] = 1 /\ \A d \in Code \ {c} : uses'[d] = uses[d]
        BY <2>4, <3>1, <3>3, <4>1 DEF TypeOK
      <4>3. conn'[c].status = "PENDING" /\ \A d \in Code \ {c} : conn'[d] = conn[d]
        BY <2>4, <3>1, <3>3 DEF TypeOK
      <4>4. \A k \in Handler, d \in Code : Holding(k, d)' => k # h /\ d # c /\ Holding(k, d)
        BY <2>4, <3>3, <4>1 DEF Holding, TypeOK
      <4>5. \A k \in Handler : handler'[k].op \in Connected =>
              conn'[handler'[k].code].status # "none"
        <5>1. ASSUME NEW k \in Handler, k # h, handler'[k].op \in Connected
              PROVE  conn'[handler'[k].code].status # "none"
          <6>1. handler'[k] = handler[k] /\ handler[k].code \in Code
            BY <2>4, <3>3, <5>1, RequestShape DEF TypeOK, Connected
          <6>2. QED
            BY <2>4, <4>3, <5>1, <6>1 DEF CodesInv
        <5>2. handler'[h].code = c
          BY <2>4, <3>3 DEF TypeOK
        <5>3. QED
          BY <4>3, <5>1, <5>2
      <4>6. QED
        BY <2>4, <3>1, <4>1, <4>2, <4>3, <4>4, <4>5 DEF CodesInv, Unspent, OneUse
    <3>4. QED
      BY <2>4, <3>2, <3>3 DEF Exchange, Done, Becomes
  <2>5. ASSUME TypeOK, CodesInv, NEW u \in User, NEW c \in Code,
               NEW kind \in {"cbot", "agent", "oauth"}, Issue(u, c, kind)
        PROVE  CodesInv'
    <3>1. Unspent(c) /\ \A h \in Handler : ~Holding(h, c)
      BY <2>5 DEF Issue, CodesInv
    <3>2. code'[c].kind # "none" /\ \A d \in Code \ {c} : code'[d] = code[d]
      BY <2>5 DEF Issue, TypeOK
    <3>3. UNCHANGED <<uses, conn, handler>>
      BY <2>5 DEF Issue, oauth
    <3>4. QED
      BY <2>5, <3>1, <3>2, <3>3 DEF CodesInv, Unspent, Holding, OneUse
  <2>6. QED
    BY <2>1, <2>2, <2>3, <2>4, <2>5, CodesSteps, ElsewhereKeeps
<1>3. QED
  BY <1>1, <1>2, TypeCorrect, PTL DEF Spec

\* However many claims race, a code yields one token and a link one connection.
THEOREM CodesUsedOnce == Spec => []OneUse
<1>1. CodesInv => OneUse
  BY DEF CodesInv
<1>2. QED
  BY <1>1, CodesInvariant, PTL

-----------------------------------------------------------------------------
(***************************************************************************)
(* Refresh tokens.  Unless an answer was lost, at most one request carries *)
(* the token cTrader's server takes, and only while the row has an older   *)
(* one; no request asks with a token younger than the row's.               *)
(***************************************************************************)
Storing(h, c) == handler[h].op = "store" /\ handler[h].code = c
Asking(h, c)  == handler[h].op = "refresh" /\ handler[h].code = c

TokenInv(c) ==
  /\ conn[c].stored # conn[c].server => \E h \in Handler : Storing(h, c)
  /\ \A h \in Handler : Storing(h, c) =>
       handler[h].token = conn[c].server /\ conn[c].stored < conn[c].server
  /\ \A h, k \in Handler : Storing(h, c) /\ Storing(k, c) => h = k
  /\ \A h \in Handler : Asking(h, c) => handler[h].token <= conn[c].stored

TokensInv == \A c \in Code \ lost : TokenInv(c)

\* A connection whose row and requests are left alone stays sound.
LEMMA TokenKept ==
  ASSUME NEW c \in Code, TokenInv(c),
         conn'[c].stored = conn[c].stored, conn'[c].server = conn[c].server,
         \A h \in Handler : Storing(h, c) <=> Storing(h, c)',
         \A h \in Handler : Storing(h, c) => handler'[h].token = handler[h].token,
         \A h \in Handler : Asking(h, c)' =>
           \/ Asking(h, c) /\ handler'[h] = handler[h]
           \/ handler'[h].token <= conn[c].stored
  PROVE  TokenInv(c)'
<1>1. \A h \in Handler : Asking(h, c)' => handler'[h].token <= conn[c].stored
  BY DEF TokenInv
<1>2. QED
  BY <1>1 DEF TokenInv

\* The request of h neither carries a token before the step nor after it.
LEMMA TokensElsewhere ==
  ASSUME TypeOK, TokensInv, lost' = lost,
         \A c \in Code : conn'[c].stored = conn[c].stored /\ conn'[c].server = conn[c].server,
         NEW h \in Handler, Alone(h),
         handler[h].op # "store", handler'[h].op # "store",
         handler'[h].op = "refresh" => handler'[h].token <= conn[handler'[h].code].stored
  PROVE  TokensInv'
<1> SUFFICES ASSUME NEW c \in Code, c \notin lost PROVE TokenInv(c)'
  BY DEF TokensInv
<1>1. \A k \in Handler : Storing(k, c) <=> Storing(k, c)'
  BY DEF Alone, Storing
<1>2. \A k \in Handler : Storing(k, c) => handler'[k].token = handler[k].token
  BY DEF Alone, Storing
<1>3. ASSUME NEW k \in Handler, Asking(k, c)'
      PROVE  \/ Asking(k, c) /\ handler'[k] = handler[k]
             \/ handler'[k].token <= conn[c].stored
  BY <1>3 DEF Alone, Asking
<1>4. QED
  BY <1>1, <1>2, <1>3, TokenKept DEF TokensInv

LEMMA TokensBegin ==
  ASSUME NEW h \in Handler, TypeOK, TokensInv, Begin(h) PROVE TokensInv'
<1>1. TypeOK /\ TokensInv /\ Begin(h)
  OBVIOUS
<1>2. QED
  <2>1. lost' = lost /\ conn' = conn
    BY <1>1 DEF Begin, BeginGrant, BeginSuspend, BeginLapse, BeginClaim, BeginHeartbeat,
                BeginComplete, BeginRefresh, oauth
  <2>2. ASSUME NEW c \in Code, BeginRefresh(h, c) PROVE TokensInv'
    <3>1. /\ Alone(h) /\ handler[h].op = "idle" /\ handler'[h].op = "refresh"
          /\ handler'[h].code = c /\ handler'[h].token = conn[c].stored
      BY <1>1, <2>2 DEF BeginRefresh, Serve, TypeOK, Alone, Idle
    <3>2. conn[c].stored \in Nat
      BY <1>1 DEF TypeOK, ConnRow
    <3>3. QED
      BY <1>1, <2>1, <3>1, <3>2, TokensElsewhere
  <2>3. ASSUME NEW u \in User, NEW plan \in Plan, BeginGrant(h, u, plan) PROVE TokensInv'
    <3>1. Alone(h) /\ handler[h].op = "idle" /\ handler'[h].op = "grant"
      BY <1>1, <2>3 DEF BeginGrant, Serve, TypeOK, Alone, Idle
    <3>2. QED
      BY <1>1, <2>1, <3>1, TokensElsewhere
  <2>4. ASSUME NEW u \in User, BeginSuspend(h, u) PROVE TokensInv'
    <3>1. Alone(h) /\ handler[h].op = "idle" /\ handler'[h].op = "set"
      BY <1>1, <2>4 DEF BeginSuspend, Serve, TypeOK, Alone, Idle
    <3>2. QED
      BY <1>1, <2>1, <3>1, TokensElsewhere
  <2>5. ASSUME NEW u \in User, BeginLapse(h, u) PROVE TokensInv'
    <3>1. Alone(h) /\ handler[h].op = "idle" /\ handler'[h].op = "set"
      BY <1>1, <2>5 DEF BeginLapse, Serve, TypeOK, Alone, Idle
    <3>2. QED
      BY <1>1, <2>1, <3>1, TokensElsewhere
  <2>6. ASSUME NEW c \in Code, NEW p \in Place, BeginClaim(h, c, p) PROVE TokensInv'
    <3>1. Alone(h) /\ handler[h].op = "idle" /\ handler'[h].op = "claim"
      BY <1>1, <2>6 DEF BeginClaim, Serve, TypeOK, Alone, Idle
    <3>2. QED
      BY <1>1, <2>1, <3>1, TokensElsewhere
  <2>7. ASSUME NEW c \in Code, BeginComplete(h, c) PROVE TokensInv'
    <3>1. Alone(h) /\ handler[h].op = "idle" /\ handler'[h].op = "complete"
      BY <1>1, <2>7 DEF BeginComplete, Serve, TypeOK, Alone, Idle
    <3>2. QED
      BY <1>1, <2>1, <3>1, TokensElsewhere
  <2>8. ASSUME NEW p \in Place, NEW a \in Account, BeginHeartbeat(h, p, a) PROVE TokensInv'
    <3>1. Alone(h) /\ handler[h].op = "idle" /\ handler'[h].op = "beat"
      BY <1>1, <2>8 DEF BeginHeartbeat, Serve, TypeOK, Alone, Idle
    <3>2. QED
      BY <1>1, <2>1, <3>1, TokensElsewhere
  <2>9. QED
    BY <1>1, <2>2, <2>3, <2>4, <2>5, <2>6, <2>7, <2>8 DEF Begin

LEMMA TokensCommit ==
  ASSUME NEW h \in Handler, TypeOK, CodesInv, TokensInv, Commit(h) PROVE TokensInv'
<1>1. CASE OpenGrant(h) \/ CommitGrant(h) \/ CommitSet(h) \/ CommitClaim(h)
           \/ CommitHeartbeat(h) \/ Consume(h)
  <2>1. lost' = lost /\ conn' = conn
    BY <1>1 DEF OpenGrant, CommitGrant, CommitSet, CommitClaim, CommitHeartbeat, Consume, oauth
  <2>2. handler[h].op \notin {"refresh", "store"}
    BY <1>1 DEF OpenGrant, CommitGrant, CommitSet, CommitClaim, CommitHeartbeat, Consume
  <2>3. Alone(h) /\ handler'[h].op \in {"granting", "idle", "exchange"}
    <3>1. CASE OpenGrant(h)
      BY <3>1 DEF OpenGrant, Becomes, TypeOK, Alone
    <3>2. CASE Consume(h)
      BY <3>2 DEF Consume, Becomes, Done, Idle, TypeOK, Alone
    <3>3. CASE CommitGrant(h) \/ CommitSet(h) \/ CommitClaim(h) \/ CommitHeartbeat(h)
      <4>1. handler' = [handler EXCEPT ![h] = Idle]
        BY <3>3 DEF CommitGrant, CommitSet, CommitClaim, CommitHeartbeat, Becomes, Done
      <4>2. QED
        BY <4>1 DEF Idle, TypeOK, Alone
    <3>4. QED
      BY <1>1, <3>1, <3>2, <3>3
  <2>4. QED
    BY <2>1, <2>2, <2>3, TokensElsewhere
<1>2. CASE Exchange(h)
  <2> PICK d \in Code : d = handler[h].code
    BY <1>2, RequestShape DEF Exchange, TypeOK
  <2>1. d \in Code /\ Holding(h, d) /\ lost' = lost
    BY <1>2 DEF Exchange, Holding
  <2>2. Alone(h) /\ handler[h].op = "exchange" /\ handler'[h].op \in {"discover", "idle"}
    BY <1>2 DEF Exchange, Becomes, Done, Idle, TypeOK, Alone
  <2>3. CASE conn' = conn
    BY <2>1, <2>2, <2>3, TokensElsewhere
  <2>4. CASE conn' = [conn EXCEPT ![d] = [status |-> "PENDING", stored |-> 1,
                                         server |-> 1, fresh |-> TRUE]]
    <3>1. conn'[d].stored = 1 /\ conn'[d].server = 1 /\ \A c \in Code \ {d} : conn'[c] = conn[c]
      BY <2>1, <2>4 DEF TypeOK
    <3>2. \A k \in Handler : ~Storing(k, d) /\ ~Asking(k, d)
      BY <2>1 DEF CodesInv, Unspent, Connected, Storing, Asking
    <3>3. \A k \in Handler, c \in Code : /\ Storing(k, c)' <=> Storing(k, c)
                                         /\ Asking(k, c)' <=> Asking(k, c)
      BY <2>2 DEF Storing, Asking, Alone
    <3>4. TokenInv(d)'
      BY <3>1, <3>2, <3>3, <2>1 DEF TokenInv
    <3>5. ASSUME NEW c \in Code \ {d}, c \notin lost PROVE TokenInv(c)'
      <4>1. \A k \in Handler : Storing(k, c) \/ Asking(k, c) => handler'[k] = handler[k]
        BY <2>2 DEF Storing, Asking, Alone
      <4>2. QED
        BY <3>1, <3>3, <3>5, <4>1, TokenKept DEF TokensInv
    <3>6. QED
      BY <2>1, <3>4, <3>5 DEF TokensInv
  <2>5. QED
    BY <1>2, <2>3, <2>4 DEF Exchange
<1>3. CASE Discover(h)
  <2> DEFINE d == handler[h].code
  <2>1. d \in Code /\ conn[d] \in ConnRow /\ lost' = lost
    BY <1>3, RequestShape DEF Discover, TypeOK
  <2>2. Alone(h) /\ handler[h].op = "discover" /\ handler'[h].op = "idle"
    BY <1>3 DEF Discover, Becomes, Done, Idle, TypeOK, Alone
  <2>3. conn' \in {[conn EXCEPT ![d].status = "ACTIVE"], [conn EXCEPT ![d].status = "ERROR"]}
    BY <1>3 DEF Discover
  <2>4. /\ conn'[d] \in {[conn[d] EXCEPT !.status = "ACTIVE"], [conn[d] EXCEPT !.status = "ERROR"]}
        /\ \A c \in Code \ {d} : conn'[c] = conn[c]
    BY <2>1, <2>3 DEF TypeOK
  <2>5. conn'[d].stored = conn[d].stored /\ conn'[d].server = conn[d].server
    <3> HIDE DEF d
    <3> QED BY <2>1, <2>4 DEF ConnRow
  <2>6. QED
    BY <2>1, <2>2, <2>4, <2>5, TokensElsewhere
<1>4. CASE Fetch(h)
  <2> PICK d \in Code : d = handler[h].code
    BY <1>4, RequestShape DEF Fetch, TypeOK
  <2> DEFINE next == conn[d].server + 1
  <2>1. /\ handler[h].op = "refresh" /\ d \in Code /\ handler[h].token \in Nat
        /\ conn[d] \in ConnRow /\ conn[d].server \in Nat /\ conn[d].stored \in Nat
    BY <1>4, RequestShape DEF Fetch, TypeOK, ConnRow
  <2>2. Alone(h)
    BY <1>4 DEF Fetch, Becomes, Done, TypeOK, Alone
  <2>3. CASE conn' = conn /\ lost' = lost /\ handler' = [handler EXCEPT ![h] = Idle]
    <3>1. handler'[h].op = "idle"
      BY <2>3 DEF TypeOK, Idle
    <3>2. QED
      BY <2>1, <2>2, <2>3, <3>1, TokensElsewhere
  <2>4. ASSUME conn' = [conn EXCEPT ![d].server = next]
        PROVE  /\ conn'[d].server = next /\ conn'[d].stored = conn[d].stored
               /\ \A c \in Code \ {d} : conn'[c] = conn[c]
    <3>1. /\ conn'[d] = [conn[d] EXCEPT !.server = next]
          /\ \A c \in Code \ {d} : conn'[c] = conn[c]
      BY <2>1, <2>4 DEF TypeOK
    <3> HIDE DEF next
    <3>2. QED
      BY <2>1, <3>1 DEF ConnRow
  <2>5. ASSUME conn' = [conn EXCEPT ![d].server = next], lost' \in {lost, lost \cup {d}},
               handler'[h].op # "refresh",
               Storing(h, d)' \/ handler'[h].op = "idle",
               NEW c \in Code \ {d}, c \notin lost
        PROVE  TokenInv(c)'
    <3>1. \A k \in Handler : /\ Storing(k, c)' <=> Storing(k, c)
                             /\ Asking(k, c)' => Asking(k, c) /\ handler'[k] = handler[k]
                             /\ Storing(k, c) => handler'[k] = handler[k]
      BY <2>1, <2>2, <2>5 DEF Storing, Asking, Alone
    <3>2. conn'[c] = conn[c] /\ TokenInv(c)
      BY <2>4, <2>5 DEF TokensInv
    <3>3. QED
      BY <3>1, <3>2, TokenKept
  <2>6. CASE /\ handler[h].token = conn[d].server
             /\ conn' = [conn EXCEPT ![d].server = next] /\ lost' = lost
             /\ handler' = [handler EXCEPT ![h] = [op |-> "store", code |-> d, token |-> next]]
    <3>1. handler'[h].op = "store" /\ handler'[h].code = d /\ handler'[h].token = next
      BY <2>6 DEF TypeOK
    <3>2. Storing(h, d)'
      BY <3>1 DEF Storing
    <3>3. ASSUME d \notin lost PROVE TokenInv(d)'
      <4>1. TokenInv(d) /\ Asking(h, d)
        BY <2>1, <3>3 DEF TokensInv, Asking
      <4>2. handler[h].token <= conn[d].stored
        BY <4>1 DEF TokenInv
      <4>3. \A k \in Handler : ~Storing(k, d)
        BY <2>1, <2>6, <4>1, <4>2 DEF TokenInv
      <4>4. conn[d].stored = conn[d].server
        BY <4>1, <4>3 DEF TokenInv
      <4>5. \A k \in Handler : Storing(k, d)' => k = h
        BY <2>2, <4>3 DEF Storing, Alone
      <4>6. \A k \in Handler : Asking(k, d)' => Asking(k, d) /\ handler'[k] = handler[k]
        BY <2>2, <3>1 DEF Asking, Alone
      <4>7. conn'[d].server = next /\ conn'[d].stored = conn[d].stored
        BY <2>4, <2>6
      <4>8. \A k \in Handler : Asking(k, d)' => handler'[k].token <= conn'[d].stored
        BY <4>1, <4>6, <4>7 DEF TokenInv
      <4>9. \A k \in Handler : Storing(k, d)' =>
              handler'[k].token = conn'[d].server /\ conn'[d].stored < conn'[d].server
        BY <2>1, <3>1, <4>4, <4>5, <4>7
      <4>10. QED
        BY <3>2, <4>5, <4>8, <4>9 DEF TokenInv
    <3>4. ASSUME NEW c \in Code \ {d}, c \notin lost PROVE TokenInv(c)'
      BY <2>5, <2>6, <3>1, <3>2, <3>4
    <3>5. QED
      BY <2>1, <2>6, <3>3, <3>4 DEF TokensInv
  <2>7. CASE /\ conn' = [conn EXCEPT ![d].server = next] /\ lost' = lost \cup {d}
             /\ handler' = [handler EXCEPT ![h] = Idle]
    <3>1. handler'[h].op = "idle"
      BY <2>7 DEF TypeOK, Idle
    <3>2. ASSUME NEW c \in Code \ {d}, c \notin lost PROVE TokenInv(c)'
      BY <2>5, <2>7, <3>1, <3>2
    <3>3. QED
      BY <2>1, <2>7, <3>2 DEF TokensInv
  <2>8. QED
    BY <1>4, <2>3, <2>6, <2>7 DEF Fetch, Becomes, Done
<1>5. CASE Store(h)
  <2> PICK d \in Code : d = handler[h].code
    BY <1>5, RequestShape DEF Store, TypeOK
  <2> PICK token \in Nat : token = handler[h].token
    BY <1>5, RequestShape DEF Store, TypeOK
  <2>1. handler[h].op = "store" /\ d \in Code /\ conn[d] \in ConnRow /\ token \in Nat /\ lost' = lost
    BY <1>5, RequestShape DEF Store, TypeOK
  <2>2. Alone(h) /\ handler'[h].op = "idle"
    BY <1>5 DEF Store, Becomes, Done, TypeOK, Alone, Idle
  <2>3. /\ conn'[d].stored = token /\ conn'[d].server = conn[d].server
        /\ \A c \in Code \ {d} : conn'[c] = conn[c]
    <3>1. conn' = [conn EXCEPT ![d].stored = token, ![d].fresh = TRUE]
      BY <1>5 DEF Store, Stored
    <3>2. /\ conn'[d] = [conn[d] EXCEPT !.stored = token, !.fresh = TRUE]
          /\ \A c \in Code \ {d} : conn'[c] = conn[c]
      BY <2>1, <3>1 DEF TypeOK
    <3>3. QED
      BY <2>1, <3>2 DEF ConnRow
  <2>4. ASSUME d \notin lost PROVE TokenInv(d)'
    <3>1. TokenInv(d) /\ Storing(h, d)
      BY <2>1, <2>4 DEF TokensInv, Storing
    <3>2. token = conn[d].server /\ conn[d].stored < token
      BY <3>1 DEF TokenInv
    <3>3. \A k \in Handler : Storing(k, d) => k = h
      BY <3>1 DEF TokenInv
    <3>4. \A k \in Handler : ~Storing(k, d)'
      BY <2>2, <3>3 DEF Storing, Alone
    <3>5. ASSUME NEW k \in Handler, Asking(k, d)' PROVE handler'[k].token <= token
      <4>1. Asking(k, d) /\ handler'[k] = handler[k]
        BY <2>2, <3>5 DEF Asking, Alone
      <4>2. handler[k].token \in Nat /\ handler[k].token <= conn[d].stored
        BY <3>1, <4>1, RequestShape DEF TokenInv, Asking, TypeOK
      <4>3. conn[d].stored \in Nat
        BY <2>1 DEF ConnRow
      <4>4. QED
        BY <2>1, <3>2, <4>1, <4>2, <4>3
    <3>6. QED
      BY <2>3, <3>2, <3>4, <3>5 DEF TokenInv
  <2>5. ASSUME NEW c \in Code \ {d}, c \notin lost PROVE TokenInv(c)'
    <3>1. \A k \in Handler : /\ Storing(k, c)' <=> Storing(k, c)
                             /\ Asking(k, c)' => Asking(k, c) /\ handler'[k] = handler[k]
                             /\ Storing(k, c) => handler'[k] = handler[k]
      BY <2>1, <2>2, <2>5 DEF Storing, Asking, Alone
    <3>2. conn'[c] = conn[c] /\ TokenInv(c)
      BY <2>3, <2>5 DEF TokensInv
    <3>3. QED
      BY <3>1, <3>2, TokenKept
  <2>6. QED
    BY <2>1, <2>4, <2>5 DEF TokensInv
<1>6. QED
  BY <1>1, <1>2, <1>3, <1>4, <1>5 DEF Commit

LEMMA TokensInvariant == Spec => []TokensInv
<1>1. Init => TokensInv
  BY DEF Init, TokensInv, TokenInv, Storing, Asking, Idle
<1>2. TypeOK /\ CodesInv /\ TokensInv /\ [Next]_vars => TokensInv'
  <2> SUFFICES ASSUME TypeOK, CodesInv, TokensInv, [Next]_vars PROVE TokensInv'
    OBVIOUS
  <2>1. ASSUME lost' = lost, handler' = handler,
               \A c \in Code : conn'[c].stored = conn[c].stored /\ conn'[c].server = conn[c].server
        PROVE  TokensInv'
    BY <2>1 DEF TokensInv, TokenInv, Storing, Asking
  <2>2. CASE UNCHANGED vars
    BY <2>1, <2>2 DEF vars, oauth
  <2>3. ASSUME NEW h \in Handler, Begin(h) \/ Commit(h) PROVE TokensInv'
    BY <2>3, TokensBegin, TokensCommit
  <2>4. ASSUME NEW u \in User, NEW c \in Code, NEW kind \in {"cbot", "agent", "oauth"},
               Issue(u, c, kind)
        PROVE  TokensInv'
    BY <2>1, <2>4 DEF Issue, oauth
  <2>5. CASE Tick
    <3>1. \A c \in Code : conn'[c].stored = conn[c].stored /\ conn'[c].server = conn[c].server
      BY <2>5 DEF Tick, TypeOK, ConnRow
    <3>2. QED
      BY <2>1, <2>5, <3>1 DEF Tick
  <2>6. CASE Restart
    <3>1. ASSUME NEW c \in Code \ lost' PROVE TokenInv(c)'
      <4>1. c \notin lost /\ \A h \in Handler : ~Storing(h, c)
        BY <2>6, <3>1 DEF Restart, Storing
      <4>2. conn[c].stored = conn[c].server /\ conn' = conn
        BY <2>6, <4>1, <3>1 DEF TokensInv, TokenInv, Restart
      <4>3. \A h \in Handler : ~Storing(h, c)' /\ ~Asking(h, c)'
        BY <2>6 DEF Restart, Idle, Storing, Asking
      <4>4. QED
        BY <4>2, <4>3 DEF TokenInv
    <3>2. QED
      BY <3>1 DEF TokensInv
  <2>7. QED
    BY <2>2, <2>3, <2>4, <2>5, <2>6 DEF Next
<1>3. QED
  BY <1>1, <1>2, TypeCorrect, CodesInvariant, PTL DEF Spec

\* A connection is only ever cut off by an answer that was lost, however many
\* requests refresh its tokens at a time.
THEOREM ConnectionsStay == Spec => []StaysConnected
<1>1. TokensInv => StaysConnected
  BY DEF TokensInv, TokenInv, StaysConnected, Storing
<1>2. QED
  BY <1>1, TokensInvariant, PTL
-----------------------------------------------------------------------------
(***************************************************************************)
(* Lapses.  A request that is to write EXPIRED has seen its row ended, and *)
(* a row keeps its place and its end for ever.                             *)
(***************************************************************************)
Lapsing(h) == handler[h].op = "set" /\ handler[h].status = "EXPIRED"
Over(u, i) == i \in DOMAIN subs[u] /\ subs[u][i].until <= now

LapseInv == \A h \in Handler : Lapsing(h) => Over(handler[h].user, handler[h].sub)

\* A row stays, with its end, and expires only by a request for it.
RowStays(u, i) ==
  /\ i \in DOMAIN subs'[u] /\ subs'[u][i].until = subs[u][i].until
  /\ subs[u][i].status # "EXPIRED" /\ subs'[u][i].status = "EXPIRED" =>
       \E h \in Handler : Lapsing(h) /\ handler[h].user = u /\ handler[h].sub = i

LEMMA RowsStay ==
  ASSUME TypeOK, [Next]_vars, NEW u \in User, NEW i \in DOMAIN subs[u]
  PROVE  RowStays(u, i)
<1>1. subs[u] \in Seq(SubRow) /\ subs[u][i] \in SubRow
  <2>1. subs[u] \in Seq(SubRow)
    BY DEF TypeOK
  <2>2. QED
    BY <2>1
<1>2. ASSUME subs'[u] = subs[u] PROVE RowStays(u, i)
  BY <1>2 DEF RowStays
<1>3. ASSUME NEW h \in Handler, CommitGrant(h) PROVE RowStays(u, i)
  <2> DEFINE r == handler[h]
             left == [j \in DOMAIN subs[r.user] |->
                        IF j \in r.replaced /\ subs[r.user][j].status \in Live
                          THEN [subs[r.user][j] EXCEPT !.status = "CANCELED"]
                          ELSE subs[r.user][j]]
             new == [status |-> IF r.plan = "TRIAL" THEN "TRIAL" ELSE "ACTIVE",
                     plan |-> r.plan, until |-> r.until]
  <2>1. subs' = [subs EXCEPT ![r.user] = Append(left, new)]
    BY <1>3 DEF CommitGrant
  <2>2. CASE r.user # u
    <3>1. subs'[u] = subs[u]
      <4> HIDE DEF left, new, r
      <4> QED BY <2>1, <2>2 DEF TypeOK
    <3>2. QED
      BY <1>2, <3>1
  <2>3. CASE r.user = u
    <3>1. left[i] \in {subs[u][i], [subs[u][i] EXCEPT !.status = "CANCELED"]}
      BY <2>3
    <3>2. left[i].until = subs[u][i].until /\ (left[i].status = "EXPIRED" => left[i] = subs[u][i])
      <4> HIDE DEF left, r
      <4> QED BY <1>1, <3>1 DEF SubRow
    <3>3. left \in Seq(SubRow) /\ i \in DOMAIN left
      <4>1. DOMAIN left = 1 .. Len(subs[u]) /\ Len(subs[u]) \in Nat
        BY <1>1, <2>3
      <4>2. \A j \in DOMAIN subs[u] : subs[u][j] \in SubRow
        BY <1>1
      <4>3. left \in [1 .. Len(subs[u]) -> SubRow]
        BY <2>3, <4>1, <4>2 DEF SubRow, SubStatus
      <4>4. i \in DOMAIN left
        BY <2>3
      <4> HIDE DEF left
      <4>5. QED
        BY <4>1, <4>3, <4>4
    <3>4. subs'[u] = Append(left, new)
      <4> HIDE DEF left, new, r
      <4> QED BY <2>1, <2>3 DEF TypeOK
    <3>5. i \in DOMAIN subs'[u] /\ subs'[u][i] = left[i]
      <4> HIDE DEF left, new
      <4> QED BY <3>3, <3>4
    <3>6. QED
      <4> HIDE DEF left, new
      <4> QED BY <3>2, <3>5 DEF RowStays
  <2>4. QED
    BY <2>2, <2>3
<1>4. ASSUME NEW h \in Handler, CommitSet(h) PROVE RowStays(u, i)
  <2> DEFINE r == handler[h]
  <2>1. r.user \in User /\ r.status \in {"SUSPENDED", "EXPIRED"} /\ handler[h].op = "set"
    BY <1>4, RequestShape DEF CommitSet, TypeOK
  <2>2. subs' = [subs EXCEPT ![r.user] = SetById(r)]
    BY <1>4 DEF CommitSet
  <2>3. CASE r.user # u
    <3>1. subs'[u] = subs[u]
      <4> HIDE DEF r
      <4> QED BY <2>2, <2>3 DEF TypeOK
    <3>2. QED
      BY <1>2, <3>1
  <2>4. CASE r.user = u
    <3>1. subs'[u] = [subs[u] EXCEPT ![r.sub].status = r.status]
      <4>1. SetById(r) = [subs[u] EXCEPT ![r.sub].status = r.status]
        BY <2>4 DEF SetById
      <4> HIDE DEF r
      <4>2. QED
        BY <2>2, <2>4, <4>1 DEF TypeOK
    <3>2. i \in DOMAIN subs'[u]
      BY <3>1
    <3>3. CASE i # r.sub
      <4>1. subs'[u][i] = subs[u][i]
        BY <3>1, <3>3
      <4>2. QED
        BY <3>2, <4>1 DEF RowStays
    <3>4. CASE i = r.sub
      <4>1. subs'[u][i] = [subs[u][i] EXCEPT !.status = r.status]
        BY <3>1, <3>4
      <4>2. subs'[u][i].until = subs[u][i].until /\ subs'[u][i].status = r.status
        <5> HIDE DEF r
        <5> QED BY <1>1, <4>1 DEF SubRow
      <4>3. r.status = "EXPIRED" => Lapsing(h)
        BY <2>1 DEF Lapsing
      <4>4. QED
        BY <2>4, <3>2, <3>4, <4>2, <4>3 DEF RowStays
    <3>5. QED
      BY <3>3, <3>4
  <2>5. QED
    BY <2>3, <2>4
<1>5. CASE UNCHANGED subs
  BY <1>2, <1>5
<1>6. QED
  <2>1. ASSUME NEW h \in Handler, Begin(h) PROVE UNCHANGED subs
    BY <2>1 DEF Begin, BeginGrant, BeginSuspend, BeginLapse, BeginClaim, BeginHeartbeat,
                BeginComplete, BeginRefresh
  <2>2. ASSUME NEW h \in Handler, Commit(h), ~CommitGrant(h), ~CommitSet(h) PROVE UNCHANGED subs
    BY <2>2 DEF Commit, OpenGrant, CommitClaim, CommitHeartbeat, Consume, Exchange, Discover,
                Fetch, Store
  <2>3. CASE Tick \/ Restart \/ UNCHANGED vars
    BY <1>5, <2>3 DEF Tick, Restart, vars
  <2>4. ASSUME NEW v \in User, NEW c \in Code, NEW kind \in {"cbot", "agent", "oauth"},
               Issue(v, c, kind)
        PROVE  UNCHANGED subs
    BY <2>4 DEF Issue
  <2>5. QED
    BY <1>3, <1>4, <1>5, <2>1, <2>2, <2>3, <2>4 DEF Next

\* A request that is to write EXPIRED is an old one, or has just read its row.
LEMMA NewLapses ==
  ASSUME TypeOK, [Next]_vars, NEW h \in Handler, Lapsing(h)'
  PROVE  handler'[h] = handler[h] \/ Over(handler'[h].user, handler'[h].sub)
<1> DEFINE old == handler'[h] = handler[h] \/ Over(handler'[h].user, handler'[h].sub)
<1>1. ASSUME NEW k \in Handler, NEW u \in User, BeginLapse(k, u) PROVE old
  <2>1. PICK i \in Current(u) :
          /\ subs[u][i].until <= now
          /\ handler' = [handler EXCEPT ![k] =
               [op |-> "set", user |-> u, sub |-> i, status |-> "EXPIRED"]]
    BY <1>1 DEF BeginLapse, Serve
  <2>2. i \in DOMAIN subs[u]
    BY NewestIsRow DEF Current
  <2>3. Over(u, i)
    BY <2>1, <2>2 DEF Over
  <2>4. CASE k = h
    <3>1. handler'[h].user = u /\ handler'[h].sub = i
      BY <2>1, <2>4 DEF TypeOK
    <3>2. QED
      BY <2>3, <3>1
  <2>5. CASE k # h
    BY <2>1, <2>5 DEF TypeOK
  <2>6. QED
    BY <2>4, <2>5
<1>2. ASSUME NEW k \in Handler, NEW r, handler' = [handler EXCEPT ![k] = r],
             ~(r.op = "set" /\ r.status = "EXPIRED")
      PROVE  old
  BY <1>2 DEF TypeOK, Lapsing
<1>3. ASSUME NEW k \in Handler, Begin(k) PROVE old
  <2>1. ASSUME NEW u \in User, NEW plan \in Plan, BeginGrant(k, u, plan) PROVE old
    BY <1>2, <2>1 DEF BeginGrant, Serve
  <2>2. ASSUME NEW u \in User, BeginSuspend(k, u) PROVE old
    BY <1>2, <2>2 DEF BeginSuspend, Serve
  <2>3. ASSUME NEW c \in Code, NEW p \in Place, BeginClaim(k, c, p) PROVE old
    BY <1>2, <2>3 DEF BeginClaim, Serve
  <2>4. ASSUME NEW c \in Code, BeginComplete(k, c) \/ BeginRefresh(k, c) PROVE old
    BY <1>2, <2>4 DEF BeginComplete, BeginRefresh, Serve
  <2>5. ASSUME NEW p \in Place, NEW a \in Account, BeginHeartbeat(k, p, a) PROVE old
    BY <1>2, <2>5 DEF BeginHeartbeat, Serve
  <2>6. QED
    BY <1>1, <1>3, <2>1, <2>2, <2>3, <2>4, <2>5 DEF Begin
<1>4. ASSUME NEW k \in Handler, Commit(k) PROVE old
  <2>1. CASE OpenGrant(k)
    BY <1>2, <2>1 DEF OpenGrant, Becomes
  <2>2. CASE \/ CommitGrant(k) \/ CommitSet(k) \/ CommitClaim(k) \/ CommitHeartbeat(k)
             \/ Discover(k) \/ Store(k)
    BY <1>2, <2>2 DEF CommitGrant, CommitSet, CommitClaim, CommitHeartbeat, Discover, Store,
                      Done, Becomes, Idle
  <2>3. CASE Consume(k) \/ Exchange(k) \/ Fetch(k)
    BY <1>2, <2>3 DEF Consume, Exchange, Fetch, Done, Becomes, Idle
  <2>4. QED
    BY <1>4, <2>1, <2>2, <2>3 DEF Commit
<1>5. CASE UNCHANGED handler
  BY <1>5
<1>6. CASE Restart
  BY <1>6 DEF Restart, Idle, Lapsing
<1>7. QED
  BY <1>3, <1>4, <1>5, <1>6 DEF Next, vars, Issue, Tick

LEMMA LapsesInvariant == Spec => []LapseInv
<1>1. Init => LapseInv
  BY DEF Init, LapseInv, Lapsing, Idle
<1>2. TypeOK /\ LapseInv /\ [Next]_vars => LapseInv'
  <2> SUFFICES ASSUME TypeOK, LapseInv, [Next]_vars, NEW h \in Handler, Lapsing(h)'
               PROVE  Over(handler[h].user, handler[h].sub)'
    BY DEF LapseInv
  <2> DEFINE u == handler'[h].user
             i == handler'[h].sub
  <2>1. Over(u, i)
    BY NewLapses DEF LapseInv, Lapsing
  <2>2. u \in User
    <3>1. handler' \in [Handler -> Request]
      BY RequestsTyped DEF TypeOK, vars
    <3>2. handler'[h] \in Request /\ handler'[h].op = "set"
      BY <3>1 DEF Lapsing
    <3>3. QED
      BY <3>2, RequestShape
  <2>3. now \in Nat /\ now' \in Nat /\ now <= now'
    <3>1. now \in Nat
      BY DEF TypeOK
    <3>2. now' = now \/ now' = now + 1
      BY DEF Next, vars, env, Begin, BeginGrant, BeginSuspend, BeginLapse, BeginClaim,
             BeginHeartbeat, BeginComplete, BeginRefresh, Commit, OpenGrant, CommitGrant,
             CommitSet, CommitClaim, CommitHeartbeat, Consume, Exchange, Discover, Fetch,
             Store, Issue, Tick, Restart
    <3>3. QED
      BY <3>1, <3>2
  <2>4. RowStays(u, i) /\ subs[u][i].until \in Nat
    <3>1. i \in DOMAIN subs[u]
      BY <2>1 DEF Over
    <3>2. subs[u] \in Seq(SubRow)
      BY <2>2 DEF TypeOK
    <3>3. subs[u][i] \in SubRow
      BY <3>1, <3>2
    <3>4. QED
      BY <2>2, <3>1, <3>3, RowsStay DEF SubRow
  <2>5. i \in DOMAIN subs'[u] /\ subs'[u][i].until <= now'
    BY <2>1, <2>3, <2>4 DEF RowStays, Over
  <2>6. QED
    BY <2>5 DEF Over
<1>3. QED
  BY <1>1, <1>2, TypeCorrect, PTL DEF Spec

\* A subscription is never ended before its time, whatever is granted between
\* the reading of a lapse and its writing.
THEOREM NoneEndsEarly == Spec => NoEarlyLapse
<1> DEFINE Step == \A u \in User : \A i \in DOMAIN subs[u] :
                     subs[u][i].status # "EXPIRED" /\ subs'[u][i].status = "EXPIRED"
                       => subs[u][i].until <= now
<1>1. TypeOK /\ LapseInv /\ [Next]_vars => Step
  <2> SUFFICES ASSUME TypeOK, LapseInv, [Next]_vars, NEW u \in User, NEW i \in DOMAIN subs[u],
                      subs[u][i].status # "EXPIRED", subs'[u][i].status = "EXPIRED"
               PROVE  subs[u][i].until <= now
    OBVIOUS
  <2>1. PICK h \in Handler : Lapsing(h) /\ handler[h].user = u /\ handler[h].sub = i
    BY RowsStay DEF RowStays
  <2>2. QED
    BY <2>1 DEF LapseInv, Over
<1>2. QED
  BY <1>1, TypeCorrect, LapsesInvariant, PTL DEF Spec, NoEarlyLapse

-----------------------------------------------------------------------------
(***************************************************************************)
(* Owners.  A claim or a heartbeat compares the owner when it begins and   *)
(* writes later.  Others may write that row in between, but unless Overlap *)
(* only for the same user: those who find an owner agree with it, and a    *)
(* device without one is claimed for one user at a time.  Owners never     *)
(* change once there is one.                                               *)
(***************************************************************************)
Claiming(h, p) == handler[h].op = "claim" /\ handler[h].place = p
Beating(h, a)  == handler[h].op = "beat" /\ handler[h].account = a

ClaimsAgree ==
  \A h, k \in Handler, p \in Place : Claiming(h, p) /\ Claiming(k, p) =>
    code[handler[h].code].user = code[handler[k].code].user

BeatsAgree ==
  \A h, k \in Handler, a \in Account : Beating(h, a) /\ Beating(k, a) =>
    place[handler[h].place].owner = place[handler[k].place].owner

MayWrite ==
  /\ \A h \in Handler, p \in Place : Claiming(h, p) =>
       /\ code[handler[h].code].kind # "none"
       /\ OpenTo(place[p].owner, code[handler[h].code].user)
  /\ \A h \in Handler, a \in Account : Beating(h, a) =>
       /\ place[handler[h].place].owner # Nobody
       /\ OpenTo(account[a].owner, place[handler[h].place].owner)

HangsOnOwned == \A a \in Account : account[a].via # Nobody => place[account[a].via].owner # Nobody

OwnersInv == OwnersAgree /\ ClaimsAgree /\ BeatsAgree /\ MayWrite /\ HangsOnOwned

\* Codes that were issued keep their kind and their user.
CodesKept ==
  \A c \in Code : code[c].kind # "none" => code'[c].kind = code[c].kind /\ code'[c].user = code[c].user

\* Nobody begins to claim or to beat.
NoNewWriter == \A h \in Handler : handler'[h].op \in {"claim", "beat"} => handler'[h] = handler[h]

\* A request that writes a row names it.
LEMMA WriterShape ==
  ASSUME TypeOK, NEW h \in Handler
  PROVE  /\ handler[h].op = "claim" => /\ handler[h].code \in Code /\ handler[h].place \in Place
                                       /\ "place" \in DOMAIN handler[h]
         /\ handler[h].op = "beat" => /\ handler[h].place \in Place /\ handler[h].account \in Account
                                      /\ "account" \in DOMAIN handler[h]
<1>1. handler[h] \in Request
  BY DEF TypeOK
<1>2. QED
  BY <1>1, RequestShape

LEMMA CalmKeepsOwners ==
  ASSUME TypeOK, OwnersInv, CodesKept, NoNewWriter, UNCHANGED pairing
  PROVE  OwnersInv'
<1>1. \A h \in Handler, p \in Place : Claiming(h, p)' => Claiming(h, p) /\ handler'[h] = handler[h]
  BY DEF NoNewWriter, Claiming
<1>2. \A h \in Handler, a \in Account : Beating(h, a)' => Beating(h, a) /\ handler'[h] = handler[h]
  BY DEF NoNewWriter, Beating
<1>3. OwnersAgree' /\ HangsOnOwned'
  BY DEF OwnersInv, OwnersAgree, HangsOnOwned, pairing
<1>4. ASSUME NEW h \in Handler, NEW p \in Place, Claiming(h, p)'
      PROVE  /\ Claiming(h, p)
             /\ code'[handler'[h].code].kind # "none"
             /\ code'[handler'[h].code].user = code[handler[h].code].user
             /\ OpenTo(place[p].owner, code'[handler'[h].code].user)
  <2>1. Claiming(h, p) /\ handler'[h] = handler[h]
    BY <1>1, <1>4
  <2>2. handler[h].code \in Code
    BY <2>1, WriterShape DEF Claiming
  <2>3. QED
    BY <2>1, <2>2 DEF OwnersInv, MayWrite, CodesKept
<1>5. ClaimsAgree'
  BY <1>4 DEF OwnersInv, ClaimsAgree
<1>6. BeatsAgree'
  BY <1>2 DEF OwnersInv, BeatsAgree, pairing
<1>7. MayWrite'
  BY <1>2, <1>4 DEF OwnersInv, MayWrite, OpenTo, pairing
<1>8. QED
  BY <1>3, <1>5, <1>6, <1>7 DEF OwnersInv

\* The steps of which the lemma above speaks are all but four.
LEMMA OwnersSteps ==
  ASSUME TypeOK, CodesInv, Next
  PROVE  \/ CodesKept /\ NoNewWriter /\ UNCHANGED pairing
         \/ \E h \in Handler : \/ CommitClaim(h) \/ CommitHeartbeat(h)
                               \/ \E c \in Code, p \in Place : BeginClaim(h, c, p)
                               \/ \E p \in Place, a \in Account : BeginHeartbeat(h, p, a)
<1>1. ASSUME UNCHANGED code PROVE CodesKept
  BY <1>1 DEF CodesKept
<1>2. ASSUME NEW h \in Handler, Alone(h), handler'[h].op \notin {"claim", "beat"} PROVE NoNewWriter
  BY <1>2 DEF Alone, NoNewWriter
<1>3. ASSUME NEW h \in Handler, NEW r, r.op \notin {"claim", "beat"},
             handler' = [handler EXCEPT ![h] = r]
      PROVE  NoNewWriter
  BY <1>2, <1>3 DEF Alone, TypeOK
<1>4. ASSUME NEW h \in Handler, NEW u \in User, NEW plan \in Plan, BeginGrant(h, u, plan)
      PROVE  CodesKept /\ NoNewWriter /\ UNCHANGED pairing
  BY <1>1, <1>3, <1>4 DEF BeginGrant, Serve, codes
<1>5. ASSUME NEW h \in Handler, NEW u \in User, BeginSuspend(h, u) \/ BeginLapse(h, u)
      PROVE  CodesKept /\ NoNewWriter /\ UNCHANGED pairing
  BY <1>1, <1>3, <1>5 DEF BeginSuspend, BeginLapse, Serve, codes
<1>6. ASSUME NEW h \in Handler, NEW c \in Code, BeginComplete(h, c) \/ BeginRefresh(h, c)
      PROVE  CodesKept /\ NoNewWriter /\ UNCHANGED pairing
  BY <1>1, <1>3, <1>6 DEF BeginComplete, BeginRefresh, Serve, codes
<1>7. ASSUME NEW h \in Handler, OpenGrant(h) \/ CommitGrant(h) \/ CommitSet(h)
      PROVE  CodesKept /\ NoNewWriter /\ UNCHANGED pairing
  BY <1>1, <1>3, <1>7 DEF OpenGrant, CommitGrant, CommitSet, Becomes, Done, Idle, codes
<1>8. ASSUME NEW h \in Handler, Exchange(h) \/ Discover(h) \/ Fetch(h) \/ Store(h)
      PROVE  CodesKept /\ NoNewWriter /\ UNCHANGED pairing
  BY <1>1, <1>3, <1>8 DEF Exchange, Discover, Fetch, Store, Becomes, Done, Idle, codes
<1>9. ASSUME NEW h \in Handler, Consume(h) PROVE CodesKept /\ NoNewWriter /\ UNCHANGED pairing
  <2>1. handler[h].code \in Code
    BY <1>9, RequestShape DEF Consume, TypeOK
  <2>2. CASE UNCHANGED code
    BY <1>1, <1>3, <1>9, <2>2 DEF Consume, Becomes, Done, Idle
  <2>3. CASE Redeemable(handler[h].code) /\ code' = [code EXCEPT ![handler[h].code].used = TRUE]
    <3>1. CodesKept
      BY <2>1, <2>3, RedeemedRow DEF CodesKept
    <3>2. QED
      BY <1>3, <1>9, <3>1 DEF Consume, Becomes, Done, Idle
  <2>4. QED
    BY <1>9, <2>2, <2>3 DEF Consume
<1>10. ASSUME NEW u \in User, NEW c \in Code, NEW kind \in {"cbot", "agent", "oauth"}, Issue(u, c, kind)
       PROVE  CodesKept /\ NoNewWriter /\ UNCHANGED pairing
  BY <1>10 DEF Issue, CodesKept, NoNewWriter, TypeOK
<1>11. ASSUME Tick \/ Restart PROVE CodesKept /\ NoNewWriter /\ UNCHANGED pairing
  BY <1>1, <1>11 DEF Tick, Restart, NoNewWriter, Idle, codes
<1>12. QED
  BY <1>4, <1>5, <1>6, <1>7, <1>8, <1>9, <1>10, <1>11 DEF Next, Begin, Commit

LEMMA ClaimBegins ==
  ASSUME TypeOK, OwnersInv, Overlap = FALSE,
         NEW h \in Handler, NEW c \in Code, NEW p \in Place, BeginClaim(h, c, p)
  PROVE  OwnersInv'
<1>1. /\ handler'[h].op = "claim" /\ handler'[h].code = c /\ handler'[h].place = p /\ Alone(h)
      /\ UNCHANGED <<code, place, account>>
  BY DEF BeginClaim, Serve, TypeOK, Alone, codes, pairing
<1>2. code[c].kind # "none" /\ OpenTo(place[p].owner, code[c].user)
  BY DEF BeginClaim, Place
<1>3. \A k \in Handler : Claiming(k, p) => code[handler[k].code].user = code[c].user
  <2>1. CASE place[p].owner = Nobody
    BY <2>1 DEF BeginClaim, NoRivalClaim, Claiming
  <2>2. CASE place[p].owner # Nobody
    BY <1>2, <2>2 DEF OwnersInv, MayWrite, OpenTo
  <2>3. QED
    BY <2>1, <2>2
<1>4. \A k \in Handler, q \in Place : Claiming(k, q)' =>
        (k = h /\ q = p) \/ (k # h /\ Claiming(k, q) /\ handler'[k] = handler[k])
  BY <1>1 DEF Claiming, Alone
<1>5. \A k \in Handler, a \in Account : Beating(k, a)' => Beating(k, a) /\ handler'[k] = handler[k]
  BY <1>1 DEF Beating, Alone
<1>6. ClaimsAgree'
  BY <1>1, <1>3, <1>4 DEF OwnersInv, ClaimsAgree
<1>7. BeatsAgree'
  BY <1>1, <1>5 DEF OwnersInv, BeatsAgree
<1>8. MayWrite'
  BY <1>1, <1>2, <1>4, <1>5 DEF OwnersInv, MayWrite, OpenTo
<1>9. QED
  BY <1>1, <1>6, <1>7, <1>8 DEF OwnersInv, OwnersAgree, HangsOnOwned

LEMMA HeartbeatBegins ==
  ASSUME TypeOK, OwnersInv, Overlap = FALSE,
         NEW h \in Handler, NEW p \in Place, NEW a \in Account, BeginHeartbeat(h, p, a)
  PROVE  OwnersInv'
<1>1. /\ handler'[h].op = "beat" /\ handler'[h].account = a /\ handler'[h].place = p /\ Alone(h)
      /\ UNCHANGED <<code, place, account>>
  BY DEF BeginHeartbeat, Serve, TypeOK, Alone, codes, pairing
<1>2. place[p].owner # Nobody /\ OpenTo(account[a].owner, place[p].owner)
  BY DEF BeginHeartbeat
<1>3. \A k \in Handler : Beating(k, a) => place[handler[k].place].owner = place[p].owner
  <2>1. CASE account[a].owner = Nobody
    BY <2>1 DEF BeginHeartbeat, NoRivalBeat, Beating
  <2>2. CASE account[a].owner # Nobody
    BY <1>2, <2>2 DEF OwnersInv, MayWrite, OpenTo
  <2>3. QED
    BY <2>1, <2>2
<1>4. \A k \in Handler, b \in Account : Beating(k, b)' =>
        (k = h /\ b = a) \/ (k # h /\ Beating(k, b) /\ handler'[k] = handler[k])
  BY <1>1 DEF Beating, Alone
<1>5. \A k \in Handler, q \in Place : Claiming(k, q)' => Claiming(k, q) /\ handler'[k] = handler[k]
  BY <1>1 DEF Claiming, Alone
<1>6. ClaimsAgree'
  BY <1>1, <1>5 DEF OwnersInv, ClaimsAgree
<1>7. BeatsAgree'
  BY <1>1, <1>3, <1>4 DEF OwnersInv, BeatsAgree
<1>8. MayWrite'
  BY <1>1, <1>2, <1>4, <1>5 DEF OwnersInv, MayWrite, OpenTo
<1>9. QED
  BY <1>1, <1>6, <1>7, <1>8 DEF OwnersInv, OwnersAgree, HangsOnOwned

\* The request of h is over.
LEMMA WriterEnds ==
  ASSUME TypeOK, NEW h \in Handler, handler' = [handler EXCEPT ![h] = Idle]
  PROVE  \A k \in Handler : handler'[k].op \in {"claim", "beat"} => k # h /\ handler'[k] = handler[k]
  BY DEF TypeOK, Idle

LEMMA ClaimCommits ==
  ASSUME TypeOK, CodesInv, OwnersInv, NEW h \in Handler, CommitClaim(h)
  PROVE  OwnersInv'
<1> DEFINE c == handler[h].code
           p == handler[h].place
           u == code[c].user
<1>1. c \in Code /\ p \in Place /\ Claiming(h, p)
  BY WriterShape DEF CommitClaim, Claiming
<1>2. handler' = [handler EXCEPT ![h] = Idle] /\ account' = account
  BY DEF CommitClaim, Done, Becomes
<1>3. NoNewWriter
  BY <1>2, WriterEnds DEF NoNewWriter
<1>4. CASE UNCHANGED <<codes, place>>
  BY <1>2, <1>3, <1>4, CalmKeepsOwners DEF CodesKept, codes, pairing
<1>5. CASE /\ Redeemable(c) /\ code' = [code EXCEPT ![c].used = TRUE]
           /\ place' = [place EXCEPT ![p] = [owner |-> IF @.owner = Nobody THEN u ELSE @.owner,
                                             holder |-> u]]
  <2>1. CodesKept
    BY <1>1, <1>5, RedeemedRow DEF CodesKept
  <2>2. place'[p].owner = u /\ place'[p].holder = u /\ \A q \in Place \ {p} : place'[q] = place[q]
    BY <1>1, <1>5 DEF OwnersInv, MayWrite, OpenTo, TypeOK
  <2>3. place[p].owner # Nobody => place'[p].owner = place[p].owner
    BY <1>1, <2>2 DEF OwnersInv, MayWrite, OpenTo
  <2>4. \A q \in Place : place[q].owner # Nobody => place'[q].owner = place[q].owner
    BY <2>2, <2>3
  <2>5. \A a \in Account : account[a].via # Nobody => account[a].via \in Place
    BY DEF TypeOK, AccountRow
  <2>6. OwnersAgree'
    BY <1>2, <2>2, <2>4, <2>5 DEF OwnersInv, OwnersAgree, HangsOnOwned
  <2>7. HangsOnOwned'
    BY <1>2, <2>4, <2>5 DEF OwnersInv, HangsOnOwned
  <2>8. \A k \in Handler, q \in Place : Claiming(k, q)' =>
          k # h /\ Claiming(k, q) /\ handler'[k] = handler[k]
    BY <1>1, <1>2, WriterEnds DEF Claiming
  <2>9. \A k \in Handler, a \in Account : Beating(k, a)' => Beating(k, a) /\ handler'[k] = handler[k]
    BY <1>2, WriterEnds DEF Beating
  <2>10. ASSUME NEW k \in Handler, NEW q \in Place, Claiming(k, q)'
         PROVE  /\ code'[handler'[k].code].kind # "none"
                /\ code'[handler'[k].code].user = code[handler[k].code].user
                /\ OpenTo(place'[q].owner, code'[handler'[k].code].user)
    <3>1. Claiming(k, q) /\ handler'[k] = handler[k]
      BY <2>8, <2>10
    <3>2. handler[k].code \in Code
      BY <3>1, WriterShape DEF Claiming
    <3>3. /\ code'[handler'[k].code].kind # "none"
          /\ code'[handler'[k].code].user = code[handler[k].code].user
      BY <2>1, <3>1, <3>2 DEF OwnersInv, MayWrite, CodesKept
    <3>4. CASE q = p
      <4>1. code[handler[k].code].user = u
        BY <1>1, <3>1, <3>4 DEF OwnersInv, ClaimsAgree
      <4>2. QED
        BY <2>2, <3>3, <3>4, <4>1 DEF OpenTo
    <3>5. CASE q # p
      BY <2>2, <3>1, <3>3, <3>5 DEF OwnersInv, MayWrite
    <3>6. QED
      BY <3>3, <3>4, <3>5
  <2>11. ClaimsAgree'
    BY <2>8, <2>10 DEF OwnersInv, ClaimsAgree
  <2>12. ASSUME NEW k \in Handler, NEW a \in Account, Beating(k, a)'
         PROVE  /\ place'[handler'[k].place].owner # Nobody
                /\ OpenTo(account'[a].owner, place'[handler'[k].place].owner)
    <3>1. Beating(k, a) /\ handler'[k] = handler[k] /\ handler[k].place \in Place
      BY <2>9, <2>12, WriterShape DEF Beating
    <3>2. QED
      BY <1>2, <2>4, <3>1 DEF OwnersInv, MayWrite
  <2>13. MayWrite'
    BY <2>10, <2>12 DEF MayWrite, OpenTo
  <2>14. BeatsAgree'
    <3>1. \A k \in Handler, a \in Account : Beating(k, a) =>
            place'[handler[k].place].owner = place[handler[k].place].owner
      BY <2>4, WriterShape DEF OwnersInv, MayWrite, Beating
    <3>2. QED
      BY <2>9, <3>1 DEF OwnersInv, BeatsAgree
  <2>15. QED
    BY <2>6, <2>7, <2>11, <2>13, <2>14 DEF OwnersInv
<1>6. QED
  BY <1>4, <1>5 DEF CommitClaim

LEMMA HeartbeatCommits ==
  ASSUME TypeOK, OwnersInv, NEW h \in Handler, CommitHeartbeat(h)
  PROVE  OwnersInv'
<1> DEFINE p == handler[h].place
           a == handler[h].account
<1>1. p \in Place /\ a \in Account /\ Beating(h, a)
  BY WriterShape DEF CommitHeartbeat, Beating
<1>2. handler' = [handler EXCEPT ![h] = Idle] /\ UNCHANGED <<code, place>>
  BY DEF CommitHeartbeat, Done, Becomes, codes
<1>3. place[p].owner # Nobody /\ OpenTo(account[a].owner, place[p].owner)
  BY <1>1 DEF OwnersInv, MayWrite
<1>4. /\ account'[a].owner = place[p].owner /\ account'[a].via = p
      /\ \A b \in Account \ {a} : account'[b] = account[b]
  BY <1>1, <1>3 DEF CommitHeartbeat, OpenTo, TypeOK
<1>5. OwnersAgree' /\ HangsOnOwned'
  BY <1>2, <1>3, <1>4 DEF OwnersInv, OwnersAgree, HangsOnOwned
<1>6. \A k \in Handler, b \in Account : Beating(k, b)' =>
        Beating(k, b) /\ handler'[k] = handler[k]
  BY <1>1, <1>2, WriterEnds DEF Beating
<1>7. \A k \in Handler, q \in Place : Claiming(k, q)' => Claiming(k, q) /\ handler'[k] = handler[k]
  BY <1>2, WriterEnds DEF Claiming
<1>8. ClaimsAgree' /\ BeatsAgree'
  BY <1>2, <1>6, <1>7 DEF OwnersInv, ClaimsAgree, BeatsAgree
<1>9. ASSUME NEW k \in Handler, NEW b \in Account, Beating(k, b)'
      PROVE  OpenTo(account'[b].owner, place[handler[k].place].owner)
  <2>1. CASE b = a
    <3>1. place[handler[k].place].owner = place[p].owner
      BY <1>1, <1>6, <1>9, <2>1 DEF OwnersInv, BeatsAgree
    <3>2. QED
      BY <1>4, <2>1, <3>1 DEF OpenTo
  <2>2. CASE b # a
    BY <1>4, <1>6, <1>9, <2>2 DEF OwnersInv, MayWrite
  <2>3. QED
    BY <2>1, <2>2
<1>10. MayWrite'
  BY <1>2, <1>6, <1>7, <1>9 DEF OwnersInv, MayWrite, OpenTo
<1>11. QED
  BY <1>5, <1>8, <1>10 DEF OwnersInv

\* Whoever holds the token of a terminal owns it, and an account hangs on a
\* terminal of its owner, however requests overlap, as long as no two users are
\* first on one device or account together.
THEOREM TerminalsKeepTheirOwner == ASSUME Overlap = FALSE PROVE Spec => []OwnersAgree
<1>1. Init => OwnersInv
  BY DEF Init, OwnersInv, OwnersAgree, ClaimsAgree, BeatsAgree, MayWrite, HangsOnOwned, Claiming,
         Beating, Idle
<1>2. TypeOK /\ CodesInv /\ OwnersInv /\ [Next]_vars => OwnersInv'
  <2>1. ASSUME TypeOK, OwnersInv, UNCHANGED vars PROVE OwnersInv'
    BY <2>1, CalmKeepsOwners DEF CodesKept, NoNewWriter, vars, codes
  <2>2. QED
    BY <2>1, OwnersSteps, CalmKeepsOwners, ClaimBegins, HeartbeatBegins, ClaimCommits, HeartbeatCommits
<1>3. OwnersInv => OwnersAgree
  BY DEF OwnersInv
<1>4. QED
  BY <1>1, <1>2, <1>3, TypeCorrect, CodesInvariant, PTL DEF Spec
=============================================================================
