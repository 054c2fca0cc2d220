--------------------------- MODULE RegistryProofs ---------------------------
(***************************************************************************)
(* Proofs about RegistryClient for every number of repositories, every     *)
(* page size, lifetime and refresh margin.                                 *)
(***************************************************************************)
EXTENDS RegistryClient, TLAPS

Token == [issued : BOOLEAN, fresh : Nat, life : Nat, lag : Nat, revoked : BOOLEAN]

Bearer == [scope : Repos \union {None}, ttl : Nat, life : Nat, lag : Nat, revoked : BOOLEAN,
           reused : BOOLEAN, waited : Nat]

Asking == pc \in {"ask", "challenged", "exchange", "retry"}

TokenTypes ==
    /\ tok \in [Repos -> Token]
    /\ bearer \in Bearer
    /\ Asking => call.repo \in Repos

(* A token outlives its refresh instant by the margin less the time its    *)
(* exchange took.                                                          *)
Outlives(t) == t.fresh > 0 => t.lag > Margin \/ t.life + t.lag >= t.fresh + Margin

FreshOutlives == \A s \in Repos : Outlives(tok[s])

(* A token on its way has aged by the time it is under way.                *)
ExchangeAges ==
    pc = "exchange" => /\ bearer.scope = call.repo /\ ~bearer.reused
                       /\ bearer.lag > Margin \/ bearer.life + bearer.lag >= bearer.ttl

(* And a reused one by the time of its retry.                              *)
RetryAges ==
    pc = "retry" /\ bearer.reused =>
        /\ bearer.scope = call.repo
        /\ bearer.lag + bearer.waited > Margin \/ bearer.life + bearer.lag + bearer.waited > Margin

TokenInv == TokenTypes /\ FreshOutlives /\ ExchangeAges /\ RetryAges

(* The client starts without tokens.                                       *)
LEMMA TokenInit == Init => TokenInv
<1> SUFFICES ASSUME Init PROVE TokenInv
  OBVIOUS
<1>1. NoToken \in Token /\ NoToken.fresh = 0 /\ NoBearer \in Bearer
  BY DEF NoToken, NoBearer, Token, Bearer
<1>2. tok \in [Repos -> Token] /\ \A s \in Repos : tok[s] = NoToken
  BY <1>1 DEF Init
<1>3. FreshOutlives
  BY <1>1, <1>2 DEF FreshOutlives, Outlives
<1> QED BY <1>1, <1>2, <1>3 DEF Init, TokenInv, TokenTypes, Asking, ExchangeAges, RetryAges

(* A step that ends the call, or starts its next request, drops the token. *)
LEMMA DropStep ==
    ASSUME TokenInv, tok' = tok, bearer' = NoBearer, pc' \notin {"exchange", "retry"},
           pc' \in {"ask", "challenged"} => call'.repo \in Repos
    PROVE  TokenInv'
<1>1. bearer' \in Bearer
  BY DEF NoBearer, Bearer
<1> QED BY <1>1 DEF TokenInv, TokenTypes, Asking, FreshOutlives, Outlives, ExchangeAges, RetryAges

(* A step that touches neither tokens nor the bearer.                      *)
LEMMA KeepStep ==
    ASSUME TokenInv, tok' = tok, bearer' = bearer,
           \/ pc' \notin {"exchange", "retry"} /\ (pc' \in {"ask", "challenged"} => call'.repo \in Repos)
           \/ pc' = pc /\ call' = call
    PROVE  TokenInv'
BY DEF TokenInv, TokenTypes, Asking, FreshOutlives, Outlives, ExchangeAges, RetryAges

(* Success ends the call or asks for the next page.                        *)
LEMMA SucceedStep ==
    ASSUME TokenInv, Succeed, tok' = tok, pc \in {"ask", "retry"} PROVE TokenInv'
BY DropStep DEF Succeed, Return, TokenInv, TokenTypes, Asking

(* A cached token is taken with what its exchange left of the margin.      *)
LEMMA UseCachedStep == ASSUME TokenInv, UseCached PROVE TokenInv'
<1> DEFINE s == call.repo
<1>1. s \in Repos /\ tok[s] \in Token /\ tok[s].fresh > 0
  BY DEF TokenInv, TokenTypes, Asking, UseCached, Cached, scopeForPath
<1>2. tok[s].lag > Margin \/ tok[s].life + tok[s].lag >= tok[s].fresh + Margin
  BY <1>1 DEF TokenInv, FreshOutlives, Outlives
<1>3. /\ tok[s].life \in Nat /\ tok[s].fresh \in Nat /\ tok[s].lag \in Nat
      /\ tok[s].revoked \in BOOLEAN
  BY <1>1 DEF Token
<1>4. bearer' = [scope |-> s, ttl |-> 0, life |-> tok[s].life, lag |-> tok[s].lag,
                 revoked |-> tok[s].revoked, reused |-> TRUE, waited |-> 0]
  BY DEF UseCached, Reuse, scopeForPath
<1>5. bearer' \in Bearer
  BY <1>1, <1>3, <1>4 DEF Bearer
<1>6. /\ bearer'.scope = s
      /\ bearer'.life = tok[s].life /\ bearer'.lag = tok[s].lag /\ bearer'.waited = 0
  BY <1>4
<1>7. \/ bearer'.lag + bearer'.waited > Margin
      \/ bearer'.life + bearer'.lag + bearer'.waited > Margin
  BY <1>1, <1>2, <1>3, <1>6, ClientAssumption
<1>8. tok' = tok /\ call' = call /\ pc' = "retry"
  BY DEF UseCached
<1> QED BY <1>1, <1>5, <1>6, <1>7, <1>8
        DEF TokenInv, TokenTypes, FreshOutlives, Outlives, ExchangeAges, RetryAges

(* A token is issued with its whole life.                                  *)
LEMMA IssueTokenStep == ASSUME TokenInv, IssueToken PROVE TokenInv'
<1>1. call.repo \in Repos
  BY DEF TokenInv, TokenTypes, Asking, IssueToken
<1>2. PICK life \in Nat :
        bearer' = [scope |-> call.repo, ttl |-> life, life |-> life, lag |-> 0,
                   revoked |-> FALSE, reused |-> FALSE, waited |-> 0]
  BY ClientAssumption DEF IssueToken, scopeForPath
<1>3. bearer' \in Bearer
  BY <1>1, <1>2 DEF Bearer
<1>4. bearer'.scope = call.repo /\ ~bearer'.reused /\ bearer'.life + bearer'.lag >= bearer'.ttl
  BY <1>2
<1>5. tok' = tok /\ call' = call /\ pc' = "exchange"
  BY DEF IssueToken
<1> QED BY <1>1, <1>3, <1>4, <1>5
        DEF TokenInv, TokenTypes, FreshOutlives, Outlives, ExchangeAges, RetryAges

(* A fetched token is cached with its refresh instant, counted from the    *)
(* end of the exchange.                                                    *)
LEMMA FetchTokenStep == ASSUME TokenInv, FetchToken PROVE TokenInv'
<1> DEFINE new == [issued |-> TRUE, fresh |-> FreshFor(bearer.ttl), life |-> bearer.life,
                   lag |-> bearer.lag, revoked |-> bearer.revoked]
<1>1. /\ call.repo \in Repos /\ tok \in [Repos -> Token] /\ bearer \in Bearer
      /\ bearer.scope = call.repo /\ ~bearer.reused
      /\ bearer.lag > Margin \/ bearer.life + bearer.lag >= bearer.ttl
  BY DEF TokenInv, TokenTypes, Asking, ExchangeAges, FetchToken
<1>2. /\ bearer.ttl \in Nat /\ bearer.life \in Nat /\ bearer.lag \in Nat /\ bearer.revoked \in BOOLEAN
  BY <1>1 DEF Bearer
<1>3. /\ FreshFor(bearer.ttl) \in Nat
      /\ FreshFor(bearer.ttl) > 0 => bearer.ttl = FreshFor(bearer.ttl) + Margin
  BY <1>2, ClientAssumption DEF FreshFor
<1>4. /\ new \in Token /\ new.fresh = FreshFor(bearer.ttl)
      /\ new.life = bearer.life /\ new.lag = bearer.lag
  BY <1>2, <1>3 DEF Token
<1>5. tok' = [tok EXCEPT ![call.repo] = new]
  BY <1>1 DEF FetchToken
<1> HIDE DEF new
<1>6. tok' \in [Repos -> Token] /\ \A s \in Repos : tok'[s] = IF s = call.repo THEN new ELSE tok[s]
  BY <1>1, <1>4, <1>5
<1>7. Outlives(new)
  BY <1>1, <1>2, <1>3, <1>4, ClientAssumption DEF Outlives
<1>8. FreshOutlives'
  BY <1>6, <1>7 DEF TokenInv, FreshOutlives, Outlives
<1>9. bearer' \in Bearer /\ ~bearer'.reused
  BY <1>1 DEF FetchToken, Bearer
<1>10. call' = call /\ pc' = "retry"
  BY DEF FetchToken
<1> QED BY <1>1, <1>6, <1>8, <1>9, <1>10 DEF TokenInv, TokenTypes, ExchangeAges, RetryAges

(* Time takes as much from a token's life as from its freshness, and what  *)
(* it takes from a token on its way or in a retry is counted.              *)
LEMMA TickStep == ASSUME TokenInv, Tick PROVE TokenInv'
<1>1. \A n \in Nat : Less(n) \in Nat /\ (n > 0 => Less(n) = n - 1) /\ (n = 0 => Less(n) = 0)
  BY DEF Less
<1>l. \A n \in Nat : Longer(n) \in Nat /\ (Longer(n) = n + 1 \/ (n > Margin /\ Longer(n) = n))
  BY ClientAssumption DEF Longer
<1>2. tok \in [Repos -> Token] /\ bearer \in Bearer
  BY DEF TokenInv, TokenTypes
<1>3. ASSUME NEW s \in Repos
      PROVE  /\ tok'[s] \in Token
             /\ tok'[s].fresh = Less(tok[s].fresh) /\ tok'[s].life = Less(tok[s].life)
             /\ tok'[s].lag = tok[s].lag
  <2>1. tok'[s] = [tok[s] EXCEPT !.fresh = Less(@), !.life = Less(@)] /\ tok[s] \in Token
    BY <1>2 DEF Tick
  <2> QED BY <1>1, <2>1 DEF Token
<1>4. tok' \in [Repos -> Token]
  BY <1>3 DEF Tick
<1>5. FreshOutlives'
  <2> SUFFICES ASSUME NEW s \in Repos, tok'[s].fresh > 0
               PROVE  tok'[s].lag > Margin \/ tok'[s].life + tok'[s].lag >= tok'[s].fresh + Margin
    BY DEF FreshOutlives, Outlives
  <2>1. tok[s].fresh \in Nat /\ tok[s].life \in Nat /\ tok[s].lag \in Nat
    BY <1>2 DEF Token
  <2>2. tok[s].fresh > 0 /\ tok'[s].fresh = tok[s].fresh - 1
    BY <1>1, <1>3, <2>1
  <2>3. tok[s].lag > Margin \/ tok[s].life + tok[s].lag >= tok[s].fresh + Margin
    BY <2>2 DEF TokenInv, FreshOutlives, Outlives
  <2>4. tok'[s].life = (IF tok[s].life > 0 THEN tok[s].life - 1 ELSE 0) /\ tok'[s].lag = tok[s].lag
    BY <1>1, <1>3, <2>1
  <2> QED BY <2>1, <2>2, <2>3, <2>4, ClientAssumption
<1>6. pc' = pc /\ call' = call
  BY DEF Tick
<1>n. bearer.life \in Nat /\ bearer.waited \in Nat /\ bearer.lag \in Nat /\ bearer.ttl \in Nat
  BY <1>2 DEF Bearer
<1>7. CASE pc \notin {"exchange", "retry"}
  BY <1>2, <1>4, <1>5, <1>6, <1>7 DEF Tick, TokenInv, TokenTypes, Asking, ExchangeAges, RetryAges
<1>8. CASE pc = "exchange"
  <2> DEFINE l == Less(bearer.life)
             w == Longer(bearer.lag)
  <2>1. l \in Nat /\ w \in Nat
    BY <1>1, <1>l, <1>n
  <2>2. bearer' = [bearer EXCEPT !.life = l, !.lag = w]
    BY <1>8 DEF Tick
  <2>3. bearer.life = l + 1 \/ (bearer.life = 0 /\ l = 0)
    BY <1>1, <1>n
  <2>4. w = bearer.lag + 1 \/ (bearer.lag > Margin /\ w = bearer.lag)
    BY <1>l, <1>n
  <2> HIDE DEF l, w
  <2>5. bearer' \in Bearer
    BY <1>2, <2>1, <2>2 DEF Bearer
  <2>6. /\ bearer'.life = l /\ bearer'.lag = w /\ bearer'.ttl = bearer.ttl
        /\ bearer'.scope = bearer.scope /\ bearer'.reused = bearer.reused
    BY <1>2, <2>2 DEF Bearer
  <2>7. /\ bearer.scope = call.repo /\ ~bearer.reused
        /\ bearer.lag > Margin \/ bearer.life + bearer.lag >= bearer.ttl
    BY <1>8 DEF TokenInv, ExchangeAges
  <2>8. w > Margin \/ l + w >= bearer.ttl
    BY <1>n, <2>1, <2>3, <2>4, <2>7, ClientAssumption
  <2>9. ExchangeAges'
    BY <1>6, <2>6, <2>7, <2>8 DEF ExchangeAges
  <2> QED BY <1>4, <1>5, <1>6, <1>8, <2>5, <2>9 DEF TokenInv, TokenTypes, Asking, RetryAges
<1>9. CASE pc = "retry"
  <2> DEFINE l == Less(bearer.life)
             w == Longer(bearer.waited)
  <2>1. l \in Nat /\ w \in Nat
    BY <1>1, <1>l, <1>n
  <2>2. bearer' = [bearer EXCEPT !.life = l, !.waited = w]
    BY <1>9 DEF Tick
  <2>3. bearer.life = l + 1 \/ (bearer.life = 0 /\ l = 0)
    BY <1>1, <1>n
  <2>4. w = bearer.waited + 1 \/ (bearer.waited > Margin /\ w = bearer.waited)
    BY <1>l, <1>n
  <2> HIDE DEF l, w
  <2>5. bearer' \in Bearer
    BY <1>2, <2>1, <2>2 DEF Bearer
  <2>6. /\ bearer'.life = l /\ bearer'.waited = w /\ bearer'.lag = bearer.lag
        /\ bearer'.scope = bearer.scope /\ bearer'.reused = bearer.reused
    BY <1>2, <2>2 DEF Bearer
  <2>7. bearer.reused =>
          /\ bearer.scope = call.repo
          /\ \/ bearer.lag + bearer.waited > Margin
             \/ bearer.life + bearer.lag + bearer.waited > Margin
    BY <1>9 DEF TokenInv, RetryAges
  <2>8. bearer.reused => bearer.lag + w > Margin \/ l + bearer.lag + w > Margin
    BY <1>n, <2>1, <2>3, <2>4, <2>7, ClientAssumption
  <2>9. RetryAges'
    BY <1>6, <2>6, <2>7, <2>8 DEF RetryAges
  <2> QED BY <1>4, <1>5, <1>6, <1>9, <2>5, <2>9 DEF TokenInv, TokenTypes, Asking, ExchangeAges
<1> QED BY <1>7, <1>8, <1>9

(* A revocation changes no instant.                                        *)
LEMMA RevokeStep == ASSUME TokenInv, NEW r \in Repos, Revoke(r) PROVE TokenInv'
<1> DEFINE new == [tok[r] EXCEPT !.revoked = tok[r].issued]
<1>1. tok \in [Repos -> Token] /\ bearer \in Bearer
  BY DEF TokenInv, TokenTypes
<1>2. tok' = [tok EXCEPT ![r] = new]
  BY <1>1 DEF Revoke
<1>3. new \in Token
  BY <1>1 DEF Token
<1>4. new.fresh = tok[r].fresh /\ new.life = tok[r].life /\ new.lag = tok[r].lag
  BY <1>1 DEF Token
<1> HIDE DEF new
<1>5. tok' \in [Repos -> Token] /\ \A s \in Repos : tok'[s] = IF s = r THEN new ELSE tok[s]
  BY <1>1, <1>2, <1>3
<1>6. FreshOutlives'
  BY <1>4, <1>5 DEF TokenInv, FreshOutlives, Outlives
<1>7. /\ bearer' \in Bearer /\ bearer'.life = bearer.life /\ bearer'.waited = bearer.waited
      /\ bearer'.lag = bearer.lag /\ bearer'.ttl = bearer.ttl
      /\ bearer'.scope = bearer.scope /\ bearer'.reused = bearer.reused
  BY <1>1 DEF Revoke, Bearer
<1>8. pc' = pc /\ call' = call
  BY DEF Revoke
<1> QED BY <1>5, <1>6, <1>7, <1>8 DEF TokenInv, TokenTypes, Asking, ExchangeAges, RetryAges

(* Every step of the client, the registry and the clock.                   *)
LEMMA TokenStep == TokenInv /\ [Next]_vars => TokenInv'
<1> SUFFICES ASSUME TokenInv, [Next]_vars PROVE TokenInv'
  OBVIOUS
<1>1. ASSUME NEW kind \in Calls, NEW r \in Repos, Begin(kind, r) PROVE TokenInv'
  <2>1. call'.repo = r
    BY <1>1 DEF Begin
  <2> QED BY <1>1, <2>1, KeepStep DEF Begin
<1>2. CASE Finish
  BY <1>2, KeepStep DEF Finish
<1>3. CASE Ask
  <2>1. CASE Succeed
    BY <1>3, <2>1, SucceedStep DEF Ask
  <2>2. CASE pc' = "challenged" /\ call' = call /\ bearer' = bearer
    BY <1>3, <2>2, KeepStep DEF Ask, TokenInv, TokenTypes, Asking
  <2> QED BY <1>3, <2>1, <2>2 DEF Ask
<1>4. CASE Retry
  BY <1>4, SucceedStep DEF Retry
<1>5. CASE Refused
  BY <1>5, DropStep DEF Refused, Return
<1>6. CASE Unusable
  BY <1>6, DropStep DEF Unusable, Return
<1>7. CASE Fail
  BY <1>7, DropStep DEF Fail, Return
<1>8. ASSUME NEW r \in Repos, NEW t \in TagsOf[r], Retag(r, t) PROVE TokenInv'
  BY <1>8, KeepStep DEF Retag, request
<1>9. CASE UNCHANGED vars
  BY <1>9, KeepStep DEF vars, request
<1> QED
  BY <1>1, <1>2, <1>3, <1>4, <1>5, <1>6, <1>7, <1>8, <1>9, UseCachedStep, IssueTokenStep,
     FetchTokenStep, TickStep, RevokeStep DEF Next, Client

(* A cached token is reused only for its own scope, and has not expired    *)
(* unless its exchange and the retry together took longer than the margin, *)
(* whatever lifetimes the authority grants and however long tokens are     *)
(* under way.                                                              *)
THEOREM RegistryReuseIsSafe == Spec => []ReuseIsSafe
<1>1. ASSUME TokenInv PROVE ReuseIsSafe
  <2>1. bearer.life \in Nat /\ bearer.lag \in Nat /\ bearer.waited \in Nat
    BY <1>1 DEF TokenInv, TokenTypes, Bearer
  <2> QED BY <1>1, <2>1, ClientAssumption DEF TokenInv, RetryAges, ReuseIsSafe
<1> QED BY TokenInit, TokenStep, <1>1, PTL DEF Spec
-----------------------------------------------------------------------------
(* Tag lists.                                                              *)

ListTypes ==
    /\ tags \in [Repos -> SUBSET (Nat \ {0})]
    /\ serverPage \in Nat /\ limit \in Nat /\ last \in Nat /\ out \in Seq(Nat)
    /\ result \in [Repos -> {"ok", "error", "fault"}]
    /\ pc \in {"idle", "ask", "challenged", "exchange", "retry", "done"}

(* Nothing is left of a listing once the watcher has taken it.             *)
ListIdle == pc = "idle" => out = <<>> /\ last = 0

Listing == pc \in {"ask", "challenged", "exchange", "retry"}

(* The history follows the registry while a call is under way.             *)
HistoryInv ==
    Listing => call.repo \in Repos /\ steady \subseteq tags[call.repo] /\ tags[call.repo] \subseteq ever

(* The pages so far ascend to `last`, hold nothing that was never there,   *)
(* and every steady tag up to `last`.                                      *)
PagedInv ==
    Listing =>
        /\ Ascending(out)
        /\ \A i \in DOMAIN out : out[i] <= last /\ out[i] \in ever
        /\ PagesHonoured => \A t \in steady : t <= last => \E i \in DOMAIN out : out[i] = t

ListInv == ListTypes /\ ListIdle /\ HistoryInv /\ PagedInv /\ ListingExact

(* The client starts without a listing.                                    *)
LEMMA ListInit == Init => ListInv
<1> SUFFICES ASSUME Init PROVE ListInv
  OBVIOUS
<1>1. ListTypes
  <2>1. tags \in [Repos -> SUBSET (Nat \ {0})]
    BY ClientAssumption DEF Init
  <2>2. serverPage \in Nat /\ limit \in Nat /\ last \in Nat /\ out \in Seq(Nat)
    BY ClientAssumption DEF Init
  <2>3. result \in [Repos -> {"ok", "error", "fault"}]
    BY DEF Init
  <2> QED BY <2>1, <2>2, <2>3 DEF Init, ListTypes
<1> QED BY <1>1 DEF Init, ListInv, ListIdle, Listing, HistoryInv, PagedInv, ListingExact, TagsReturned

(* A page is a sequence of tags after `last`.                              *)
LEMMA PageIsSequence ==
    ASSUME ListTypes, call.repo \in Repos, NEW page \in Pages
    PROVE  /\ page \in Seq(Nat) /\ Len(page) \in Nat /\ DOMAIN page = 1..Len(page)
           /\ \A i \in 1..Len(page) : page[i] \in tags[call.repo] /\ page[i] \in Nat /\ page[i] > last
<1> DEFINE rest == {t \in tags[call.repo] : t > last}
<1>1. PICK m \in 0..Cardinality(rest) : page \in [1..m -> rest]
  BY DEF Pages
<1>2. m \in Nat
  BY <1>1
<1>3. rest \subseteq Nat
  BY DEF ListTypes
<1>4. page \in Seq(Nat) /\ Len(page) = m
  BY <1>1, <1>2, <1>3
<1> QED BY <1>1, <1>2, <1>3, <1>4

(* What a page leaves out comes after it, and then the page is as long as  *)
(* the client asked for.                                                   *)
LEMMA PageIsFirst ==
    ASSUME ListTypes, call.repo \in Repos, NEW page \in Pages
    PROVE  /\ Ascending(page)
           /\ PagesHonoured =>
                \A t \in tags[call.repo] : t > last =>
                   \/ \E i \in 1..Len(page) : page[i] = t
                   \/ limit # 0 /\ Len(page) = limit /\ page[limit] < t
<1> DEFINE rest == {t \in tags[call.repo] : t > last}
           n    == Capped(limit)
<1>1. /\ Ascending(page)
      /\ \A t \in rest : t \in ToSet(page) \/ (n # 0 /\ Len(page) = n /\ page[n] < t)
  BY DEF Pages
<1>2. PagesHonoured => n = limit
  BY DEF PagesHonoured, Capped, ListTypes
<1> HIDE DEF n
<1>3. DOMAIN page = 1..Len(page)
  BY PageIsSequence
<1> QED BY <1>1, <1>2, <1>3 DEF ToSet

(* An ascending sequence of numbers lists nothing twice.                   *)
LEMMA AscendingIsInjective ==
    ASSUME NEW s \in Seq(Nat), Ascending(s) PROVE IsInjective(s)
<1>1. \A i \in DOMAIN s : i \in Nat /\ s[i] \in Nat
  OBVIOUS
<1>2. \A i, j \in DOMAIN s : s[i] = s[j] => i = j
  BY <1>1 DEF Ascending
<1> QED BY <1>2 DEF IsInjective

(* The list with one more page.                                            *)
LEMMA Appended ==
    ASSUME NEW page \in Seq(Nat), out \in Seq(Nat), NEW long, long = out \o page
    PROVE  /\ long \in Seq(Nat) /\ DOMAIN long = 1..(Len(out) + Len(page))
           /\ Len(out) \in Nat /\ Len(page) \in Nat
           /\ DOMAIN out = 1..Len(out)
           /\ \A i \in 1..Len(out) : long[i] = out[i] /\ out[i] \in Nat
           /\ \A i \in (Len(out) + 1)..(Len(out) + Len(page)) :
                i - Len(out) \in 1..Len(page) /\ long[i] = page[i - Len(out)] /\ long[i] \in Nat
<1>1. Len(out) \in Nat /\ Len(page) \in Nat /\ DOMAIN out = 1..Len(out)
  OBVIOUS
<1> QED BY <1>1

(* A page appended keeps the list ascending, of tags that were there, and  *)
(* with every steady tag up to the end of the page; with all of them when  *)
(* the page is the last one.                                               *)
LEMMA AppendedPage ==
    ASSUME ListInv, Listing, NEW page \in Pages, out' = out \o page,
           steady' = steady, ever' = ever
    PROVE  /\ out' \in Seq(Nat)
           /\ Ascending(out')
           /\ \A i \in DOMAIN out' : out'[i] \in ever
           /\ \A i \in DOMAIN out' : out'[i] <= last \/ (Len(page) > 0 /\ out'[i] <= page[Len(page)])
           /\ PagesHonoured => \A t \in steady :
                 \/ \E i \in DOMAIN out' : out'[i] = t
                 \/ limit # 0 /\ Len(page) = limit /\ page[limit] < t
<1>1. /\ ListTypes /\ call.repo \in Repos
      /\ steady \subseteq tags[call.repo] /\ tags[call.repo] \subseteq ever
  BY DEF ListInv, HistoryInv
<1>2. /\ Ascending(out)
      /\ \A i \in DOMAIN out : out[i] <= last /\ out[i] \in ever
      /\ PagesHonoured => \A t \in steady : t <= last => \E i \in DOMAIN out : out[i] = t
  BY DEF ListInv, PagedInv
<1>3. /\ page \in Seq(Nat) /\ Len(page) \in Nat /\ DOMAIN page = 1..Len(page)
      /\ \A i \in 1..Len(page) : page[i] \in tags[call.repo] /\ page[i] \in Nat /\ page[i] > last
  BY <1>1, PageIsSequence
<1>4. out \in Seq(Nat) /\ last \in Nat /\ limit \in Nat /\ tags[call.repo] \subseteq Nat
  BY <1>1 DEF ListTypes
<1> DEFINE a == Len(out)
           b == Len(page)
           long == out'
<1>5. /\ long \in Seq(Nat) /\ DOMAIN long = 1..(a + b)
      /\ a \in Nat /\ b \in Nat
      /\ DOMAIN out = 1..a
      /\ \A i \in 1..a : long[i] = out[i] /\ out[i] \in Nat
      /\ \A i \in (a + 1)..(a + b) :
           i - a \in 1..b /\ long[i] = page[i - a] /\ long[i] \in Nat
  BY <1>3, <1>4, Appended
<1>6. Ascending(page) /\ \A i, j \in 1..b : i < j => page[i] < page[j]
  BY <1>1, <1>3, PageIsFirst DEF Ascending
<1> HIDE DEF a, b, long
<1>7. \A i \in 1..(a + b) : i \in Nat /\ (i \in 1..a \/ i \in (a + 1)..(a + b))
  BY <1>5
<1>8. \A i \in 1..a : long[i] <= last /\ long[i] \in ever
  BY <1>2, <1>5
<1>9. \A i \in (a + 1)..(a + b) : long[i] > last /\ long[i] \in ever
  BY <1>1, <1>3, <1>5 DEF b
<1>10. Ascending(long)
  <2> SUFFICES ASSUME NEW i \in 1..(a + b), NEW j \in 1..(a + b), i < j PROVE long[i] < long[j]
    BY <1>5 DEF Ascending
  <2>1. CASE j \in 1..a
    <3>1. i \in 1..a
      BY <1>5, <2>1
    <3> QED BY <1>2, <1>5, <2>1, <3>1 DEF Ascending
  <2>2. CASE i \in 1..a /\ j \in (a + 1)..(a + b)
    <3>1. long[i] \in Nat /\ long[j] \in Nat
      BY <1>5, <2>2
    <3> QED BY <1>4, <1>8, <1>9, <2>2, <3>1
  <2>3. CASE i \in (a + 1)..(a + b) /\ j \in (a + 1)..(a + b)
    <3>1. i - a \in 1..b /\ j - a \in 1..b /\ i - a < j - a
      BY <1>5, <2>3
    <3>2. page[i - a] < page[j - a]
      BY <1>6, <3>1
    <3> QED BY <1>5, <2>3, <3>2
  <2> QED BY <1>7, <2>1, <2>2, <2>3
<1>11. \A i \in 1..(a + b) : long[i] \in ever
  BY <1>7, <1>8, <1>9
<1>12. ASSUME NEW i \in 1..(a + b) PROVE long[i] <= last \/ (b > 0 /\ long[i] <= page[b])
  <2>1. CASE i \in 1..a
    BY <1>8, <2>1
  <2>2. CASE i \in (a + 1)..(a + b)
    <3>1. i - a \in 1..b /\ long[i] = page[i - a] /\ b \in 1..b /\ b > 0
      BY <1>5, <2>2
    <3>2. page[i - a] \in Nat /\ page[b] \in Nat
      BY <1>3, <3>1 DEF b
    <3>3. CASE i - a = b
      BY <3>1, <3>2, <3>3
    <3>4. CASE i - a # b
      <4>1. i - a < b
        BY <1>5, <3>1, <3>4
      <4>2. page[i - a] < page[b]
        BY <1>6, <3>1, <4>1
      <4> QED BY <3>1, <3>2, <4>2
    <3> QED BY <3>3, <3>4
  <2> QED BY <1>7, <2>1, <2>2
<1>13. ASSUME PagesHonoured, NEW t \in steady
       PROVE  \/ \E i \in 1..(a + b) : long[i] = t
              \/ limit # 0 /\ b = limit /\ page[limit] < t
  <2>1. t \in tags[call.repo] /\ t \in Nat
    BY <1>1, <1>4
  <2>2. CASE t <= last
    <3>1. PICK i \in 1..a : out[i] = t
      BY <1>2, <1>5, <1>13, <2>2
    <3>2. i \in 1..(a + b) /\ long[i] = t
      BY <1>5, <3>1
    <3> QED BY <3>2
  <2>3. CASE t > last
    <3>1. \/ \E i \in 1..b : page[i] = t
          \/ limit # 0 /\ b = limit /\ page[limit] < t
      BY <1>1, <1>13, <2>1, <2>3, PageIsFirst DEF b
    <3>2. ASSUME NEW i \in 1..b, page[i] = t PROVE \E k \in 1..(a + b) : long[k] = t
      <4>1. i + a \in (a + 1)..(a + b) /\ i + a \in 1..(a + b) /\ (i + a) - a = i
        BY <1>5
      <4>2. long[i + a] = t
        BY <1>5, <3>2, <4>1
      <4> QED BY <4>1, <4>2
    <3> QED BY <3>1, <3>2
  <2> QED BY <1>4, <2>1, <2>2, <2>3
<1>14. Ascending(out')
  BY <1>10 DEF long
<1>15. \A i \in DOMAIN out' : out'[i] \in ever
  BY <1>5, <1>11 DEF long
<1>16. \A i \in DOMAIN out' : out'[i] <= last \/ (Len(page) > 0 /\ out'[i] <= page[Len(page)])
  BY <1>5, <1>12 DEF long, b
<1>17. PagesHonoured => \A t \in steady :
          \/ \E i \in DOMAIN out' : out'[i] = t
          \/ limit # 0 /\ Len(page) = limit /\ page[limit] < t
  BY <1>5, <1>13 DEF long, b
<1>18. out' \in Seq(Nat)
  BY <1>5 DEF long
<1> QED BY <1>14, <1>15, <1>16, <1>17, <1>18
(* A call that ends otherwise than with a whole list promises nothing.     *)
LEMMA EndedStep ==
    ASSUME ListInv, Listing, NEW how \in {"ok", "error", "fault"}, Return(how),
           call' = call, UNCHANGED <<registry, limit, listing>>,
           how # "ok" \/ call.kind # "tags"
    PROVE  ListInv'
<1>1. call.repo \in Repos /\ result \in [Repos -> {"ok", "error", "fault"}]
  BY DEF ListInv, ListTypes, HistoryInv
<1>2. result' \in [Repos -> {"ok", "error", "fault"}] /\ result'[call.repo] = how
  BY <1>1 DEF Return
<1>3. ListTypes'
  BY <1>2 DEF ListInv, ListTypes, Return, registry, listing
<1>4. ListingExact'
  BY <1>2 DEF ListingExact, TagsReturned
<1> QED BY <1>3, <1>4 DEF ListInv, ListIdle, HistoryInv, PagedInv, Listing, Return

(* A step within the call that touches neither the registry nor the list.  *)
LEMMA WithinStep ==
    ASSUME ListInv, UNCHANGED <<registry, limit, call, listing, result>>,
           \/ pc' = pc
           \/ Listing /\ pc' \in {"ask", "challenged", "exchange", "retry"}
    PROVE  ListInv'
<1>1. ListTypes'
  BY DEF ListInv, ListTypes, Listing, registry, listing
<1>2. PagesHonoured' <=> PagesHonoured
  BY DEF PagesHonoured, registry
<1>3. ListIdle' /\ HistoryInv'
  BY DEF ListInv, ListIdle, HistoryInv, Listing, registry, listing
<1>4. PagedInv'
  BY <1>2 DEF ListInv, PagedInv, Ascending, Listing, listing
<1>5. ListingExact'
  BY <1>2 DEF ListInv, ListingExact, TagsReturned, Listing, listing
<1> QED BY <1>1, <1>3, <1>4, <1>5 DEF ListInv

(* A successful request: the list grows by a page, and is exact when it    *)
(* ends.                                                                   *)
LEMMA ListedStep ==
    ASSUME ListInv, Listing, Succeed, UNCHANGED <<registry, limit>> PROVE ListInv'
<1>1. CASE call.kind = "manifest" /\ Return("ok") /\ UNCHANGED <<call, listing>>
  BY <1>1, EndedStep
<1>2. ASSUME NEW page \in Pages, call.kind = "tags", out' = out \o page,
             UNCHANGED <<call, steady, ever>>,
             \/ LastPage(page) /\ Return("ok") /\ UNCHANGED last
             \/ ~LastPage(page) /\ last' = page[Len(page)] /\ pc' = "ask" /\ UNCHANGED result
      PROVE  ListInv'
  <2>1. /\ ListTypes /\ call.repo \in Repos
        /\ steady \subseteq tags[call.repo] /\ tags[call.repo] \subseteq ever
    BY DEF ListInv, HistoryInv
  <2>2. /\ out' \in Seq(Nat)
        /\ Ascending(out')
        /\ \A i \in DOMAIN out' : out'[i] \in ever
        /\ \A i \in DOMAIN out' : out'[i] <= last \/ (Len(page) > 0 /\ out'[i] <= page[Len(page)])
        /\ PagesHonoured => \A t \in steady :
             \/ \E i \in DOMAIN out' : out'[i] = t
             \/ limit # 0 /\ Len(page) = limit /\ page[limit] < t
    BY <1>2, AppendedPage
  <2>3. /\ page \in Seq(Nat) /\ Len(page) \in Nat
        /\ \A i \in 1..Len(page) : page[i] \in Nat /\ page[i] > last
    BY <2>1, PageIsSequence
  <2>4. last \in Nat /\ limit \in Nat /\ result \in [Repos -> {"ok", "error", "fault"}]
    BY <2>1 DEF ListTypes
  <2>5. PagesHonoured' <=> PagesHonoured
    BY DEF PagesHonoured, registry
  <2>6. \A i \in DOMAIN out' : out'[i] \in Nat
    BY <2>2
  <2>7. CASE LastPage(page) /\ Return("ok") /\ UNCHANGED last
    <3>1. pc' = "done" /\ result' \in [Repos -> {"ok", "error", "fault"}]
      BY <2>4, <2>7 DEF Return
    <3>2. ListTypes'
      BY <2>1, <2>2, <2>7, <3>1 DEF ListTypes, registry
    <3>3. IsInjective(out')
      BY <2>2, AscendingIsInjective
    <3>4. limit = 0 \/ Len(page) # limit
      BY <2>3, <2>4, <2>7 DEF LastPage
    <3>5. PagesHonoured => steady \subseteq ToSet(out')
      BY <2>2, <3>4 DEF ToSet
    <3>6. ToSet(out') \subseteq ever
      BY <2>2 DEF ToSet
    <3>7. ListingExact'
      BY <1>2, <2>5, <3>3, <3>5, <3>6 DEF ListingExact, TagsReturned
    <3> QED BY <3>1, <3>2, <3>7 DEF ListInv, ListIdle, HistoryInv, PagedInv, Listing
  <2>8. CASE ~LastPage(page) /\ last' = page[Len(page)] /\ pc' = "ask" /\ UNCHANGED result
    <3>1. limit # 0 /\ Len(page) >= limit /\ Len(page) > 0 /\ Len(page) \in 1..Len(page)
      BY <2>3, <2>4, <2>8 DEF LastPage
    <3>2. last' \in Nat /\ last' > last
      BY <2>3, <2>8, <3>1
    <3>3. ListTypes'
      BY <2>1, <2>2, <2>8, <3>2 DEF ListTypes, registry
    <3>4. \A i \in DOMAIN out' : out'[i] <= last'
      BY <2>2, <2>4, <2>6, <2>8, <3>2
    <3>5. ASSUME PagesHonoured, NEW t \in steady, t <= last'
          PROVE  \E i \in DOMAIN out' : out'[i] = t
      <4>1. t \in Nat
        BY <2>1 DEF ListTypes
      <4>2. ~(Len(page) = limit /\ page[limit] < t)
        BY <2>8, <3>2, <3>5, <4>1
      <4> QED BY <2>2, <3>5, <4>2
    <3>6. HistoryInv'
      BY <1>2, <2>1 DEF HistoryInv, registry
    <3>7. PagedInv'
      BY <1>2, <2>2, <2>5, <3>4, <3>5 DEF PagedInv
    <3>8. ListIdle' /\ ListingExact'
      BY <2>8 DEF ListIdle, ListingExact, TagsReturned
    <3> QED BY <3>3, <3>6, <3>7, <3>8 DEF ListInv
  <2> QED BY <1>2, <2>7, <2>8
<1> QED BY <1>1, <1>2 DEF Succeed

(* Somebody pushes or deletes a tag: it is steady no more.                 *)
LEMMA RetagStep ==
    ASSUME ListInv, NEW r \in Repos, NEW t \in TagsOf[r], Retag(r, t) PROVE ListInv'
<1>1. /\ UNCHANGED <<serverPage, limit, pc, call, out, last, result>>
      /\ tags' = [tags EXCEPT ![r] = IF t \in @ THEN @ \ {t} ELSE @ \union {t}]
  BY DEF Retag, request
<1>2. tags \in [Repos -> SUBSET (Nat \ {0})] /\ t \in Nat \ {0}
  BY ClientAssumption DEF ListInv, ListTypes
<1>3. tags' \in [Repos -> SUBSET (Nat \ {0})]
  BY <1>1, <1>2
<1>4. ListTypes'
  BY <1>1, <1>3 DEF ListInv, ListTypes
<1>5. PagesHonoured' <=> PagesHonoured
  BY <1>1 DEF PagesHonoured
<1>6. steady' \subseteq steady /\ ever \subseteq ever'
  BY DEF Retag
<1>7. pc \in {"idle", "done"} => steady' = steady /\ ever' = ever
  BY DEF Retag
<1>8. HistoryInv'
  <2> SUFFICES ASSUME Listing
               PROVE  /\ call.repo \in Repos
                      /\ steady' \subseteq tags'[call.repo] /\ tags'[call.repo] \subseteq ever'
    BY <1>1 DEF HistoryInv, Listing
  <2>1. call.repo \in Repos /\ steady \subseteq tags[call.repo] /\ tags[call.repo] \subseteq ever
    BY DEF ListInv, HistoryInv
  <2>2. CASE call.repo = r
    <3>1. steady' = steady \ {t} /\ ever' = ever \union {t}
      BY <2>2 DEF Retag, Listing
    <3>2. tags'[r] = IF t \in tags[r] THEN tags[r] \ {t} ELSE tags[r] \union {t}
      BY <1>1, <1>2
    <3> QED BY <2>1, <2>2, <3>1, <3>2
  <2>3. CASE call.repo # r
    BY <1>1, <1>2, <1>6, <2>1, <2>3
  <2> QED BY <2>2, <2>3
<1>9. PagedInv'
  BY <1>1, <1>5, <1>6 DEF ListInv, PagedInv, Ascending, Listing
<1>10. ListingExact'
  BY <1>1, <1>5, <1>7 DEF ListInv, ListingExact, TagsReturned
<1>11. ListIdle'
  BY <1>1 DEF ListInv, ListIdle
<1> QED BY <1>4, <1>8, <1>9, <1>10, <1>11 DEF ListInv

(* A listing starts with the tags there are.                               *)
LEMMA BeginStep ==
    ASSUME ListInv, NEW kind \in Calls, NEW r \in Repos, Begin(kind, r) PROVE ListInv'
<1>1. out = <<>> /\ last = 0
  BY DEF ListInv, ListIdle, Begin
<1>2. /\ pc' = "ask" /\ call'.repo = r /\ steady' = tags[r] /\ ever' = tags[r]
      /\ UNCHANGED <<tags, serverPage, limit, out, last, result>>
  BY DEF Begin, registry
<1>3. ListTypes'
  BY <1>2 DEF ListInv, ListTypes
<1>4. \A t \in tags[r] : ~(t <= 0)
  BY DEF ListInv, ListTypes
<1>5. PagedInv'
  BY <1>1, <1>2, <1>4 DEF PagedInv, Ascending
<1> QED BY <1>2, <1>3, <1>5 DEF ListInv, ListIdle, HistoryInv, ListingExact, TagsReturned

(* Every step of the client, the registry and the clock.                   *)
LEMMA ListStep == ListInv /\ [Next]_vars => ListInv'
<1> SUFFICES ASSUME ListInv, [Next]_vars PROVE ListInv'
  OBVIOUS
<1>1. CASE Finish
  <2>1. pc' = "idle" /\ out' = <<>> /\ last' = 0 /\ UNCHANGED <<registry, limit, result>>
    BY <1>1 DEF Finish
  <2>2. ListTypes'
    BY <2>1 DEF ListInv, ListTypes, registry
  <2> QED BY <2>1, <2>2 DEF ListInv, ListIdle, HistoryInv, PagedInv, Listing, ListingExact, TagsReturned
<1>2. CASE Ask
  <2>1. CASE Succeed
    BY <1>2, <2>1, ListedStep DEF Ask, Listing
  <2>2. CASE pc' = "challenged" /\ UNCHANGED <<call, bearer, listing, result>>
    BY <1>2, <2>2, WithinStep DEF Ask, Listing
  <2> QED BY <1>2, <2>1, <2>2 DEF Ask
<1>3. CASE UseCached
  BY <1>3, WithinStep DEF UseCached, Listing
<1>4. CASE IssueToken \/ FetchToken
  BY <1>4, WithinStep DEF IssueToken, FetchToken, Listing
<1>5. CASE Retry
  BY <1>5, ListedStep DEF Retry, Listing
<1>6. CASE Refused
  BY <1>6, EndedStep DEF Refused, Listing
<1>7. CASE Unusable
  BY <1>7, EndedStep DEF Unusable, Listing
<1>8. CASE Fail
  BY <1>8, EndedStep DEF Fail, Listing
<1>9. CASE Tick
  BY <1>9, WithinStep DEF Tick
<1>10. ASSUME NEW s \in Repos, Revoke(s) PROVE ListInv'
  BY <1>10, WithinStep DEF Revoke
<1>11. CASE UNCHANGED vars
  BY <1>11, WithinStep DEF vars, request
<1> QED
  BY <1>1, <1>2, <1>3, <1>4, <1>5, <1>6, <1>7, <1>8, <1>9, <1>10, <1>11, BeginStep, RetagStep
     DEF Next, Client

(* A list that is returned holds nothing twice and nothing that was never  *)
(* there, whatever is pushed or deleted between two pages, for any tags    *)
(* and page sizes; and every tag that was there throughout, where the      *)
(* registry cuts pages only as asked.                                      *)
THEOREM RegistryListingExact == Spec => []ListingExact
<1>1. ListInv => ListingExact
  BY DEF ListInv
<1> QED BY ListInit, ListStep, <1>1, PTL DEF Spec
=============================================================================
