--------------------------- MODULE RegistryClient ---------------------------
(***************************************************************************)
(* The registry client (internal/registry/client.go, auth_transport.go)    *)
(* as the watcher's poll uses it: one call after another, each request     *)
(* first without a bearer token, then, after a 401, once more with a token *)
(* that is cached per scope; tag lists page by page.  Time passes, tokens  *)
(* expire or are revoked, and tags come and go between any two requests.   *)
(*                                                                         *)
(* Tags are numbers in the registry's order.  Time is counted in units of  *)
(* the refresh margin's granularity; instants are kept as the time left    *)
(* until them, so that nothing grows.                                      *)
(***************************************************************************)
EXTENDS Naturals, SequencesExt

CONSTANTS
    Repos,        \* configured repositories
    TagsOf,       \* tags a repository may have: numbers; 0 stands for ""
    PageLimits,   \* Client.limit; 0, which only tests change, leaves pages to the registry
    ServerPages,  \* largest page the registry returns; 0 is unlimited
    Lifetimes,    \* expires_in a token may have; 0 is absent
    DefaultLife,  \* the lifetime of a token without expires_in: 60 s
    Margin,       \* refresh that long before expiry: 30 s
    None

ASSUME ClientAssumption ==
    /\ TagsOf \in [Repos -> SUBSET (Nat \ {0})] /\ \A r \in Repos : IsFiniteSet(TagsOf[r])
    /\ Margin \in Nat /\ DefaultLife \in Nat \ {0}
    /\ PageLimits \subseteq Nat /\ ServerPages \subseteq Nat /\ Lifetimes \subseteq Nat
    /\ None \notin Repos

VARIABLES
    tags,         \* the registry: tags[r] are the tags of repository r
    needAuth,     \* the registry answers 401 without a bearer token
    serverPage, limit,
    tok,          \* Client.tok: per scope, the time left to expiresAt (fresh) and to the
                  \* token's real end (life), and how long its exchange took (lag)
    pc,           \* where the call is
    call,         \* its method and repository
    challenge,    \* what the 401 carried
    bearer,       \* the token of the retry, or on its way to the client: then ttl is what
                  \* the answer states; waited is how long the retry has taken
    out, last,    \* Tags: the list so far, the last tag of the last page
    steady, ever, \* history: tags that were there throughout, at some time
    result        \* result[r]: the last call for r: "ok", "error", "fault"

registry == <<tags, needAuth, serverPage>>
listing  == <<out, last, steady, ever>>
request  == <<call, challenge, bearer>>
vars     == <<registry, limit, tok, pc, request, listing, result>>

Calls == {"tags", "manifest"}

(* A token nobody holds.                                                   *)
NoToken == [issued |-> FALSE, fresh |-> 0, life |-> 0, lag |-> 0, revoked |-> FALSE]

NoCall == [kind |-> "none", repo |-> None]

NoBearer == [scope |-> None, ttl |-> 0, life |-> 0, lag |-> 0, revoked |-> FALSE,
             reused |-> FALSE, waited |-> 0]

Init ==
    /\ tags \in [Repos -> UNION {SUBSET TagsOf[r] : r \in Repos}]
    /\ \A r \in Repos : tags[r] \subseteq TagsOf[r]
    /\ needAuth \in BOOLEAN
    /\ serverPage \in ServerPages
    /\ limit \in PageLimits
    /\ tok = [s \in Repos |-> NoToken]
    /\ pc = "idle"
    /\ call = NoCall
    /\ challenge = "none"
    /\ bearer = NoBearer
    /\ out = <<>> /\ last = 0 /\ steady = {} /\ ever = {}
    /\ result = [r \in Repos |-> "error"]

-----------------------------------------------------------------------------
(* The watcher starts a call: Tags or ManifestDigest.                      *)
Begin(kind, r) ==
    /\ pc = "idle"
    /\ pc' = "ask"
    /\ call' = [kind |-> kind, repo |-> r]
    /\ steady' = tags[r] /\ ever' = tags[r]
    /\ UNCHANGED <<registry, limit, tok, challenge, bearer, out, last, result>>

(* A call ends; its token is only kept in the cache.                       *)
Return(how) ==
    /\ pc' = "done"
    /\ result' = [result EXCEPT ![call.repo] = how]
    /\ challenge' = "none"
    /\ bearer' = NoBearer

(* The watcher takes what the call returned.                               *)
Finish ==
    /\ pc = "done"
    /\ pc' = "idle"
    /\ call' = NoCall
    /\ out' = <<>> /\ last' = 0 /\ steady' = {} /\ ever' = {}
    /\ UNCHANGED <<registry, limit, tok, challenge, bearer, result>>

Capped(n) == IF serverPage = 0 THEN n
             ELSE IF n = 0 THEN serverPage
             ELSE IF n < serverPage THEN n ELSE serverPage

Ascending(s) == \A i, j \in DOMAIN s : i < j => s[i] < s[j]

(* What the registry may answer: the first of the tags after `last`, in    *)
(* order, as many as asked for and allowed.  There is one such page.       *)
Pages ==
    LET rest == {t \in tags[call.repo] : t > last}
        n    == Capped(limit)
    IN  {page \in UNION {[1..m -> rest] : m \in 0..Cardinality(rest)} :
           /\ Ascending(page)
           /\ n # 0 => Len(page) <= n
           /\ \A t \in rest : t \in ToSet(page) \/ (n # 0 /\ Len(page) = n /\ page[n] < t)}

LastPageFull(page) == \* variant: a full page ends the list, too
    limit = 0 \/ Len(page) <= limit

(* Tags stops when it does not page, or the page is not full.              *)
LastPage(page) == limit = 0 \/ Len(page) < limit

(* 200: a manifest ends the call; a page is appended, and either ends the  *)
(* listing or is followed by another request, which starts afresh.         *)
Succeed ==
    \/ /\ call.kind = "manifest"
       /\ Return("ok")
       /\ UNCHANGED <<call, listing>>
    \/ /\ call.kind = "tags"
       /\ \E page \in Pages :
            /\ out' = out \o page
            /\ \/ /\ LastPage(page)
                  /\ Return("ok")
                  /\ UNCHANGED last
               \/ /\ ~LastPage(page)
                  /\ last' = page[Len(page)]
                  /\ pc' = "ask"
                  /\ challenge' = "none"
                  /\ bearer' = NoBearer
                  /\ UNCHANGED result
       /\ UNCHANGED <<call, steady, ever>>

(* do: the request without a bearer token; a 401 brings a challenge, which *)
(* may be malformed or name a realm the client must not use.               *)
Ask ==
    /\ pc = "ask"
    /\ \/ /\ ~needAuth
          /\ Succeed
       \/ /\ needAuth
          /\ challenge' \in {"good", "malformed", "insecure"}
          /\ pc' = "challenged"
          /\ UNCHANGED <<call, bearer, listing, result>>
    /\ UNCHANGED <<registry, limit, tok>>

parseChallenge == challenge # "malformed"

tokenRealm == challenge # "insecure"

(* scopeForPath: both methods need the pull scope of their repository.     *)
scopeForPath == call.repo

CachedAtAll(s) == tok[s].issued \* variant: the expiry is not looked at

(* The scope has a token before its expiresAt.                             *)
Cached(s) == tok[s].fresh > 0

Reuse(s) ==
    bearer' = [scope |-> s, ttl |-> 0, life |-> tok[s].life, lag |-> tok[s].lag,
               revoked |-> tok[s].revoked, reused |-> TRUE, waited |-> 0]

(* tokenFor: the cached token is taken as it is.                           *)
UseCached ==
    /\ pc = "challenged"
    /\ parseChallenge
    /\ Cached(scopeForPath)
    /\ Reuse(scopeForPath)
    /\ pc' = "retry"
    /\ UNCHANGED <<registry, limit, tok, call, challenge, listing, result>>

FreshForLifetime(life) == life \* variant: no margin

(* The instant kept with a token: its end less the margin; a token that    *)
(* lives no longer than the margin is stale at once.                       *)
FreshFor(life) == IF life > Margin THEN life - Margin ELSE 0

(* The authority issues a token: from now on it ages.                      *)
IssueToken ==
    /\ pc = "challenged"
    /\ parseChallenge
    /\ ~Cached(scopeForPath)
    /\ tokenRealm
    /\ \E ttl \in Lifetimes :
          LET life == IF ttl = 0 THEN DefaultLife ELSE ttl
          IN  bearer' = [scope |-> scopeForPath, ttl |-> life, life |-> life, lag |-> 0,
                         revoked |-> FALSE, reused |-> FALSE, waited |-> 0]
    /\ pc' = "exchange"
    /\ UNCHANGED <<registry, limit, tok, call, challenge, listing, result>>

(* fetchToken has the answer: the expiry is counted from now, as if the    *)
(* answer had taken no time; the token is cached and used.                 *)
FetchToken ==
    /\ pc = "exchange"
    /\ tok' = [tok EXCEPT ![bearer.scope] =
                 [issued |-> TRUE, fresh |-> FreshFor(bearer.ttl), life |-> bearer.life,
                  lag |-> bearer.lag, revoked |-> bearer.revoked]]
    /\ bearer' = [bearer EXCEPT !.ttl = 0]
    /\ pc' = "retry"
    /\ UNCHANGED <<registry, limit, call, challenge, listing, result>>

Honoured == bearer.life > 0 /\ ~bearer.revoked /\ bearer.scope = call.repo

(* The one retry, with the token.                                          *)
Retry ==
    /\ pc = "retry"
    /\ Honoured
    /\ Succeed
    /\ UNCHANGED <<registry, limit, tok>>

(* A second 401 is an error of the call; the token stays in the cache.     *)
Refused ==
    /\ pc = "retry"
    /\ ~Honoured
    /\ Return("error")
    /\ UNCHANGED <<registry, limit, tok, call, listing>>

(* The challenge cannot be used.                                           *)
Unusable ==
    /\ pc = "challenged"
    /\ \/ ~parseChallenge
       \/ ~Cached(scopeForPath) /\ ~tokenRealm
    /\ Return("error")
    /\ UNCHANGED <<registry, limit, tok, call, listing>>

(* A transport error, a refused redirect, another status, a bad body.      *)
Fail ==
    /\ pc \in {"ask", "challenged", "exchange", "retry"}
    /\ Return("fault")
    /\ UNCHANGED <<registry, limit, tok, call, listing>>

-----------------------------------------------------------------------------
Less(n) == IF n > 0 THEN n - 1 ELSE 0

(* Waiting is counted until it is longer than the margin.                  *)
Longer(n) == IF n <= Margin THEN n + 1 ELSE n

(* Time passes.                                                            *)
Tick ==
    /\ tok' = [s \in Repos |-> [tok[s] EXCEPT !.fresh = Less(@), !.life = Less(@)]]
    /\ bearer' = CASE pc = "exchange" -> [bearer EXCEPT !.life = Less(@), !.lag = Longer(@)]
                   [] pc = "retry" -> [bearer EXCEPT !.life = Less(@), !.waited = Longer(@)]
                   [] OTHER -> bearer
    /\ tok' # tok \/ bearer' # bearer
    /\ UNCHANGED <<registry, limit, pc, call, challenge, listing, result>>

(* The authority revokes the tokens of a scope.                            *)
Revoke(s) ==
    /\ \/ tok[s].life > 0 /\ ~tok[s].revoked
       \/ bearer.scope = s /\ ~bearer.revoked
    /\ tok' = [tok EXCEPT ![s].revoked = tok[s].issued]
    /\ bearer' = IF bearer.scope = s THEN [bearer EXCEPT !.revoked = TRUE] ELSE bearer
    /\ UNCHANGED <<registry, limit, pc, call, challenge, listing, result>>

(* Somebody pushes or deletes a tag.                                       *)
Retag(r, t) ==
    /\ tags' = [tags EXCEPT ![r] = IF t \in @ THEN @ \ {t} ELSE @ \union {t}]
    /\ LET listed == pc \notin {"idle", "done"} /\ call.repo = r
       IN  /\ steady' = IF listed THEN steady \ {t} ELSE steady
           /\ ever' = IF listed THEN ever \union {t} ELSE ever
    /\ UNCHANGED <<needAuth, serverPage, limit, tok, pc, request, out, last, result>>

Client == Finish \/ Ask \/ UseCached \/ IssueToken \/ FetchToken \/ Retry \/ Refused \/ Unusable

Next ==
    \/ \E kind \in Calls, r \in Repos : Begin(kind, r)
    \/ Client
    \/ Fail
    \/ Tick
    \/ \E s \in Repos : Revoke(s)
    \/ \E r \in Repos : \E t \in TagsOf[r] : Retag(r, t)

Spec == Init /\ [][Next]_vars

(* The watcher's loop asks for every repository again and again, a call    *)
(* takes its steps, and time passes between the polls.                     *)
FairSpec ==
    /\ Spec
    /\ WF_vars(Client)
    /\ \A r \in Repos : SF_vars(Begin("tags", r))
    /\ SF_vars(pc = "idle" /\ Tick)

-----------------------------------------------------------------------------
(* The registry never cuts a page shorter than the client asked for.       *)
PagesHonoured == serverPage = 0 \/ (limit > 0 /\ limit <= serverPage)

TagsReturned == pc = "done" /\ call.kind = "tags" /\ result[call.repo] = "ok"

(* Nothing is listed twice and nothing that was never there, whatever is   *)
(* pushed or deleted between two pages; and where the registry cuts pages  *)
(* only as asked, a tag that is there throughout the listing is in it.     *)
ListingExact ==
    TagsReturned =>
        /\ IsInjective(out) /\ ToSet(out) \subseteq ever
        /\ PagesHonoured => steady \subseteq ToSet(out)

(* client.go 313: "Tags lists all tags for repo, following n/last          *)
(* pagination".  Without a limit the client takes the registry's first     *)
(* page for the whole list.                                                *)
ListsAllTags == TagsReturned => steady \subseteq ToSet(out)

(* A token is reused only for its own scope, and has not expired when the  *)
(* retry arrives, unless the exchange that fetched it and this retry       *)
(* together took longer than the margin: expiresAt is counted from the end *)
(* of the exchange, so its latency comes off the margin.                   *)
ReuseIsSafe ==
    pc = "retry" /\ bearer.reused =>
        /\ bearer.scope = call.repo
        /\ bearer.lag + bearer.waited <= Margin => bearer.life > 0

(* What the registry and the network may do to a call.                     *)
Disturbed ==
    \/ Fail
    \/ \E s \in Repos : Revoke(s)
    \/ Tick /\ pc \in {"exchange", "retry"}
    \/ Ask /\ challenge' \in {"malformed", "insecure"}

(* Once nothing disturbs the calls any more, every repository is listed    *)
(* again and again: a token in the cache that was revoked, or that has     *)
(* expired before its expiresAt, does not lock the client out for good.    *)
Recovers ==
    <>[][~Disturbed]_vars => \A r \in Repos : []<>(result[r] = "ok")
=============================================================================
