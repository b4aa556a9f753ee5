-------------------------- MODULE Discovery_proofs --------------------------
(***************************************************************************)
(* Proofs about Discovery: the scanner and the intake service resolve      *)
(* companies as EntityResolution says, so that what is proved of it holds  *)
(* of them; and every page is fetched within the router's limits.          *)
(***************************************************************************)
EXTENDS Discovery, EntityResolution_proofs

-----------------------------------------------------------------------------
(* Every step is one of EntityResolution, or leaves its variables alone.   *)

\* A scan resolves what it extracts, and otherwise leaves companies alone
\* (MarketScanner.scan).
LEMMA ScanResolves ==
  ASSUME NEW h \in Handler, ScanStep(h)
  PROVE  [Next]_vars
<1>1. ASSUME NEW e \in Entity, ResolveEntity(h, e) PROVE Next
  <2>1. e.who \in Observation
    BY EntitiesAreObserved
  <2> QED BY <1>1, <2>1 DEF ResolveEntity, Next
<1>2. CASE LookFurther(h)
  BY <1>2 DEF LookFurther, Next
<1>3. CASE KeepCompany(h)
  BY <1>3 DEF KeepCompany, Next
<1>4. CASE StorageError(h)
  BY <1>4 DEF StorageError, Abandon, Next
<1>5. CASE BeginScan(h) \/ FetchPage(h) \/ SkipTarget(h) \/ StoreEvidence(h)
             \/ EnsureLead(h) \/ SaveNewLead(h) \/ FinishPage(h) \/ EndScan(h)
  BY <1>5 DEF BeginScan, FetchPage, SkipTarget, StoreEvidence, EnsureLead,
              SaveNewLead, FinishPage, EndScan
<1>6. ASSUME NEW p \in Profiles, Bootstrap(h, p) PROVE UNCHANGED vars
  BY <1>6 DEF Bootstrap
<1>7. ASSUME NEW found \in 0..MaxFound, NEW limit \in 0..MaxFound,
             NEW freelance \in Freelance, NEW failed \in BOOLEAN,
             Discover(h, found, freelance, limit, failed)
      PROVE  UNCHANGED vars
  BY <1>7 DEF Discover
<1>8. ASSUME NEW url \in Web!URL, NextTarget(h, url) PROVE UNCHANGED vars
  BY <1>8 DEF NextTarget
<1>9. ASSUME NEW page \in Page, ExtractEntities(h, page) PROVE UNCHANGED vars
  BY <1>9 DEF ExtractEntities
<1> QED BY <1>1, <1>2, <1>3, <1>4, <1>5, <1>6, <1>7, <1>8, <1>9 DEF ScanStep

\* A message's sender is resolved like a page's company (ingest_message).
LEMMA IntakeResolves ==
  ASSUME NEW h \in Handler, IntakeStep(h)
  PROVE  [Next]_vars
<1>1. ASSUME NEW x \in Exchange, NEW who \in Sender, IngestMessage(h, x, who)
      PROVE  Next
  BY <1>1, SendersAreObserved DEF IngestMessage, Next
<1>2. CASE KeepSender(h)
  BY <1>2 DEF KeepSender, Next
<1>3. CASE AttachLead(h) \/ CreateLead(h) \/ AskApproval(h) \/ EndIntake(h)
  BY <1>3 DEF AttachLead, CreateLead, AskApproval, EndIntake
<1>4. ASSUME NEW violation \in BOOLEAN, LogInbound(h, violation) PROVE UNCHANGED vars
  BY <1>4 DEF LogInbound
<1>5. ASSUME NEW auto \in BOOLEAN, SaveReply(h, auto) PROVE UNCHANGED vars
  BY <1>5 DEF SaveReply
<1> QED BY <1>1, <1>2, <1>3, <1>4, <1>5 DEF IntakeStep

\* Interrupting either stops the resolution that is under way.
LEMMA InterruptionResolves ==
  ASSUME NEW h \in Handler, Interrupted(h)
  PROVE  [Next]_vars
BY DEF Interrupted, Abandon, Next

\* Scanning and intake implement EntityResolution, whatever they do besides.
THEOREM DiscoveryImplementsResolution == DiscoverySpec => Spec
<1>1. DiscoveryInit => Init
  BY DEF DiscoveryInit
<1>2. [DiscoveryNext]_discoveryVars => [Next]_vars
  <2>1. CASE UNCHANGED discoveryVars
    BY <2>1 DEF discoveryVars
  <2>2. CASE DiscoveryNext
    BY <2>2, ScanResolves, IntakeResolves, InterruptionResolves DEF DiscoveryNext
  <2> QED BY <2>1, <2>2
<1> QED BY <1>1, <1>2, PTL DEF DiscoverySpec, Spec

\* As long as resolutions do not overlap, no scan and no message gives a second
\* company a domain that one has.
THEOREM DiscoveryKeepsDomainsUnique ==
  DiscoverySpec /\ []OneAtATime => []OneCompanyPerDomain
BY DomainsAreUnique, DiscoveryImplementsResolution, PTL

\* As long as resolutions do not overlap, a firm that was found, or that wrote,
\* is never taken for a new one again.
THEOREM DiscoveryRecognises == DiscoverySpec /\ []OneAtATime => []StaysRecognised
BY ResolvedIsRecognised, DiscoveryImplementsResolution, PTL

\* As long as resolutions do not overlap, no scan and no message takes a fact
\* away.
THEOREM DiscoveryEnriches == DiscoverySpec /\ []OneAtATime => NothingLost
BY ResolutionEnriches, DiscoveryImplementsResolution, PTL

-----------------------------------------------------------------------------
(* Fetching, by any number of handlers.                                    *)

\* Nothing is fetched at first.
LEMMA InitFetching == DiscoveryInit => Web!FetchInv
BY RedirectsAreFinite
   DEF DiscoveryInit, InitScan, Web!InitFetch, Web!NoFetch, Web!Unrequested, Web!URL,
       Web!Fetch, Web!FetchInv, Web!FetchOK, Web!HopsCounted,
       Web!RequestsWithinLimits

\* What one handler's fetch becomes is within the limits, the others' stay so.
LEMMA OneFetch ==
  ASSUME Web!FetchInv, NEW h \in Handler, NEW f \in Web!Fetch,
         fetch' = [fetch EXCEPT ![h] = f],
         \A url \in f.requested : Web!IsSsrfSafeUrl(url),
         f.requests <= MaxRedirects + 1, f.redirects <= MaxRedirects,
         f.at = "get" => Web!IsSsrfSafeUrl(f.url),
         f.at \in {"check", "get"} => f.requests = f.redirects,
         f.at = "none" => f = Web!NoFetch
  PROVE  Web!FetchInv'
<1>1. /\ fetch \in [Handler -> Web!Fetch]
      /\ fetch'[h] = f
      /\ \A k \in Handler : k # h => fetch'[k] = fetch[k]
  BY DEF Web!FetchInv, Web!FetchOK
<1>2. Web!FetchOK'
  BY <1>1 DEF Web!FetchOK
<1>3. Web!HopsCounted'
  BY <1>1 DEF Web!FetchInv, Web!HopsCounted
<1>4. Web!RequestsWithinLimits'
  BY <1>1 DEF Web!FetchInv, Web!RequestsWithinLimits
<1> QED BY <1>2, <1>3, <1>4 DEF Web!FetchInv

\* Asking for a page starts within the limits (route_acquisition).
LEMMA RouteStep ==
  ASSUME Web!FetchInv, NEW h \in Handler, NEW url \in Web!URL, Web!RouteAcquisition(h, url)
  PROVE  Web!FetchInv'
<1> DEFINE f == Web!Unrequested(IF Web!IsSsrfSafeUrl(url) THEN "check" ELSE "failed", url)
<1>1. /\ f \in Web!Fetch /\ f.requested = {} /\ f.requests = 0 /\ f.redirects = 0
      /\ f.at \in {"check", "failed"}
  BY DEF Web!Unrequested, Web!Fetch
<1>2. fetch' = [fetch EXCEPT ![h] = f]
  BY DEF Web!RouteAcquisition
<1> HIDE DEF f
<1>3. f.requests <= MaxRedirects + 1 /\ f.redirects <= MaxRedirects
  BY <1>1, RedirectsAreFinite
<1>4. /\ \A u \in f.requested : Web!IsSsrfSafeUrl(u)
      /\ f.at # "get" /\ f.at # "none" /\ f.requests = f.redirects
  BY <1>1
<1> QED BY <1>1, <1>2, <1>3, <1>4, OneFetch

\* So does forgetting what was fetched.
LEMMA ForgetStep ==
  ASSUME Web!FetchInv, NEW h \in Handler, Web!Forget(h)
  PROVE  Web!FetchInv'
<1> DEFINE f == Web!NoFetch
<1>1. /\ f \in Web!Fetch /\ f.requested = {} /\ f.requests = 0 /\ f.redirects = 0
      /\ f.at = "none"
  BY DEF Web!NoFetch, Web!Unrequested, Web!Fetch, Web!URL
<1>2. fetch' = [fetch EXCEPT ![h] = f]
  BY DEF Web!Forget
<1> HIDE DEF f
<1>3. f.requests <= MaxRedirects + 1 /\ f.redirects <= MaxRedirects
  BY <1>1, RedirectsAreFinite
<1>4. /\ \A u \in f.requested : Web!IsSsrfSafeUrl(u)
      /\ f.at # "get" /\ f.at # "check"
  BY <1>1
<1> QED BY <1>1, <1>2, <1>3, <1>4, OneFetch DEF f

\* What is known of a fetch under way.
LEMMA FetchOf ==
  ASSUME Web!FetchInv, NEW h \in Handler
  PROVE  /\ fetch[h] \in Web!Fetch
         /\ fetch[h].at = "get" => Web!IsSsrfSafeUrl(fetch[h].url)
         /\ fetch[h].redirects <= MaxRedirects
         /\ fetch[h].at \in {"check", "get"} => fetch[h].requests = fetch[h].redirects
         /\ \A url \in fetch[h].requested : Web!IsSsrfSafeUrl(url)
         /\ fetch[h].requests <= MaxRedirects + 1
BY DEF Web!FetchInv, Web!FetchOK, Web!HopsCounted, Web!RequestsWithinLimits

\* The request of a hop that was checked is within the limits, wherever the
\* loop goes from there (_fetch_direct_http).
LEMMA HopStep ==
  ASSUME Web!FetchInv, NEW h \in Handler, fetch[h].at = "get",
         NEW at \in {"check", "page", "failed"}, NEW url \in Web!URL, NEW redirects \in Nat,
         redirects <= MaxRedirects,
         at = "check" => redirects = fetch[h].redirects + 1,
         fetch' = [fetch EXCEPT ![h] = Web!Requested(h, at, url, redirects)]
  PROVE  Web!FetchInv'
<1> DEFINE f == Web!Requested(h, at, url, redirects)
<1>1. /\ fetch[h] \in Web!Fetch /\ Web!IsSsrfSafeUrl(fetch[h].url)
      /\ fetch[h].requests = fetch[h].redirects /\ fetch[h].redirects <= MaxRedirects
      /\ \A u \in fetch[h].requested : Web!IsSsrfSafeUrl(u)
  BY FetchOf
<1>2. /\ f.at = at /\ f.url = url /\ f.redirects = redirects
      /\ f.requests = fetch[h].requests + 1
      /\ f.requested = fetch[h].requested \cup {fetch[h].url}
  BY DEF Web!Requested
<1>3. f \in Web!Fetch
  BY <1>1 DEF Web!Requested, Web!Fetch
<1>4. fetch[h].redirects \in Nat
  BY <1>1 DEF Web!Fetch
<1> HIDE DEF f
<1>5. /\ \A u \in f.requested : Web!IsSsrfSafeUrl(u)
      /\ f.requests <= MaxRedirects + 1
  BY <1>1, <1>2, <1>4, RedirectsAreFinite
<1> QED BY <1>1, <1>2, <1>3, <1>5, OneFetch DEF f

\* One step of the loop stays within the limits.
LEMMA LoopStep ==
  ASSUME Web!FetchInv, NEW h \in Handler, Web!FetchStep(h)
  PROVE  Web!FetchInv'
<1>1. /\ fetch[h] \in Web!Fetch /\ fetch[h].url \in Web!URL /\ fetch[h].redirects \in Nat
      /\ fetch[h].redirects <= MaxRedirects
  BY FetchOf DEF Web!Fetch
<1>2. CASE Web!CheckHop(h)
  <2> DEFINE at == IF Web!IsSsrfSafeUrl(fetch[h].url) THEN "get" ELSE "failed"
             f == Web!Went(h, at)
  <2>0. /\ at \in {"get", "failed"}
        /\ at = "get" => Web!IsSsrfSafeUrl(fetch[h].url)
        /\ fetch' = [fetch EXCEPT ![h] = f]
    BY <1>2 DEF Web!CheckHop
  <2> HIDE DEF at
  <2>1. f \in Web!Fetch
    BY <1>1, <2>0 DEF Web!Fetch, Web!Went
  <2>2. /\ f.at = at /\ f.url = fetch[h].url /\ f.redirects = fetch[h].redirects
        /\ f.requests = fetch[h].requests /\ f.requested = fetch[h].requested
    BY DEF Web!Went
  <2>3. fetch[h].at = "check"
    BY <1>2 DEF Web!CheckHop
  <2> HIDE DEF f
  <2> QED BY <2>0, <2>1, <2>2, <2>3, FetchOf, OneFetch
<1>3. ASSUME NEW response \in Web!Response, Web!Answer(h, response)
      PROVE  Web!FetchInv'
  BY <1>1, <1>3, HopStep DEF Web!Answer
<1>4. ASSUME NEW url \in Web!URL, Web!Redirect(h, url)
      PROVE  Web!FetchInv'
  <2>1. CASE fetch[h].redirects + 1 > MaxRedirects
    BY <1>1, <1>4, <2>1, HopStep DEF Web!Redirect
  <2>2. CASE ~(fetch[h].redirects + 1 > MaxRedirects)
    <3>1. fetch[h].redirects + 1 \in Nat /\ fetch[h].redirects + 1 <= MaxRedirects
      BY <1>1, <2>2, RedirectsAreFinite
    <3> QED BY <1>4, <2>2, <3>1, HopStep DEF Web!Redirect
  <2> QED BY <2>1, <2>2
<1> QED BY <1>2, <1>3, <1>4 DEF Web!FetchStep

\* Whoever scans, writes or dies, fetching stays within the limits.
LEMMA FetchingStep ==
  ASSUME Web!FetchInv, [DiscoveryNext]_discoveryVars
  PROVE  Web!FetchInv'
<1>1. CASE UNCHANGED fetch
  BY <1>1 DEF Web!FetchInv, Web!FetchOK, Web!HopsCounted, Web!RequestsWithinLimits
<1>2. ASSUME NEW h \in Handler, ScanStep(h)
      PROVE  Web!FetchInv'
  <2>1. ASSUME NEW url \in Web!URL, NextTarget(h, url) PROVE Web!FetchInv'
    BY <1>1, <2>1, RouteStep DEF NextTarget
  <2>2. CASE FetchPage(h)
    BY <2>2, LoopStep DEF FetchPage
  <2>3. CASE SkipTarget(h) \/ \E page \in Page : ExtractEntities(h, page)
    BY <2>3, ForgetStep DEF SkipTarget, ExtractEntities
  <2>4. CASE \/ BeginScan(h) \/ \E p \in Profiles : Bootstrap(h, p)
             \/ \E found, limit \in 0..MaxFound, freelance \in Freelance, failed \in BOOLEAN :
                  Discover(h, found, freelance, limit, failed)
    BY <1>1, <2>4 DEF BeginScan, Bootstrap, Discover
  <2>5. CASE \/ \E e \in Entity : ResolveEntity(h, e)
             \/ LookFurther(h) \/ KeepCompany(h) \/ StoreEvidence(h) \/ EnsureLead(h)
             \/ SaveNewLead(h) \/ StorageError(h) \/ FinishPage(h) \/ EndScan(h)
    BY <1>1, <2>5 DEF ResolveEntity, LookFurther, KeepCompany, StoreEvidence, EnsureLead,
                      SaveNewLead, StorageError, FinishPage, EndScan
  <2> QED BY <1>2, <2>1, <2>2, <2>3, <2>4, <2>5 DEF ScanStep
<1>3. ASSUME NEW h \in Handler, IntakeStep(h)
      PROVE  Web!FetchInv'
  BY <1>1, <1>3 DEF IntakeStep, IngestMessage, KeepSender, AttachLead, CreateLead,
                    LogInbound, SaveReply, AskApproval, EndIntake
<1>4. ASSUME NEW h \in Handler, Interrupted(h)
      PROVE  Web!FetchInv'
  BY <1>4, ForgetStep DEF Interrupted
<1> QED BY <1>1, <1>2, <1>3, <1>4 DEF DiscoveryNext, discoveryVars

\* Whatever redirects the web answers with, and however many handlers fetch,
\* no page is requested whose address the check refuses, and no more than
\* MaxRedirects + 1 for one target.
THEOREM FetchesStayWithinLimits == DiscoverySpec => []RequestsWithinLimits
<1>1. Web!FetchInv => RequestsWithinLimits
  BY DEF Web!FetchInv, RequestsWithinLimits
<1> QED BY <1>1, InitFetching, FetchingStep, PTL DEF DiscoverySpec
=============================================================================
