---------------------------- MODULE Acquisition ----------------------------
(***************************************************************************)
(* AcquisitionRouter: one page is fetched by following redirects by hand,  *)
(* with the address checked before each request.  A fetch belongs to the   *)
(* handler that asked for the page and ends with a page or a failure; what *)
(* is on a page, and its hash, the caller looks at.                        *)
(***************************************************************************)
EXTENDS Naturals

CONSTANTS Handler,
          MaxRedirects  \* 5 in the code

VARIABLE fetch

\* What is_ssrf_safe_url tells apart: an address whose scheme, host and every
\* resolved IP are public, and any other, an unresolvable one included.
URL == {"public", "private"}
IsSsrfSafeUrl(url) == url = "public"

Response == {"page", "error", "timeout", "noLocation"}

Fetch == [at : {"none", "check", "get", "page", "failed"}, url : URL,
          redirects : Nat, requests : Nat, requested : SUBSET URL]
Unrequested(at, url) == [at |-> at, url |-> url, redirects |-> 0,
                         requests |-> 0, requested |-> {}]
NoFetch == Unrequested("none", "public")

InitFetch == fetch = [h \in Handler |-> NoFetch]

\* _select_mode answers direct_http for every address, so that the mode
\* without a browser, which always fails, is never taken here.
RouteAcquisition(h, url) ==
  /\ fetch[h].at = "none"
  /\ fetch' = [fetch EXCEPT ![h] =
       Unrequested(IF IsSsrfSafeUrl(url) THEN "check" ELSE "failed", url)]

-----------------------------------------------------------------------------
Went(h, at) == [at |-> at, url |-> fetch[h].url, redirects |-> fetch[h].redirects,
                requests |-> fetch[h].requests, requested |-> fetch[h].requested]

\* Mutant of CheckHop: only the first address is checked.
CheckFirst(h) ==
  /\ fetch[h].at = "check"
  /\ fetch' = [fetch EXCEPT ![h] =
       Went(h, IF IsSsrfSafeUrl(fetch[h].url) \/ fetch[h].redirects > 0
               THEN "get" ELSE "failed")]

\* The head of the loop.
CheckHop(h) ==
  /\ fetch[h].at = "check"
  /\ fetch' = [fetch EXCEPT ![h] =
       Went(h, IF IsSsrfSafeUrl(fetch[h].url) THEN "get" ELSE "failed")]

Requested(h, at, url, redirects) ==
  [at |-> at, url |-> url, redirects |-> redirects,
   requests |-> fetch[h].requests + 1, requested |-> fetch[h].requested \cup {fetch[h].url}]

\* The request is answered without a redirect that can be followed: status
\* below 400, above, an exception, or a redirect without a Location.
Answer(h, response) ==
  /\ fetch[h].at = "get"
  /\ fetch' = [fetch EXCEPT ![h] =
       Requested(h, IF response = "page" THEN "page" ELSE "failed",
                 fetch[h].url, fetch[h].redirects)]

\* Mutant of Redirect: the count is compared before it is incremented.
RedirectLate(h, url) ==
  /\ fetch[h].at = "get"
  /\ fetch' = [fetch EXCEPT ![h] =
       IF fetch[h].redirects > MaxRedirects
       THEN Requested(h, "failed", fetch[h].url, fetch[h].redirects)
       ELSE Requested(h, "check", url, fetch[h].redirects + 1)]

Redirect(h, url) ==
  /\ fetch[h].at = "get"
  /\ fetch' = [fetch EXCEPT ![h] =
       IF fetch[h].redirects + 1 > MaxRedirects
       THEN Requested(h, "failed", fetch[h].url, fetch[h].redirects)
       ELSE Requested(h, "check", url, fetch[h].redirects + 1)]

FetchStep(h) == \/ CheckHop(h)
                \/ \E response \in Response : Answer(h, response)
                \/ \E url \in URL : Redirect(h, url)

Forget(h) == fetch' = [fetch EXCEPT ![h] = NoFetch]

-----------------------------------------------------------------------------
FetchOK == fetch \in [Handler -> Fetch]

\* No page is asked for that the check refuses, at whatever hop it turns up,
\* and a chain of redirects is given up after MaxRedirects of them: at most
\* one request more is ever sent (_fetch_direct_http).
RequestsWithinLimits ==
  \A h \in Handler : /\ \A url \in fetch[h].requested : IsSsrfSafeUrl(url)
                     /\ fetch[h].requests <= MaxRedirects + 1

\* Inductive: at each place of the loop, what was requested before it.
HopsCounted ==
  \A h \in Handler :
    /\ fetch[h].at = "get" => IsSsrfSafeUrl(fetch[h].url)
    /\ fetch[h].redirects <= MaxRedirects
    /\ fetch[h].at \in {"check", "get"} => fetch[h].requests = fetch[h].redirects
    /\ fetch[h].at = "none" => fetch[h] = NoFetch
FetchInv == FetchOK /\ HopsCounted /\ RequestsWithinLimits
=============================================================================
