-------------------------- MODULE NetworkAdapters ---------------------------
(***************************************************************************)
(* LocalNetworkAdapter (a GET or HEAD that follows redirects by hand),     *)
(* LocalBrowserAdapter (a document fetched through it) and                 *)
(* PlaywrightBrowserAdapter (a real browser).                              *)
(*                                                                         *)
(* A host resolves to a "public" or a "private" address, and what it       *)
(* resolves to may change at any moment.  resolve_and_check_url refuses a  *)
(* private address and returns the address the connection is pinned to.    *)
(* GET and HEAD count as no effect.  What addresses the browser engine     *)
(* itself connects to is not modelled.                                     *)
(***************************************************************************)
EXTENDS AppWorld

CONSTANT MaxRedirects   \* arguments.max_redirects (the code allows 0 .. 5)

Hosts  == {"first", "next"}
NoHop  == [host |-> "first", count |-> 0, pin |-> "none"]

NetRest == UNCHANGED <<control, target, started, dns, handled, verdict>>
Clean   == UNCHANGED <<files, effect>>

Fetches == adapter \in {"network.local", "browser.local"}

\* resolve_and_check_url on the host of the current hop.
Passes(h) == dns[h] = "public"

\* The gates before the first request: context, url, proxy, method, the first
\* look at the address, raw secrets, max_redirects.  browser.local plans an
\* ephemeral profile first and always sends GET.
NetRefuses ==
    \/ Refuses({"url", "proxy", "raw_secret", "redirects", "attach", "persistent"})
    \/ call.flaw = "method" /\ adapter = "network.local"
    \/ ~Passes("first")

\* int(max_redirects) raises on what is no number; browser.local takes it
\* before it looks at the address.
BadRedirects ==
    /\ call.scoped /\ call.flaw = "redirects"
    /\ adapter = "browser.local" \/ Passes("first")

NetInvoke ==
    /\ phase = "invoked" /\ Fetches
    /\ \/ NetRefuses /\ Fail /\ UNCHANGED hop
       \/ BadRedirects /\ Raise /\ UNCHANGED hop
       \/ ~NetRefuses /\ phase' = "hop" /\ hop' = NoHop /\ UNCHANGED answer
    /\ Clean /\ UNCHANGED sent /\ NetRest

\* Seeded fault: only the first address is checked.
Recheck_First ==
    /\ phase = "hop" /\ Fetches
    /\ hop' = [hop EXCEPT !.pin = dns[hop.host]]
    /\ phase' = "request" /\ UNCHANGED answer
    /\ Clean /\ UNCHANGED sent /\ NetRest

\* Every hop is resolved and checked again, and the address kept for the
\* connection; so are the scheme and the credential of the request.
Recheck ==
    /\ phase = "hop" /\ Fetches
    /\ \/ /\ Passes(hop.host)
          /\ hop' = [hop EXCEPT !.pin = dns[hop.host]]
          /\ phase' = "request" /\ UNCHANGED answer
       \/ Fail /\ UNCHANGED hop
       \/ Raise /\ UNCHANGED hop
    /\ Clean /\ UNCHANGED sent /\ NetRest

\* browser.local turns a fetched document into a page.
Fetched(a) == IF a = "browser.local" THEN "page_fetched" ELSE "response_received"

Follows == hop.count < MaxRedirects

\* One request and its response: a redirect that may be followed, a final
\* status, a TLS failure, or a network error that leaves all open.
Request ==
    /\ phase = "request" /\ Fetches
    /\ sent' = Append(sent, hop.pin)
    /\ \/ /\ Follows
          /\ \E h \in Hosts : hop' = [host |-> h, count |-> hop.count + 1, pin |-> "none"]
          /\ phase' = "hop" /\ UNCHANGED answer
       \/ /\ UNCHANGED hop
          /\ \/ Answer("SUCCESS", Fetched(adapter), TRUE)
             \/ Answer("FAILURE", "response_received", TRUE)
             \/ Fail
             \/ Answer("UNKNOWN", "none", FALSE)
    /\ Clean /\ NetRest

-----------------------------------------------------------------------------
(* browser.engine *)

EngineRest == UNCHANGED <<sent, hop>> /\ NetRest

\* The scope, the url, the first look at the address, a session that may not
\* be attached to (a SecurityViolationError), downloads and uploads switched
\* off.
EngineRefuses ==
    \/ Refuses({"url", "attach"}) \/ ~Passes("first")
    \/ call.flaw = "no_downloads" /\ Op({"download"})
    \/ call.flaw = "no_uploads" /\ Op({"upload"})

\* Also refused: no engine starts, or the profile directory is not allowed.
EngineInvoke ==
    /\ At("browser.engine", "invoked")
    /\ \/ Fail
       \/ ~EngineRefuses /\ phase' = "act" /\ UNCHANGED answer
    /\ Clean /\ EngineRest

\* The page is loaded; a download is saved or a file handed to the page, if
\* its path is inside the roots.
EngineAct ==
    /\ At("browser.engine", "act")
    /\ \/ Op({"navigate", "read"}) /\ phase' = "post" /\ UNCHANGED answer /\ Clean
       \/ /\ Op({"download", "upload"}) /\ call.flaw \notin {"selector", "outside"}
          /\ files' = IF Op({"download"}) THEN [files EXCEPT !["b"] = "new"] ELSE files
          /\ effect' = TRUE /\ phase' = "post" /\ UNCHANGED answer
       \/ Fail /\ Clean
    /\ EngineRest

\* The final address is checked and the page read; any exception, even now,
\* is reported as FAILURE.
EnginePost ==
    /\ At("browser.engine", "post")
    /\ Answer("SUCCESS", "page_fetched", FALSE) \/ Fail
    /\ Clean /\ EngineRest

NetworkStep ==
    NetInvoke \/ Recheck \/ Request \/ EngineInvoke \/ EngineAct \/ EnginePost

=============================================================================
