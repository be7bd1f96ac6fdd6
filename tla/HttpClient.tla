----------------------------- MODULE HttpClient -----------------------------
(***************************************************************************)
(* src/core/util/httputil/http_client_builder.go: a builder collects       *)
(* settings, Build applies the configuration and makes the client, and the *)
(* proxy function of the transport sends each request to a tunnel's proxy, *)
(* to the proxy of the others, or nowhere.  A subnet stands for the        *)
(* addresses in it.                                                        *)
(***************************************************************************)
EXTENDS Integers, Sequences, FiniteSets, SequencesExt

CONSTANTS
    HostNames,     \* the hosts of requests
    Subdomains,    \* pairs <<host, h>> of them: host ends in "." and h
    Subnets,       \* the subnets of addresses
    Tunnels,       \* [hosts, ipset, proxy], of HTTPClientProxyItem
    MaxTunnels     \* bound: tunnels of a configuration

\* "next" and "error" stand for no proxy and for no addresses.
ASSUME HttpAssumption ==
    /\ MaxTunnels \in Nat
    /\ \A t \in Tunnels : t.proxy # "next" /\ "error" \notin t.ipset

VARIABLES
    proxyFunc,        \* of the builder: "environment", "none", "url"
    tunnels,          \* proxyHosts, also the transport's, which shares the builder
    transportProxy,   \* the Proxy of the transport: [kind, to], "unset" before Build
    insecure,         \* InsecureSkipVerify
    built,            \* has Build made the client?
    defaultClient     \* http.DefaultClient and DefaultTransport: "original" or "built"

httpVars == <<proxyFunc, tunnels, transportProxy, insecure, built, defaultClient>>

TunnelLists == UNION {[1..n -> Tunnels] : n \in 0..MaxTunnels}

HttpTypeOK ==
    /\ proxyFunc \in {"environment", "none", "url"}
    /\ tunnels \in TunnelLists
    /\ transportProxy \in [kind : {"unset", "plain", "tunnels"}, to : {"environment", "none", "url"}]
    /\ insecure \in BOOLEAN /\ built \in BOOLEAN
    /\ defaultClient \in {"original", "built"}
    /\ built <=> transportProxy.kind # "unset"

HttpInit ==
    /\ proxyFunc = "environment" /\ tunnels = <<>>
    /\ transportProxy = [kind |-> "unset", to |-> "none"]
    /\ insecure = FALSE /\ built = FALSE /\ defaultClient = "original"

SetSSLVerification(enabled) ==
    /\ insecure' = ~enabled
    /\ UNCHANGED <<proxyFunc, tunnels, transportProxy, built, defaultClient>>

SetProxy(f) ==
    /\ proxyFunc' = f
    /\ UNCHANGED <<tunnels, transportProxy, insecure, built, defaultClient>>

SetProxyHosts(list) ==
    /\ tunnels' = list
    /\ UNCHANGED <<proxyFunc, transportProxy, insecure, built, defaultClient>>

\* The proxy function that the configuration leaves: fromEnv says no, a URL is given.
Configured(fromEnv, url) ==
    CASE url -> "url"
      [] ~url /\ ~fromEnv -> "none"
      [] OTHER -> proxyFunc

\* A malformed URL or subnet ends Build, after the proxy function was set, before a
\* client is built; an earlier client keeps its transport.
BuildRefused(fromEnv, url) ==
    /\ proxyFunc' = Configured(fromEnv, url)
    /\ UNCHANGED <<tunnels, transportProxy, insecure, built, defaultClient>>

\* buildTransportProxy: no proxy at all, in the fallback, for a nil function.
BuildTransportProxy(f, list) ==
    [kind |-> IF list = <<>> THEN "plain" ELSE "tunnels", to |-> f]

Make(f, list, unsafe, replaceDefault) ==
    /\ proxyFunc' = f /\ tunnels' = list /\ insecure' = unsafe
    /\ transportProxy' = BuildTransportProxy(f, list)
    /\ built' = TRUE
    /\ defaultClient' = IF replaceDefault THEN "built" ELSE defaultClient

\* Build with a configuration: split is its split_tunnel, verification its
\* ssl_verification (true when left out).
Build(fromEnv, url, split, verification, replaceDefault) ==
    Make(Configured(fromEnv, url), IF split = <<>> THEN tunnels ELSE split, ~verification, replaceDefault)

BuildUnconfigured(replaceDefault) == Make(proxyFunc, tunnels, insecure, replaceDefault)

ReplaceDefault ==
    /\ defaultClient' = IF built THEN "built" ELSE defaultClient
    /\ UNCHANGED <<proxyFunc, tunnels, transportProxy, insecure, built>>

RestoreDefault ==
    /\ defaultClient' = "original"
    /\ UNCHANGED <<proxyFunc, tunnels, transportProxy, insecure, built>>

HttpNext ==
    \/ \E b \in BOOLEAN : SetSSLVerification(b)
    \/ \E f \in {"environment", "none", "url"} : SetProxy(f)
    \/ \E list \in TunnelLists : SetProxyHosts(list)
    \/ \E fromEnv, url \in BOOLEAN :
        \/ BuildRefused(fromEnv, url)
        \/ \E split \in TunnelLists, v, r \in BOOLEAN : Build(fromEnv, url, split, v, r)
    \/ \E r \in BOOLEAN : BuildUnconfigured(r)
    \/ ReplaceDefault \/ RestoreDefault

HttpSpec == HttpInit /\ [][HttpNext]_httpVars

-----------------------------------------------------------------------------
\* A lookup of the request's host gives addresses or an error.
Lookups == (SUBSET Subnets) \cup {{"error"}}

Matches(host, h) == host = h \/ <<host, h>> \in Subdomains

Faulty_Proxy(host, lookup, list) ==
    LET Try(t) ==
            IF \E h \in t.hosts : Matches(host, h) THEN t.proxy
            ELSE IF t.ipset # {} /\ lookup = {"error"} THEN "next"
            ELSE IF t.ipset \cap lookup # {} THEN t.proxy ELSE "next"
    IN  FoldLeft(LAMBDA found, t : IF found = "next" THEN Try(t) ELSE found, "next", list)

\* One tunnel after the other: its hosts, then the addresses, looked up when the first
\* subnet is met.
Proxy(host, lookup, list) ==
    LET Try(t) ==
            IF \E h \in t.hosts : Matches(host, h) THEN t.proxy
            ELSE IF t.ipset # {} /\ lookup = {"error"} THEN "error"
            ELSE IF t.ipset \cap lookup # {} THEN t.proxy ELSE "next"
    IN  FoldLeft(LAMBDA found, t : IF found = "next" THEN Try(t) ELSE found, "next", list)

\* Where the client that was built sends a request; lists set later are seen at once.
Route(host, lookup) ==
    IF transportProxy.kind = "plain" THEN transportProxy.to
    ELSE LET found == Proxy(host, lookup, tunnels)
         IN  IF found = "next" THEN transportProxy.to ELSE found

\* A request goes through the first tunnel that names its host or has an address of
\* it, unless a lookup failed on the way there; past all tunnels as if there were none.
TunnelFirstMatch ==
    LET named(t, host) == \E h \in t.hosts : Matches(host, h)
        takes(t, host, lookup) == named(t, host) \/ t.ipset \cap lookup # {}
    IN  transportProxy.kind = "tunnels" => \A host \in HostNames, lookup \in Lookups :
            LET before(i) == \A j \in 1..(i - 1) : ~takes(tunnels[j], host, lookup)
                needsLookup(i) == tunnels[i].ipset # {} /\ ~named(tunnels[i], host)
                stops == {i \in DOMAIN tunnels : before(i) /\
                            (takes(tunnels[i], host, lookup) \/ (needsLookup(i) /\ lookup = {"error"}))}
            IN  \/ stops = {} /\ Route(host, lookup) = transportProxy.to
                \/ \E i \in stops : /\ \A j \in stops : i <= j
                                    /\ Route(host, lookup) =
                                        IF takes(tunnels[i], host, lookup) THEN tunnels[i].proxy ELSE "error"
=============================================================================
