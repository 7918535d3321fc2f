--------------------------- MODULE Normalization ---------------------------
(***************************************************************************)
(* indicators.py: how a value from a log, or from OpenCTI, is cleaned,     *)
(* classified and brought to the form that keys the membership set, the    *)
(* payload cache and the queries.                                          *)
(*                                                                         *)
(* A value is abstracted to what it names, the path if it is a URL, and    *)
(* the marks of its writing, each of which one step of normalize() may or  *)
(* may not remove.                                                         *)
(***************************************************************************)
CONSTANTS
  IPs, PrivateIPs,           \* addresses that are looked up, and the skippable ones
  IPv6s,                     \* those of them a URL writes in brackets
  Domains, InternalDomains,  \* host names, and those under a skipped TLD
  Digests,                   \* MD5, SHA-1 and SHA-256 digests
  Others,                    \* file names, e-mail addresses, host names of one label, other text
  Paths, NoPath              \* path and query of a URL; NoPath for anything else

Addresses == IPs \cup PrivateIPs
Hosts == Domains \cup InternalDomains
Names == Addresses \cup Hosts \cup Digests \cup Others

ASSUME NamesAssumption ==
  /\ IPv6s \subseteq Addresses
  /\ NoPath \notin Paths
  /\ Addresses \cap (Hosts \cup Digests \cup Others) = {}
  /\ Hosts \cap (Digests \cup Others) = {}
  /\ Digests \cap Others = {}

Marks == {
  "spaced",      \* white space around it
  "defanged",    \* hxxp, [.] and the like, quotes around it
  "upper",       \* capital letters, other than in a path
  "padded",      \* an IPv4 address with zero-padded octets
  "dot",         \* a host name's trailing dot
  "bare",        \* a URL without its scheme
  "decorated",   \* a URL with a default port, a user name or a fragment
  "bracketed",   \* a URL's IPv6 address in brackets, as it has to be
  "truncated"}   \* what urlsplit() takes for the host of an IPv6 address without them

Writings == [name : Names, path : Paths \cup {NoPath}, marks : SUBSET Marks]

IsURL(w) == w.path # NoPath

\* The tests of normalize() in their order; without brackets an IPv6 address
\* looks like a host with an invalid port.
Type(w) ==
  IF IsURL(w)
    THEN IF w.name \in IPv6s /\ "bracketed" \notin w.marks THEN "unknown" ELSE "url"
  ELSE IF w.name \in Addresses /\ "dot" \notin w.marks THEN "ip"
  ELSE IF w.name \in Digests /\ "dot" \notin w.marks THEN "hash"
  ELSE IF w.name \in Hosts THEN "domain"
  ELSE "unknown"

\* skip_reason: a private address as such, a skipped TLD also in a URL, unless a
\* trailing dot hides it there.
Skipped(w) ==
  IF IsURL(w) THEN w.name \in InternalDomains /\ "dot" \notin w.marks
              ELSE w.name \in PrivateIPs \cup InternalDomains

Lookupable(w) == Type(w) # "unknown" /\ ~ Skipped(w)

\* What each branch removes, after _defang. The netloc of a URL is rebuilt from
\* the host alone, which loses the brackets; its dot and its zeros stay.
Defang == {"spaced", "defanged"}
Removed(w) ==
  CASE Type(w) = "ip"     -> Defang \cup {"padded", "upper"}
    [] Type(w) = "hash"   -> Defang \cup {"upper"}
    [] Type(w) = "domain" -> Defang \cup {"upper", "dot"}
    [] Type(w) = "url"    -> Defang \cup {"upper", "bare", "decorated", "bracketed"}
    [] OTHER              -> Defang

Normal(w) == [w EXCEPT !.marks = @ \ Removed(w)]

\* url_hostname, of a URL in normal form.
UrlHost(n) ==
  [name |-> n.name, path |-> NoPath,
   marks |-> IF n.name \in IPv6s THEN {"truncated"} ELSE n.marks \cap {"dot", "padded"}]
=============================================================================
