--------------------------------- MODULE Build ---------------------------------
(* impersonate.Build (internal/impersonate/build.go): a Spec becomes a surf       *)
(* client, or is refused; what the schema of the directives let through and      *)
(* Build has no entry for would be a call of a nil function, or of a nil         *)
(* setting, in the middle of Cache.Get. surf's own builder is external.          *)
EXTENDS Directive

ASSUME NoneIsNoRefusal == None \notin {"nil setting", "nil provider"}

\* The tables of package impersonate, which are written apart from the schema's.
BuildPresets ==
    {"android", "chrome", "edge", "firefox", "ios", "randomized", "randomizedalpn", "randomizednoalpn", "safari"}
      \cup {"chrome58", "chrome62", "chrome70", "chrome72", "chrome83", "chrome87", "chrome96", "chrome100", "chrome102",
            "chrome106", "chrome120", "chrome120pq", "chrome152"}
      \cup {"edge85", "edge106", "ios11", "ios12", "ios13", "ios14"}
      \cup {"firefox55", "firefox56", "firefox63", "firefox65", "firefox99", "firefox102", "firefox105", "firefox120",
            "firefox148"}

BuildProviders ==
    {"adguard", "ali", "cirashield", "cloudflare", "forge", "google", "libredns", "quad101", "quad9", "sb", "switch"}

RefusesIdentity(s) ==
    s.browser # None /\ (s.browser \notin Browsers \/ (s.os # None /\ s.os \notin Families[s.browser]))

RefusesJa(s) == s.ja # None /\ s.ja \notin BuildPresets

\* hopDialer, for whatever scheme the proxy has.
RefusesProxy(s) == s.proxy # None /\ s.forcehttp = "3"

(* http3Settings dereferences the setting of every key of Order but grease.      *)
DerefsNil(s) ==
    s.http3settings # None /\ ~(Range(s.http3settings.order) \ {"grease"} \subseteq DOMAIN s.http3settings.values)

CallsNil(s) == s.dnsovertls \notin BuildProviders \cup {None, Custom}

(* The first reason for which Build does not reach surf's builder, if there is   *)
(* one: what the caller sees.                                                    *)
Refusal(s) ==
    IF RefusesIdentity(s)  THEN "identity"
    ELSE IF RefusesJa(s)    THEN "ja"
    ELSE IF DerefsNil(s)    THEN "nil setting"
    ELSE IF RefusesProxy(s) THEN "proxy"
    ELSE IF CallsNil(s)     THEN "nil provider"
    ELSE None

Panics(s) == Refusal(s) \in {"nil setting", "nil provider"}
================================================================================
