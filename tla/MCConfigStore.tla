---------------------------- MODULE MCConfigStore ----------------------------
(***************************************************************************)
(* ConfigStore with two ports, two keys and up to three proxies: enough    *)
(* for a proxy that runs and has no entry and for one with two entries.    *)
(***************************************************************************)
EXTENDS ConfigStore

CONSTANTS h1, h2, k1, k2, pw

OneHandler == {h1}
TwoHandlers == {h1, h2}

MCKeys == {k1, k2}
MCPasswords == {pw}
MCDefaults == {"none", "custom"}
MCPorts == {8080, 9880}
MCGuardConfigs == {"all", "custom"}

\* The README's configuration after the administrator has chosen a password,
\* with a second proxy on the port that Add Proxy uses, and a key.
Chosen ==
  [api |-> 9881, defaults |-> "custom", keys |-> {k1}, password |-> pw,
   proxies |-> <<[port |-> 9880, guard |-> "custom"],
                 [port |-> 8080, guard |-> "custom"]>>]

ChosenFile == [kind |-> "root", root |-> Chosen]

OneFile == {ChosenFile}

\* Also no file yet, and settings without proxies, which LoadConfigs fills in.
AnyFile ==
  {ChosenFile, [kind |-> "missing"],
   [kind |-> "root", root |-> [Chosen EXCEPT !.proxies = <<>>]]}

=============================================================================
