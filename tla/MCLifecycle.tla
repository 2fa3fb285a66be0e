----------------------------- MODULE MCLifecycle -----------------------------
(***************************************************************************)
(* Lifecycle on two free ports and an occupied one, from no file, an array  *)
(* of one proxy, two proxies on different ports and two on the same port,   *)
(* as Add Proxy leaves them.                                                *)
(***************************************************************************)
EXTENDS Lifecycle

MCPorts == {8080, 9880, 9999}

MCGuardConfigs == {"all", "custom"}

On(port, guard) == [port |-> port, guard |-> guard]

RootFile(list) == [kind |-> "root", root |-> RootOf(list)]

MCStartFiles ==
  {[kind |-> "missing"],
   [kind |-> "legacy", proxies |-> <<On(9999, "custom")>>],
   RootFile(<<On(9880, "custom"), On(8080, "all")>>),
   RootFile(<<On(8080, "custom"), On(8080, "all")>>)}

=============================================================================
