----------------------------- MODULE MCPluginHub -----------------------------
(* The instance of PluginHub that TLC checks: one package is in the official
   registry, the other is not; c2 has a component more than c1, c4 has two of one
   name, and c3, which is unclean, none; the manifest may name a package twice. *)
EXTENDS PluginHub
CONSTANTS dbt, hcl, c1, c2, c3, c4, f1, f2, d1, d2
one == {<<f1, d1>>}
both == {<<f1, d1>>, <<f2, d2>>}
MCComponents ==
  [c \in Content |-> CASE c = c1 -> one [] c = c2 -> both [] c = c3 -> {}
                       [] c = c4 -> {<<f1, d1>>, <<f1, d2>>}]
MCRecorded == [c \in Content |-> IF c = c4 THEN one ELSE MCComponents[c]]
MCWheel == [c \in Content |-> IF c = c4 THEN {<<f1, d2>>} ELSE MCComponents[c]]
MCRegistry == [p \in Package |-> IF p = dbt THEN c1 ELSE None]
Entry(p, form, pin, hash) == [pkg |-> p, form |-> form, pin |-> pin, hash |-> hash]
MCManifests ==
  {<<>>,
   <<Entry(hcl, "short", both, None)>>,
   <<Entry(dbt, "short", one, c1), Entry(hcl, "full", {}, None)>>,
   <<Entry(dbt, "full", one, None), Entry(dbt, "short", both, None)>>}
===============================================================================
