--------------------------- MODULE MCConfigExtends --------------------------
(***************************************************************************)
(* ConfigExtends on four configs: chains, two configs extended at once,    *)
(* one of which may inherit, and a config reached on two paths, in one     *)
(* directory and several.                                                  *)
(***************************************************************************)
EXTENDS ConfigExtends

CONSTANTS k1, v1, v2, r1, r2

MCDefault == [k \in {k1} |-> v1]

Sev(s1, s2) == [r \in {r1, r2} |-> IF r = r1 THEN s1 ELSE s2]
Rel(n) == [fixed |-> FALSE, at |-> n]
Fix(n) == [fixed |-> TRUE, at |-> n]
Over(inc, exc, sev) == [include |-> inc, exclude |-> exc, severity |-> sev]
Entry(option, sev, overrides) ==
  [option |-> [k \in {k1} |-> option], severity |-> sev, overrides |-> overrides]

\* Places 10 and 11 are named by relative, rooted and absent specs.
MCStanza ==
  { NoStanza,
    Entry(Unset, Unset, Unset),
    Entry(v2, Sev("error", Unset), Unset),
    Entry(v1, Null, <<Over({Rel(10)}, {}, Sev("off", "off"))>>),
    Entry(Unset, Sev("off", "error"), <<Over({Rel(10), Fix(11)}, {}, Sev("error", Unset))>>),
    Entry(v2, Unset, <<Over({}, {Rel(11)}, Sev("off", Unset)),
                       Over({Rel(9)}, {}, Sev(Unset, "off"))>>),
    Entry(v1, Unset, << >>) }

MCExtends ==
  { [c \in Config |-> IF c = 0 THEN << >> ELSE IF c = 1 THEN e1 ELSE IF c = 2 THEN e2 ELSE e3] :
      e1 \in { << >>, <<0>> }, e2 \in { << >>, <<0>>, <<1>>, <<0, 1>>, <<1, 0>> },
      e3 \in { <<2>>, <<0, 2>> } }

MCDir == { [c \in Config |-> 0], [c \in Config |-> IF c = Last THEN 0 ELSE 1 - 2 * c] }

MCInit ==
  /\ extends \in MCExtends /\ stanza \in [Config -> MCStanza] /\ dir \in MCDir
  /\ Start

MCSpec == MCInit /\ [][Next]_vars
=============================================================================
