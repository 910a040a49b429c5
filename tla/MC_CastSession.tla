--------------------------- MODULE MC_CastSession ---------------------------
(* Model values for checking CastSession with TLC.                         *)
EXTENDS CastSession

CONSTANTS i1, i2   \* two local IPv4 addresses (model values)

\* No address on the receiver's subnet, one, or two (the dialog).
AllIpChoices == {{}, {i1}, {i1, i2}}

\* Interfaces with no address on the receiver's subnet.
NoIpChoices == {{}}

\* Exactly one address on the receiver's subnet.
OneIpChoices == {{i1}}

\* Two addresses on the receiver's subnet: the dialog opens.
TwoIpChoices == {{i1, i2}}
=============================================================================
