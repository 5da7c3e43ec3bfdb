------------------------- MODULE MCRegistrationSpec -------------------------
(* Two clients with different kernels over one campus, the newer one with  *)
(* types and statuses in its template; the copies a campus                 *)
(* may start with are none, an unstamped one and one with a stamp of before*)
(* 5.2.18, both with lines of the owner's, and one as rendered today.      *)
EXTENDS RegistrationSpec, TLC

CONSTANTS c1, c2, k1, k2, dA, dB, pA, pB, own, bad, note

MCTemplate == k1 :> [depts |-> {dA}, prose |-> {pA}] @@ k2 :> [depts |-> {dA, dB}, prose |-> {pB}]

MCInstalled == c1 :> k2 @@ c2 :> k1

OldBody == RenderBody(MCTemplate[k1], None)

Stamp(body) == [tmpl |-> MCTemplate[k1], ovr |-> None, kernel |-> k1, body |-> body]

Noted == [OldBody EXCEPT !.prose = @ \cup {note}]

MCInitSpecs == {None,
                [stamp |-> None, body |-> Noted],
                [stamp |-> Stamp(None), body |-> Noted],
                [stamp |-> Stamp(OldBody), body |-> OldBody]}
=============================================================================
