----------------------------- MODULE MC_Proxies ------------------------------
EXTENDS Proxies

CONSTANTS v0, v1, v2

\* two distinct particle type names, as init.create_empty(particle_types=...)
MCTypeList == <<"A", "B">>

\* v0 is exact in the engine's Scalar; v2 is an input that single precision
\* rounds (and int() truncates) to the engine value v1
MCToScalar == (v0 :> v0) @@ (v2 :> v1)
MCToInt == (v0 :> v0) @@ (v2 :> v1)
=============================================================================
