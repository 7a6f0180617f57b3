---------------------------- MODULE MC_ParticleData ----------------------------
(* One type name in the system and one unknown name, two initial particles  *)
(* and a third tag, so that a removal leaves a live tag at or above the     *)
(* number of particles and an addition may recycle or take a fresh tag.    *)
EXTENDS ParticleData

MCTypeList == <<"A">>
=============================================================================
