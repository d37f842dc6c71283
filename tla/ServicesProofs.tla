--------------------------- MODULE ServicesProofs ---------------------------
(***************************************************************************)
(* The services side by side, as they are checked: a behaviour of the      *)
(* composition is a behaviour of every service, so that what is proved of  *)
(* each of them holds of the composition, for every value of the constants *)
(* of all of them.                                                         *)
(***************************************************************************)
EXTENDS MCServices, SafetyProofs, IngestionProofs, LedgerProofs

\* Every service starts as it does on its own.
LEMMA ServicesStart ==
    Init => /\ KsInit /\ QtInit /\ SrInit /\ CrInit /\ RgInit /\ TnInit /\ CnInit /\ IbInit
            /\ AnInit /\ EsInit /\ AcInit /\ BlInit /\ DgInit
  BY DEF Init

\* A step of the composition is a step of every service, or leaves it as it is.
LEMMA ServicesStep ==
    [Next]_vars => /\ [KsNext]_ksVars /\ [QtNext]_qtVars /\ [SrNext]_srVars /\ [CrNext]_crVars
                   /\ [RgNext]_rgVars /\ [TnNext]_tnVars /\ [CnNext]_cnVars /\ [IbNext]_ibVars
                   /\ [AnNext]_anVars /\ [EsNext]_esVars /\ [AcNext]_acVars /\ [BlNext]_blVars
                   /\ [DgNext]_dgVars
  BY DEF Next, vars, Only

\* The composition implements every service: no step of one disturbs another.
THEOREM ServicesApart ==
    Spec => /\ KsSpec /\ QtSpec /\ SrSpec /\ CrSpec /\ RgSpec /\ TnSpec /\ CnSpec /\ IbSpec
            /\ AnSpec /\ EsSpec /\ AcSpec /\ BlSpec /\ DgSpec
  BY ServicesStart, ServicesStep, PTL
     DEF Spec, KsSpec, QtSpec, SrSpec, CrSpec, RgSpec, TnSpec, CnSpec, IbSpec, AnSpec, EsSpec,
         AcSpec, BlSpec, DgSpec

\* Every inductive invariant types the variables of its service.
LEMMA InductiveIsTyped ==
    /\ KsInductive => KsTypeOK
    /\ QtInductive => QtTypeOK
    /\ SrInductive => SrTypeOK
    /\ CrInductive => CrTypeOK
    /\ RgInductive => RgTypeOK
    /\ TnInductive => TnTypeOK
    /\ CnInductive => CnTypeOK
    /\ IbInductive => IbTypeOK
    /\ AnInductive => AnTypeOK
    /\ EsInductive => EsTypeOK
    /\ AcInductive => AcTypeOK
    /\ BlInductive => BlTypeOK
    /\ DgTyped => DgTypeOK
  BY DEF KsInductive, QtInductive, SrInductive, CrInductive, RgInductive, TnInductive, CnInductive,
         IbInductive, AnInductive, EsInductive, AcInductive, BlInductive, DgTyped

\* The variables of all services keep their types, whichever of them runs.
THEOREM ServicesTyped == Spec => []ServicesTypeOK
<1>1. /\ KsTypeOK /\ QtTypeOK /\ SrTypeOK /\ CrTypeOK /\ RgTypeOK /\ TnTypeOK /\ CnTypeOK
      /\ IbTypeOK /\ AnTypeOK /\ EsTypeOK /\ AcTypeOK /\ BlTypeOK /\ DgTypeOK
      => ServicesTypeOK
  BY DEF ServicesTypeOK
<1> QED BY <1>1, ServicesApart, InductiveIsTyped, KsInvariant, QtInvariant, SrInvariant, CrInvariant,
           RgInvariant, TnInvariant, CnInvariant, IbInvariant, AnInvariant, EsInvariant,
           AcInvariant, BlInvariant, DgTypeInvariant, PTL
=============================================================================
