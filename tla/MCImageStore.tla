---------------------------- MODULE MCImageStore ----------------------------
(***************************************************************************)
(* Small instances of ImageStore.                                          *)
(***************************************************************************)
EXTENDS ImageStore, TLC

CONSTANTS p1, p2, d1, alpine, app, app_, amd, arm

(***************************************************************************)
(* mA and mB share the base layer, mTop has the other one alone.  mBad     *)
(* and mWrong have the configs of mB and mTop and a blob that does not     *)
(* inflate to the diff ID stated there, mShort has a layer more than its   *)
(* config has diff IDs.                                                    *)
(***************************************************************************)
MCManifests == {"mA", "mB", "mTop", "mBad", "mWrong", "mShort"}
MCConfigs == {"cA", "cB", "cTop"}
MCBlobs == {"base", "top", "evil"}
MCDiffIDs == {"dBase", "dTop", "dEvil"}
MCConfigOf == [mA |-> "cA", mB |-> "cB", mTop |-> "cTop", mBad |-> "cB",
               mWrong |-> "cTop", mShort |-> "cA"]
MCLayersOf == [mA |-> <<"base">>, mB |-> <<"base", "top">>, mTop |-> <<"top">>,
               mBad |-> <<"base", "evil">>, mWrong |-> <<"evil">>, mShort |-> <<"base", "top">>]
MCDiffIDsOf == [cA |-> <<"dBase">>, cB |-> <<"dBase", "dTop">>, cTop |-> <<"dTop">>]
MCInflate == [base |-> "dBase", top |-> "dTop", evil |-> "dEvil"]

(* One reference with a name of its own. *)
MCRefNames == {"alpine"}
MCEscapeRef == alpine :> "alpine"

(* Two references that EscapeRef maps to one file name: one with an image   *)
(* for each platform, the other with one that the pull rejects and one that *)
(* the build rejects.                                                       *)
CollidingRefNames == {"app"}
CollidingEscapeRef == app :> "app" @@ app_ :> "app"
CallServes == [r \in Request |->
    CASE r.ref = app_ /\ r.plat = amd -> {"mShort"}
      [] r.ref = app_ /\ r.plat # amd -> {"mWrong"}
      [] r.ref = app /\ r.plat = amd -> {"mA"}
      [] OTHER -> {"mTop"}]

(* A reference that moves between a good image and one that cannot be built. *)
RaceServes == [r \in Request |-> {"mB", "mBad"}]
=============================================================================
