---------------------------- MODULE MCCovenants -----------------------------
(***************************************************************************)
(* Instances of Covenants: a seal under each covenant, one payload that    *)
(* carries all transitions and one that carries none.  Other spends pick   *)
(* each output among those a program looks at and one it does not.         *)
(***************************************************************************)
EXTENDS Covenants

CONSTANTS lock, burn, staked, swap, other

MCProgram ==
    [s \in Seals |->
        CASE s \in {lock, other} -> "mint_gate"
          [] s = burn -> "mint_gate_burn"
          [] s = staked -> "staking"
          [] s = swap -> "rgb_anchor"]

MCWorth == [s \in Seals |-> IF s \in {staked, swap} THEN 2 ELSE 1]

Anchors == { Output("lbtc", 0, Opret(p)) : p \in Payloads }
           \cup { Output("usdt", Tranche, Opret(p)) : p \in Payloads }
Blinded(out) == [out EXCEPT !.explicit = FALSE]
Seconds == { Output("usdt", Tranche, Vault), Blinded(Output("usdt", Tranche, Vault)),
             Output("usdt", Tranche - 1, Vault),
             Output("lbtc", 1, Staker) }
Thirds == { Output("lbtc", 1, Covenant("mint_gate_burn")), Output("lbtc", 1, Recipient) }
Fourths == { Output("lbtc", 1, Covenant("mint_gate")), Output("lbtc", 1, Recipient) }

MCLayouts == { <<a, b, c, d>> : a \in Anchors, b \in Seconds, c \in Thirds, d \in Fourths }

\* A gate re-created in the asset that backs it, and one as it was.
AssetLayouts ==
    { <<Output("usdt", Tranche, Opret(Seals)), Output("usdt", Tranche, Vault),
        Output("lbtc", 1, Recipient), Output(asset, 1, Covenant("mint_gate"))>>
      : asset \in {"lbtc", "usdt"} }

\* One spend that every gate lets through, and one that the staking covenant does.
FewLayouts ==
    { <<Output("usdt", Tranche, Opret(Seals)), Output("usdt", Tranche, Vault),
        Output("lbtc", 1, Covenant("mint_gate_burn")), Output("lbtc", 1, Covenant("mint_gate"))>>,
      <<Output("lbtc", 0, Opret(Seals)), Output("lbtc", 2, Staker)>> }

MCPayloads == {{}, Seals}
Carried == {Seals}
=============================================================================
