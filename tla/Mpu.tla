-------------------------------- MODULE Mpu ---------------------------------
(***************************************************************************)
(* Regions of the memory protection unit (arch/arm/cortex_m/core/mpu.c).   *)
(* A region is selected with RNR and then described by RBAR and RASR: one  *)
(* register write after the other, while the hardware goes on checking     *)
(* every access against what the registers say.                            *)
(***************************************************************************)
EXTENDS Integers

CONSTANTS NumRegions,      \* 8
          MpuMemory,       \* the addresses looked at
          MpuConfigs,      \* the regions in use: [base_addr, size_bytes, ap, execute]
          Off,             \* no such region
          MpuCallers,      \* contexts that set regions up
          InPlace          \* an enabled region may be described anew

(* What the comments of vibe_mpu_region_t demand: a power of two, 32 at    *)
(* least, and a base that is a multiple of it.                             *)
ASSUME MpuAssumption ==
  /\ NumRegions \in Nat /\ Off \notin MpuConfigs /\ InPlace \in BOOLEAN
  /\ MpuMemory \subseteq Nat
  /\ \A c \in MpuConfigs : /\ c.base_addr \in Nat
                           /\ \E k \in 5..31 : c.size_bytes = 2 ^ k
                           /\ c.base_addr % c.size_bytes = 0

VARIABLES mpu,             \* [on, RNR, RBAR, RASR]; the last two per region
          mpucall,         \* caller -> [at, region, cfg]: the call in progress
          wanted           \* ghost: what the calls that returned have asked for

mpuvars == <<mpu, mpucall, wanted>>

Region == 0..(NumRegions - 1)

RegionOff == [enable |-> FALSE, size |-> 0, ap |-> "none", xn |-> FALSE]
NoMpuCall == [at |-> "out", region |-> 0, cfg |-> Off]

MpuReset ==
  /\ mpu = [on |-> FALSE, RNR |-> 0, RBAR |-> [r \in Region |-> 0],
            RASR |-> [r \in Region |-> RegionOff]]
  /\ mpucall = [c \in MpuCallers |-> NoMpuCall]
  /\ wanted = [r \in Region |-> Off]

(* log2 of the size, rounded down, less one: what the SIZE field holds.    *)
bytes_to_mpu_size(bytes) ==
  IF bytes < 32 THEN 4
  ELSE (CHOOSE k \in 5..31 : bytes \div 2 ^ k = 1) - 1

arch_mpu_enable ==
  /\ NumRegions > 0 /\ ~mpu.on
  /\ mpu' = [mpu EXCEPT !.on = TRUE]
  /\ UNCHANGED <<mpucall, wanted>>

(* Both calls begin by selecting the region; one beyond the last is refused. *)
MpuSelect(c, r, cfg) ==
  /\ mpucall[c].at = "out" /\ r \in Region
  /\ mpu' = [mpu EXCEPT !.RNR = r]
  /\ mpucall' = [mpucall EXCEPT ![c] =
       [at |-> IF cfg = Off THEN "attributes" ELSE "base", region |-> r, cfg |-> cfg]]
  /\ UNCHANGED wanted

arch_mpu_configure_region(c, r, cfg) ==
  cfg # Off /\ (InPlace \/ ~mpu.RASR[r].enable) /\ MpuSelect(c, r, cfg)

arch_mpu_disable_region(c, r) == MpuSelect(c, r, Off)

Attributes(cfg) ==
  IF cfg = Off THEN RegionOff
  ELSE [enable |-> TRUE, size |-> bytes_to_mpu_size(cfg.size_bytes), ap |-> cfg.ap,
        xn |-> ~cfg.execute]

Base_EnablesFirst(c) ==
  /\ mpucall[c].at = "base"
  /\ mpu' = [mpu EXCEPT !.RASR[mpu.RNR] = Attributes(mpucall[c].cfg)]
  /\ mpucall' = [mpucall EXCEPT ![c].at = "attributes"]
  /\ UNCHANGED wanted

WriteBase(c) ==
  /\ mpucall[c].at = "base"
  /\ mpu' = [mpu EXCEPT !.RBAR[mpu.RNR] = (mpucall[c].cfg.base_addr \div 32) * 32]
  /\ mpucall' = [mpucall EXCEPT ![c].at = "attributes"]
  /\ UNCHANGED wanted

(* The write that makes the region valid, or switches it off.              *)
WriteAttributes(c) ==
  /\ mpucall[c].at = "attributes"
  /\ mpu' = [mpu EXCEPT !.RASR[mpu.RNR] = Attributes(mpucall[c].cfg)]
  /\ wanted' = [wanted EXCEPT ![mpucall[c].region] = mpucall[c].cfg]
  /\ mpucall' = [mpucall EXCEPT ![c] = NoMpuCall]

MpuNext ==
  \/ arch_mpu_enable
  \/ \E c \in MpuCallers :
       \/ \E r \in Region : \/ arch_mpu_disable_region(c, r)
                            \/ \E cfg \in MpuConfigs : arch_mpu_configure_region(c, r, cfg)
       \/ WriteBase(c) \/ WriteAttributes(c)

MpuSpec == MpuReset /\ [][MpuNext]_mpuvars

-----------------------------------------------------------------------------
(* External: the highest region that an address lies in decides; outside   *)
(* of all of them the default map applies (PRIVDEFENA).  The base counts   *)
(* only down to the size.                                                  *)
Highest(S) == CHOOSE r \in S : \A q \in S : q <= r

Checked(a) ==
  LET len(r) == 2 ^ (mpu.RASR[r].size + 1)
      hits == {r \in Region : mpu.RASR[r].enable /\ a \div len(r) = mpu.RBAR[r] \div len(r)}
  IN  IF ~mpu.on \/ hits = {} THEN <<"default">>
      ELSE <<mpu.RASR[Highest(hits)].ap, mpu.RASR[Highest(hits)].xn>>

(* Reference: the same, from the regions w that have been asked for.       *)
Meant(w, a) ==
  LET hits == {r \in Region : w[r] # Off /\
                 a \in w[r].base_addr..(w[r].base_addr + w[r].size_bytes - 1)}
  IN  IF ~mpu.on \/ hits = {} THEN <<"default">>
      ELSE <<w[Highest(hits)].ap, ~w[Highest(hits)].execute>>

(* Every access is checked against the regions asked for; while            *)
(* arch_mpu_configure_region or arch_mpu_disable_region writes its         *)
(* registers, against those before the call or those after it, and never   *)
(* against a mixture.  Needs regions to be switched off before they move.  *)
MpuProtects ==
  LET After == [r \in Region |->
        IF \E c \in MpuCallers : mpucall[c].at # "out" /\ mpucall[c].region = r
        THEN (CHOOSE k \in {mpucall[c] : c \in MpuCallers} : k.at # "out" /\ k.region = r).cfg
        ELSE wanted[r]]
  IN  \A a \in MpuMemory : Checked(a) \in {Meant(wanted, a), Meant(After, a)}

=============================================================================
