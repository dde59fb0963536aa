------------------------- MODULE Mdp5Pipeline_proofs -------------------------
(***************************************************************************)
(* Proofs about Mdp5Pipeline, for every board, mode and fault.              *)
(*                                                                         *)
(* First the encoders a board gets.  Then, while no CRTC that has mixers    *)
(* changes their number ("mixers" \notin Switches), who has which layer     *)
(* mixer, and that what a CRTC has can be joined.  Then, while no split or  *)
(* command-mode display makes way for another in one commit ("display"      *)
(* \notin Switches), the routes from CRTC to interface and what the tails   *)
(* switch on and off for them.  After these, what stands in the registers   *)
(* for a display, and that it makes one picture.  Last, that the tables of  *)
(* all fifteen chips can drive what the driver builds from them.            *)
(***************************************************************************)
EXTENDS Mdp5Pipeline, FiniteSetTheorems, TLAPS

(* What is chosen among a few mixers, and the encoders that are built.       *)
MaxMixers == 6

LEMMA SetMaxIn ==
    ASSUME NEW S, S \subseteq 1..MaxMixers, S # {}
    PROVE  SetMax(S) \in S
<1>1. \E x \in S : \A y \in S : y <= x
    <2>1. PICK e \in S : TRUE
        OBVIOUS
    <2>2. CASE 6 \in S
        BY <2>2 DEF MaxMixers
    <2>3. CASE 6 \notin S /\ 5 \in S
        BY <2>3 DEF MaxMixers
    <2>4. CASE 6 \notin S /\ 5 \notin S /\ 4 \in S
        BY <2>4 DEF MaxMixers
    <2>5. CASE 6 \notin S /\ 5 \notin S /\ 4 \notin S /\ 3 \in S
        BY <2>5 DEF MaxMixers
    <2>6. CASE 6 \notin S /\ 5 \notin S /\ 4 \notin S /\ 3 \notin S /\ 2 \in S
        BY <2>6 DEF MaxMixers
    <2>7. CASE 6 \notin S /\ 5 \notin S /\ 4 \notin S /\ 3 \notin S /\ 2 \notin S
        BY <2>1, <2>7 DEF MaxMixers
    <2> QED BY <2>2, <2>3, <2>4, <2>5, <2>6, <2>7
<1> QED BY <1>1 DEF SetMax

LEMMA SetMinIn ==
    ASSUME NEW S, S \subseteq 1..MaxMixers, S # {}
    PROVE  SetMin(S) \in S
<1>1. \E x \in S : \A y \in S : x <= y
    <2>1. PICK e \in S : TRUE
        OBVIOUS
    <2>2. CASE 1 \in S
        BY <2>2 DEF MaxMixers
    <2>3. CASE 1 \notin S /\ 2 \in S
        BY <2>3 DEF MaxMixers
    <2>4. CASE 1 \notin S /\ 2 \notin S /\ 3 \in S
        BY <2>4 DEF MaxMixers
    <2>5. CASE 1 \notin S /\ 2 \notin S /\ 3 \notin S /\ 4 \in S
        BY <2>5 DEF MaxMixers
    <2>6. CASE 1 \notin S /\ 2 \notin S /\ 3 \notin S /\ 4 \notin S /\ 5 \in S
        BY <2>6 DEF MaxMixers
    <2>7. CASE 1 \notin S /\ 2 \notin S /\ 3 \notin S /\ 4 \notin S /\ 5 \notin S
        BY <2>1, <2>7 DEF MaxMixers
    <2> QED BY <2>2, <2>3, <2>4, <2>5, <2>6, <2>7
<1> QED BY <1>1 DEF SetMin

LEMMA SetMinOfTwo ==
    ASSUME NEW a \in Nat, NEW b \in Nat
    PROVE  SetMin({a, b}) \in Nat
<1>1. \E x \in {a, b} : \A y \in {a, b} : x <= y
    <2>1. CASE a <= b
        BY <2>1
    <2>2. CASE b <= a
        BY <2>2
    <2> QED BY <2>1, <2>2
<1> QED BY <1>1 DEF SetMin

IsSeq(s) == \E S : s \in Seq(S)

(* One call adds an encoder, or does not.                                    *)
LEMMA EncoderCases ==
    ASSUME NEW b, NEW h, NEW f, NEW st, NEW num
    PROVE  LET new == modeset_init_intf(b, h, f, st, num)
           IN  \/ new = st \/ new = [st EXCEPT !.ok = FALSE]
               \/ \E e : /\ new.encoders = Append(st.encoders, e)
                         /\ DOMAIN new = {"status", "encoders", "ok"}
<1> DEFINE t == h.hw.connect[num + 1]
           m == mdp5_ctlm_request(st.status, num)
           e == [num |-> num, type |-> t, mode |-> IntfMode(b, t), ctl |-> m]
           None == ~st.ok \/ t \in {"DISABLED", "eDP"}
           Here == Attached(b, h.hw, num)
           Wrong == \/ t = "DSI" /\ get_dsi_id_from_intf(h.hw, num) >= 2
                    \/ Here /\ m = 0
           new == modeset_init_intf(b, h, f, st, num)
<1>1. CASE None \/ (~Wrong /\ ~Here)
    BY <1>1 DEF modeset_init_intf
<1>2. CASE ~(None \/ (~Wrong /\ ~Here)) /\ Wrong
    BY <1>2 DEF modeset_init_intf
<1>3. CASE ~(None \/ (~Wrong /\ ~Here)) /\ ~Wrong
    <2>1. /\ new.encoders = Append(st.encoders, e)
          /\ DOMAIN new = {"status", "encoders", "ok"}
        BY <1>3 DEF modeset_init_intf
    <2> QED BY <2>1
<1> QED BY <1>1, <1>2, <1>3

(* The encoders stay a sequence.                                             *)
LEMMA EncoderStep ==
    ASSUME NEW b, NEW h, NEW f, NEW st, NEW num, IsSeq(st.encoders),
           DOMAIN st = {"status", "encoders", "ok"}
    PROVE  /\ IsSeq(modeset_init_intf(b, h, f, st, num).encoders)
           /\ DOMAIN modeset_init_intf(b, h, f, st, num) = {"status", "encoders", "ok"}
<1> DEFINE new == modeset_init_intf(b, h, f, st, num)
<1> HIDE DEF new
<1>1. CASE new = st
    BY <1>1 DEF new
<1>2. CASE new = [st EXCEPT !.ok = FALSE]
    BY <1>2 DEF new
<1>3. CASE \E e : /\ new.encoders = Append(st.encoders, e)
                  /\ DOMAIN new = {"status", "encoders", "ok"}
    <2>1. PICK e : /\ new.encoders = Append(st.encoders, e)
                   /\ DOMAIN new = {"status", "encoders", "ok"}
        BY <1>3
    <2>2. PICK S : st.encoders \in Seq(S)
        BY DEF IsSeq
    <2>3. Append(st.encoders, e) \in Seq(S \union {e})
        BY <2>2
    <2> QED BY <2>1, <2>3 DEF IsSeq, new
<1> QED BY <1>1, <1>2, <1>3, EncoderCases DEF new

-------------------------------------------------------------------------------

(* What the argument needs of a chip: its mixers are a sequence, and the     *)
(* pairs of lm_right_pair[] can be looked up by their numbers.               *)
ChipShape(chip) ==
    /\ \E n \in 0..MaxMixers : DOMAIN chip.lm = 1..n /\ Len(chip.lm) = n
    /\ \A m \in DOMAIN chip.lm : chip.lm[m].id \in 0..5

(* There are CRTCs only once the driver is up.                               *)
KmsShape ==
    /\ kms.crtcs \in Nat
    /\ kms.phase # "up" => kms.crtcs = 0
    /\ ChipShape(Chip)

StateFields ==
    {"enc", "mode", "mixer", "r_mixer", "intf", "r_intf", "ctl", "r_ctl", "vblank",
     "err", "cmd_mode"}

(* A mixer is of nobody or of one CRTC.                                      *)
OwnerShape ==
    kms.phase = "up" =>
        /\ owner \in [Mixers -> {0} \union Crtcs]
        /\ DOMAIN cs = Crtcs
        /\ \A c \in Crtcs : DOMAIN cs[c] = StateFields

(* The right half of a picture is never its left mixer again.                *)
HalvesApart ==
    \A c \in Crtcs :
        /\ {cs[c].mixer, cs[c].r_mixer} \subseteq {0} \union Mixers
        /\ cs[c].r_mixer # 0 => cs[c].mixer # 0 /\ cs[c].mixer # cs[c].r_mixer

IInv == KmsShape /\ OwnerShape /\ HalvesApart /\ TableAgrees

-------------------------------------------------------------------------------
(* The tables and the encoders.                                              *)

LEMMA TablesShape == \A h \in cfg_handlers : ChipShape(h.hw)
<1>1. \A chip \in {msm8x74v1, msm8x26, msm8x74v2, apq8084, msm8x16, msm8x36, msm8x94,
                   msm8x96, msm8x76, msm8937, msm8917, msm8x53, msm8998, sdm660, sdm630} :
        ChipShape(chip)
    <2>1. ChipShape(msm8x74v1) /\ ChipShape(msm8x74v2)
        BY DEF ChipShape, MaxMixers, msm8x74v1, msm8x74v2, LM
    <2>2. ChipShape(msm8x26) /\ ChipShape(msm8x36) /\ ChipShape(msm8x76) /\ ChipShape(msm8917)
        BY DEF ChipShape, MaxMixers, msm8x26, msm8x36, msm8x76, msm8917, LM
    <2>3. ChipShape(apq8084)
        BY DEF ChipShape, MaxMixers, apq8084, LM
    <2>4. ChipShape(msm8x94)
        BY DEF ChipShape, MaxMixers, msm8x94, LM
    <2>5. ChipShape(msm8x96)
        BY DEF ChipShape, MaxMixers, msm8x96, LM
    <2>6. ChipShape(msm8998)
        BY DEF ChipShape, MaxMixers, msm8998, LM
    <2>7. ChipShape(sdm660)
        BY DEF ChipShape, MaxMixers, sdm660, LM
    <2>8. ChipShape(msm8x16) /\ ChipShape(msm8x53) /\ ChipShape(msm8937) /\ ChipShape(sdm630)
        BY DEF ChipShape, MaxMixers, msm8x16, msm8x53, msm8937, sdm630, LM
    <2> QED BY <2>1, <2>2, <2>3, <2>4, <2>5, <2>6, <2>7, <2>8
<1>2. \A h \in cfg_handlers :
        h.hw \in {msm8x74v1, msm8x26, msm8x74v2, apq8084, msm8x16, msm8x36, msm8x94,
                  msm8x96, msm8x76, msm8937, msm8917, msm8x53, msm8998, sdm660, sdm630}
    BY DEF cfg_handlers, cfg_handlers_v1, cfg_handlers_v3, Handler
<1> QED BY <1>1, <1>2

(* However many encoders the interfaces give, they are counted.              *)
LEMMA EncodersCounted ==
    ASSUME NEW b, NEW h, NEW f
    PROVE  Len(modeset_init_intfs(b, h, f).encoders) \in Nat
<1> DEFINE Call(st, num) == modeset_init_intf(b, h, f, st, num)
           none == [status |-> CtlStatus(h), encoders |-> <<>>, ok |-> TRUE]
           Good(st) == IsSeq(st.encoders) /\ DOMAIN st = {"status", "encoders", "ok"}
<1>2. \A st, num : Good(st) => Good(Call(st, num))
    BY EncoderStep
<1>3. Good(none)
    <2>1. <<>> \in Seq({})
        OBVIOUS
    <2> QED BY <2>1 DEF IsSeq
<1>4. modeset_init_intfs(b, h, f) = Call(Call(Call(Call(Call(none, 0), 1), 2), 3), 4)
    BY DEF modeset_init_intfs, ForEachIntf
<1> HIDE DEF Call, none, Good
<1>5. Good(modeset_init_intfs(b, h, f))
    BY <1>2, <1>3, <1>4
<1> QED BY <1>5 DEF Good, IsSeq

-------------------------------------------------------------------------------
(* Assignment.                                                               *)

Known == ChipShape(Chip) /\ owner \in [Mixers -> {0} \union Crtcs] /\ 0 \notin Crtcs

LEMMA MixersFew ==
    ASSUME ChipShape(Chip)
    PROVE  Mixers \subseteq 1..MaxMixers /\ 0 \notin Mixers
    BY DEF ChipShape, Mixers, MaxMixers

(* The hardware can join mixer i to mixer m as its right half.               *)
Joins(m, i) == Chip.lm[i].id = lm_right_pair[Chip.lm[m].id + 1]

(* A right half that is found is a mixer of its own.                         *)
LEMMA RightPair ==
    ASSUME ChipShape(Chip), NEW m \in Mixers, get_right_pair_idx(m) # 0
    PROVE  /\ get_right_pair_idx(m) \in Mixers \ {m}
           /\ Joins(m, get_right_pair_idx(m))
<1> DEFINE pair_lm == lm_right_pair[Chip.lm[m].id + 1]
           Found == {i \in Mixers : Chip.lm[i].id = pair_lm}
<1>1. Found # {} /\ get_right_pair_idx(m) = SetMin(Found)
    BY DEF get_right_pair_idx
<1>2. SetMin(Found) \in Found
    BY <1>1, MixersFew, SetMinIn
<1>3. Chip.lm[m].id \in 0..5
    BY DEF ChipShape, Mixers
<1>4. pair_lm # Chip.lm[m].id
    BY <1>3 DEF lm_right_pair
<1> QED BY <1>1, <1>2, <1>4 DEF Joins

(* A result a gives CRTC c a mixer and, if it needs one, another that joins  *)
(* it; they were free, or the left one its own, and are entered.             *)
Gives(a, c, mixer, need) ==
    /\ a.mixer \in Mixers
    /\ \/ a.mixer = mixer
       \/ owner[a.mixer] \in {0, c} /\ "DISPLAY" \in Chip.lm[a.mixer].caps
    /\ need => /\ a.r_mixer \in Mixers \ {a.mixer} /\ owner[a.r_mixer] = 0
               /\ Joins(a.mixer, a.r_mixer)
    /\ ~need => a.r_mixer = 0
    /\ a.owner \in [Mixers -> {0} \union Crtcs]
    /\ \A m \in Mixers :
         a.owner[m] = IF m \in {a.mixer, a.r_mixer} THEN c ELSE owner[m]

(* mdp5_mixer_assign() does so if it succeeds.                               *)
LEMMA AssignGives ==
    ASSUME Known, NEW c \in Crtcs, NEW mixer \in {0} \union Mixers, NEW need \in BOOLEAN,
           mdp5_mixer_assign(c, mixer, need).ok
    PROVE  Gives(mdp5_mixer_assign(c, mixer, need), c, mixer, need)
<1> DEFINE Reach == InReach(c, IF need THEN Paired ELSE Display)
           Free == {m \in Reach : need => owner[get_right_pair_idx(m)] = 0}
           Pairable == {m \in Free : "PAIR" \in Chip.lm[m].caps}
           left == CASE Pairable # {} -> SetMax(Pairable)
                     [] Pairable = {} /\ mixer # 0 -> mixer
                     [] Pairable = {} /\ mixer = 0 /\ Free # {} -> SetMin(Free)
                     [] OTHER -> 0
           right == IF need /\ Free # {} THEN get_right_pair_idx(SetMax(Free)) ELSE 0
           a == mdp5_mixer_assign(c, mixer, need)
<1>1. /\ ~(need /\ \E m \in Reach : get_right_pair_idx(m) = 0)
      /\ left # 0 /\ ~(need /\ right = 0)
      /\ a = [ok |-> TRUE, mixer |-> left, r_mixer |-> right,
              owner |-> [m \in Mixers |-> IF m \in {left, right} THEN c ELSE owner[m]]]
    BY DEF mdp5_mixer_assign
<1>2. /\ Free \subseteq Mixers /\ Pairable \subseteq Free
      /\ \A m \in Free : owner[m] \in {0, c} /\ "DISPLAY" \in Chip.lm[m].caps
    BY DEF InReach, Paired, Display
<1>3. Free \subseteq 1..MaxMixers /\ Pairable \subseteq 1..MaxMixers
    BY <1>2, MixersFew DEF Known
<1>4. /\ Free # {} => SetMax(Free) \in Free /\ SetMin(Free) \in Free
      /\ Pairable # {} => SetMax(Pairable) \in Pairable
    BY <1>3, SetMaxIn, SetMinIn
<1>5. need => Pairable = Free
    BY DEF InReach, Paired
<1> HIDE DEF Reach, Free, Pairable
<1>6. /\ left \in Mixers
      /\ left = mixer \/ (owner[left] \in {0, c} /\ "DISPLAY" \in Chip.lm[left].caps)
    BY <1>1, <1>2, <1>4, MixersFew DEF Known
<1>7. ASSUME need
      PROVE  right \in Mixers \ {left} /\ owner[right] = 0 /\ Joins(left, right)
    <2>1. Free # {} /\ left = SetMax(Free) /\ right = get_right_pair_idx(left)
        BY <1>1, <1>5, <1>7
    <2>2. left \in Free
        BY <1>4, <2>1
    <2>3. owner[get_right_pair_idx(left)] = 0
        BY <1>7, <2>2 DEF Free
    <2>4. get_right_pair_idx(left) \in Mixers \ {left} /\ Joins(left, get_right_pair_idx(left))
        BY <1>1, <1>2, <1>7, <2>1, <2>2, RightPair DEF Known
    <2> QED BY <2>1, <2>3, <2>4
<1>8. ~need => right = 0
    OBVIOUS
<1> HIDE DEF left, right
<1>9. a.owner \in [Mixers -> {0} \union Crtcs]
    <2>1. owner \in [Mixers -> {0} \union Crtcs]
        BY DEF Known
    <2> QED BY <1>1, <2>1
<1> QED BY <1>1, <1>6, <1>7, <1>8, <1>9 DEF Gives

-------------------------------------------------------------------------------
(* The check of a commit.                                                    *)

(* The check leaves the mixers of a state alone but where it assigns.        *)
SameMixers(s, t) ==
    /\ DOMAIN s = StateFields /\ DOMAIN t = StateFields
    /\ s.mixer = t.mixer /\ s.r_mixer = t.r_mixer

LEMMA MasksKeeps ==
    ASSUME NEW s, DOMAIN s = StateFields
    PROVE  SameMixers(Masks(s), s)
    BY DEF Masks, SameMixers, StateFields

LEMMA EncoderCheckKeeps ==
    ASSUME NEW s, DOMAIN s = StateFields, NEW e
    PROVE  SameMixers(EncoderCheck(s, e).state, s)
<1> DEFINE v == IF mdp5_encoder_is_split_master(e) THEN mdp5_encoder_find_intf(2) ELSE 0
           r == IF v = 0 THEN 0 ELSE kms.encoders[v].ctl
           t == kms.encoders[e].ctl
<1>1. EncoderCheck(s, e).state = [s EXCEPT !.ctl = t, !.intf = e, !.r_intf = v, !.r_ctl = r]
    BY DEF EncoderCheck
<1> HIDE DEF v, r, t
<1> QED BY <1>1 DEF SameMixers, StateFields

(* New mixers are assigned before the old ones are given back.               *)
Reassigned(new, c, s, need) ==
    LET a == mdp5_mixer_assign(c, s.mixer, need)
    IN  /\ s.mixer = 0 \/ need # (s.r_mixer # 0)
        /\ a.ok
        /\ new.owner = mdp5_mixer_release(a.owner, OldMixers(s)).owner
        /\ new.state.mixer = a.mixer /\ new.state.r_mixer = a.r_mixer
        /\ DOMAIN new.state = StateFields

LEMMA SetupResult ==
    ASSUME NEW c, NEW s, DOMAIN s = StateFields, NEW need \in BOOLEAN,
           mdp5_crtc_setup_pipeline(c, s, need).ok
    PROVE  LET new == mdp5_crtc_setup_pipeline(c, s, need)
           IN  \/ new.owner = owner /\ SameMixers(new.state, s)
               \/ Reassigned(new, c, s, need)
<1> DEFINE new == mdp5_crtc_setup_pipeline(c, s, need)
           a == mdp5_mixer_assign(c, s.mixer, need)
           rel == mdp5_mixer_release(a.owner, OldMixers(s))
           New == s.mixer = 0 \/ need # (s.r_mixer # 0)
           t == [s EXCEPT !.mixer = a.mixer, !.r_mixer = a.r_mixer]
<1>1. CASE ~New
    <2>1. new = [ok |-> TRUE, owner |-> owner, state |-> Masks(s)]
        BY <1>1 DEF mdp5_crtc_setup_pipeline
    <2> QED BY <2>1, MasksKeeps
<1>2. CASE New
    <2>1. a.ok /\ new.owner = rel.owner /\ new.state = Masks(t)
        BY <1>2 DEF mdp5_crtc_setup_pipeline
    <2>2. DOMAIN t = StateFields /\ t.mixer = a.mixer /\ t.r_mixer = a.r_mixer
        BY DEF StateFields
    <2>3. SameMixers(Masks(t), t)
        <3> HIDE DEF t
        <3> QED BY <2>2, MasksKeeps
    <2> HIDE DEF t, new
    <2>4. Reassigned(new, c, s, need)
        BY <1>2, <2>1, <2>2, <2>3 DEF Reassigned, SameMixers
    <2> QED BY <2>4 DEF new
<1> QED BY <1>1, <1>2

LEMMA CheckResult ==
    ASSUME NEW c, DOMAIN cs[c] = StateFields, NEW r, AtomicCheck(c, r).ok
    PROVE  LET new == AtomicCheck(c, r)
           IN  \/ new.owner = owner /\ SameMixers(new.state, cs[c])
               \/ \E s, need : /\ SameMixers(s, cs[c]) /\ need \in BOOLEAN
                               /\ Reassigned(new, c, s, need)
<1> DEFINE new == AtomicCheck(c, r)
           asked == [cs[c] EXCEPT !.enc = r.enc, !.mode = r.mode]
           encoder == IF Modeset(c, r) THEN EncoderCheck(asked, r.enc)
                      ELSE [ok |-> TRUE, state |-> asked]
           s == encoder.state
           need == need_right_mixer(s, r)
           crtc == mdp5_crtc_setup_pipeline(c, s, need)
<1>1. SameMixers(asked, cs[c])
    BY DEF SameMixers, StateFields
<1>2. SameMixers(s, cs[c])
    <2>1. DOMAIN asked = StateFields
        BY <1>1 DEF SameMixers
    <2> HIDE DEF asked
    <2>2. SameMixers(s, asked)
        BY <2>1, EncoderCheckKeeps DEF SameMixers
    <2> QED BY <1>1, <2>2 DEF SameMixers
<1>3. need \in BOOLEAN
    BY DEF need_right_mixer
<1>4. CASE r.enc = 0
    <2>1. new = [ok |-> TRUE, owner |-> owner, state |-> asked]
        BY <1>4 DEF AtomicCheck
    <2> QED BY <1>1, <2>1
<1>5. CASE r.enc # 0
    <2>1. crtc.ok /\ new = crtc
        BY <1>5 DEF AtomicCheck
    <2>2. DOMAIN s = StateFields
        BY <1>2 DEF SameMixers
    <2> HIDE DEF s, need, new
    <2>3. \/ crtc.owner = owner /\ SameMixers(crtc.state, s)
          \/ Reassigned(crtc, c, s, need)
        BY <1>3, <2>1, <2>2, SetupResult
    <2>4. \/ new.owner = owner /\ SameMixers(new.state, cs[c])
          \/ Reassigned(new, c, s, need)
        BY <1>2, <2>1, <2>3 DEF SameMixers
    <2> QED BY <1>2, <1>3, <2>4 DEF new
<1> QED BY <1>4, <1>5

-------------------------------------------------------------------------------
(* Before the driver is up there is no CRTC.                                 *)
LEMMA NoCrtcs ==
    ASSUME kms = NoKms("none") \/ kms = NoKms("failed")
    PROVE  IInv
<1>1. kms.crtcs = 0 /\ kms.phase # "up" /\ Chip = [lm |-> <<>>]
    BY DEF NoKms, Chip
<1>2. ChipShape([lm |-> <<>>])
    BY DEF ChipShape, MaxMixers
<1>3. Crtcs = {}
    BY <1>1 DEF Crtcs
<1> QED BY <1>1, <1>2, <1>3 DEF IInv, KmsShape, OwnerShape, HalvesApart, TableAgrees

(* mdp5_kms_init() and modeset_init() start with every mixer free.           *)
LEMMA KmsInitStep == ASSUME KmsInit PROVE IInv'
<1>1. PICK h \in mdp5_cfg_init(board.major, board.minor) :
        LET ms == modeset_init_intfs(board, h, FALSE)
            up == modeset_init(h, ms)
        IN  /\ kms' = up
            /\ owner' = [m \in DOMAIN h.hw.lm |-> 0]
            /\ cs' = [c \in 1..up.crtcs |-> OffState]
    BY DEF KmsInit
<1> DEFINE ms == modeset_init_intfs(board, h, FALSE)
           n == SetMin({Len(ms.encoders), Len(h.hw.lm)})
<1>2. h \in cfg_handlers
    BY DEF mdp5_cfg_init
<1>3. ChipShape(h.hw)
    BY <1>2, TablesShape
<1>4. n \in Nat
    <2>1. Len(h.hw.lm) \in Nat
        BY <1>3 DEF ChipShape, MaxMixers
    <2> QED BY <2>1, EncodersCounted, SetMinOfTwo
<1> HIDE DEF n
<1>5. /\ kms'.phase = "up" /\ kms'.hw = h.hw /\ kms'.crtcs = n
      /\ owner' = [m \in DOMAIN h.hw.lm |-> 0]
      /\ cs' = [c \in 1..n |-> OffState]
    BY <1>1 DEF modeset_init, n
<1>6. /\ OffState.mixer = 0 /\ OffState.r_mixer = 0 /\ DOMAIN OffState = StateFields
    BY DEF OffState, StateFields
<1>7. Chip' = h.hw /\ Crtcs' = 1..n /\ Mixers' = DOMAIN h.hw.lm
    BY <1>5 DEF Chip, Crtcs, Mixers
<1>8. KmsShape'
    BY <1>3, <1>4, <1>5, <1>7 DEF KmsShape
<1>9. \A c \in 1..n : cs'[c] = OffState
    BY <1>5
<1>10. OwnerShape'
    BY <1>5, <1>6, <1>7, <1>9 DEF OwnerShape
<1>11. HalvesApart'
    BY <1>6, <1>7, <1>9 DEF HalvesApart
<1>12. TableAgrees'
    <2>1. \A c \in 1..n : MixersOf(cs'[c]) = {}
        BY <1>6, <1>9 DEF MixersOf
    <2>2. \A c \in 1..n : {m \in DOMAIN h.hw.lm : owner'[m] = c} = {}
        BY <1>4, <1>5
    <2> QED BY <1>7, <2>1, <2>2 DEF TableAgrees, MixersOf
<1> QED BY <1>8, <1>10, <1>11, <1>12 DEF IInv

(* A commit without a change of the number of mixers in use: what it assigns *)
(* was free, and what it gives back it did not have.                         *)
LEMMA Reassign ==
    ASSUME IInv, kms.phase = "up", NEW c \in Crtcs, NEW new, NEW s, NEW need \in BOOLEAN,
           SameMixers(s, cs[c]), Reassigned(new, c, s, need),
           MixersOf(cs[c]) \in {{}, MixersOf(new.state)}
    PROVE  /\ cs[c].mixer = 0
           /\ new.owner \in [Mixers -> {0} \union Crtcs]
           /\ DOMAIN new.state = StateFields
           /\ {new.state.mixer, new.state.r_mixer} \subseteq {0} \union Mixers
           /\ new.state.r_mixer # 0 => /\ new.state.mixer # 0
                                      /\ new.state.mixer # new.state.r_mixer
           /\ MixersOf(new.state) = {m \in Mixers : new.owner[m] = c}
           /\ \A d \in Crtcs \ {c} :
                {m \in Mixers : new.owner[m] = d} = {m \in Mixers : owner[m] = d}
<1> DEFINE a == mdp5_mixer_assign(c, s.mixer, need)
<1>1. /\ owner \in [Mixers -> {0} \union Crtcs]
      /\ Crtcs \subseteq Nat \ {0} /\ 0 \notin Mixers
      /\ MixersOf(cs[c]) = {m \in Mixers : owner[m] = c}
      /\ s.mixer \in {0} \union Mixers /\ s.r_mixer \in {0} \union Mixers
      /\ s.r_mixer # 0 => s.mixer # 0 /\ s.mixer # s.r_mixer
    <2>1. owner \in [Mixers -> {0} \union Crtcs] /\ 0 \notin Mixers
        BY MixersFew DEF IInv, KmsShape, OwnerShape
    <2>2. Crtcs \subseteq Nat \ {0}
        BY DEF IInv, KmsShape, Crtcs
    <2>3. MixersOf(cs[c]) = {m \in Mixers : owner[m] = c}
        BY DEF IInv, TableAgrees
    <2>4. /\ s.mixer \in {0} \union Mixers /\ s.r_mixer \in {0} \union Mixers
          /\ s.r_mixer # 0 => s.mixer # 0 /\ s.mixer # s.r_mixer
        BY DEF IInv, HalvesApart, SameMixers
    <2> QED BY <2>1, <2>2, <2>3, <2>4
<1>2. a.ok /\ Known
    BY <1>1 DEF Reassigned, Known, IInv, KmsShape
<1>3. Gives(a, c, s.mixer, need)
    <2>1. s.mixer \in {0} \union Mixers /\ mdp5_mixer_assign(c, s.mixer, need).ok
        BY <1>1, <1>2
    <2> QED BY <1>2, <2>1, AssignGives
<1> HIDE DEF a
<1>4. /\ s.mixer = 0 \/ need # (s.r_mixer # 0)
      /\ new.owner = [m \in DOMAIN a.owner |-> IF m \in {s.mixer, s.r_mixer} THEN 0
                                               ELSE a.owner[m]]
      /\ new.state.mixer = a.mixer /\ new.state.r_mixer = a.r_mixer
      /\ DOMAIN new.state = StateFields
    BY DEF Reassigned, mdp5_mixer_release, OldMixers, a
<1>5. MixersOf(new.state) = {a.mixer, a.r_mixer} \ {0}
    BY <1>4 DEF MixersOf
<1>6. MixersOf(cs[c]) = {s.mixer, s.r_mixer} \ {0}
    BY DEF SameMixers, MixersOf
(* Had it mixers, their number would have changed, and the set with it.      *)
<1>7. s.mixer = 0 /\ s.r_mixer = 0
    <2> SUFFICES ASSUME s.mixer # 0 PROVE FALSE
        BY <1>1
    <2>1. s.mixer \in MixersOf(cs[c]) /\ MixersOf(cs[c]) = MixersOf(new.state)
        BY <1>6
    <2>2. CASE need
        <3>1. s.r_mixer = 0
            BY <1>4, <2>2
        <3>2. a.r_mixer \in MixersOf(cs[c])
            BY <1>1, <1>3, <1>5, <2>1, <2>2 DEF Gives
        <3>3. owner[a.r_mixer] = c
            BY <1>1, <3>2
        <3> QED BY <1>1, <1>3, <2>2, <3>3 DEF Gives
    <2>3. CASE ~need
        <3>1. s.r_mixer # 0
            BY <1>4, <2>3
        <3>2. a.r_mixer = 0
            BY <1>3, <2>3 DEF Gives
        <3>3. MixersOf(new.state) \subseteq {a.mixer}
            BY <1>5, <3>2
        <3> QED BY <1>1, <1>6, <2>1, <3>1, <3>3
    <2> QED BY <2>2, <2>3
<1>8. {m \in Mixers : owner[m] = c} = {}
    BY <1>1, <1>6, <1>7
<1>9. owner[a.mixer] = 0
    BY <1>1, <1>3, <1>7, <1>8 DEF Gives
<1>10. new.owner = [m \in Mixers |-> IF m \in {a.mixer, a.r_mixer} THEN c ELSE owner[m]]
    BY <1>1, <1>3, <1>4, <1>7 DEF Gives
<1>11. new.owner \in [Mixers -> {0} \union Crtcs]
    BY <1>1, <1>10
<1>12. MixersOf(new.state) = {m \in Mixers : new.owner[m] = c}
    BY <1>1, <1>3, <1>5, <1>8, <1>10 DEF Gives
<1>13. \A d \in Crtcs \ {c} :
         {m \in Mixers : new.owner[m] = d} = {m \in Mixers : owner[m] = d}
    BY <1>1, <1>3, <1>9, <1>10 DEF Gives
<1>14. cs[c].mixer = 0
    BY <1>7 DEF SameMixers
<1> QED BY <1>1, <1>3, <1>4, <1>11, <1>12, <1>13, <1>14 DEF Gives

LEMMA CommitStep ==
    ASSUME IInv, "mixers" \notin Switches, NEW c \in Crtcs, Commit(c)
    PROVE  IInv'
<1>1. PICK r \in Requests(c) :
        /\ AtomicCheck(c, r).ok
        /\ Regular(c, r, AtomicCheck(c, r).state)
        /\ cs' = [cs EXCEPT ![c] = AtomicCheck(c, r).state]
        /\ owner' = AtomicCheck(c, r).owner
    BY DEF Commit
<1> DEFINE new == AtomicCheck(c, r)
<1>2. kms.phase = "up" /\ kms' = kms
    BY DEF Commit, IInv, KmsShape, Crtcs
<1>3. /\ owner \in [Mixers -> {0} \union Crtcs] /\ DOMAIN cs = Crtcs
      /\ \A d \in Crtcs : DOMAIN cs[d] = StateFields
    BY <1>2 DEF IInv, OwnerShape
<1>4. MixersOf(cs[c]) \in {{}, MixersOf(new.state)}
    BY <1>1 DEF Regular
<1>5. /\ new.owner \in [Mixers -> {0} \union Crtcs]
      /\ DOMAIN new.state = StateFields
      /\ {new.state.mixer, new.state.r_mixer} \subseteq {0} \union Mixers
      /\ new.state.r_mixer # 0 => /\ new.state.mixer # 0
                                 /\ new.state.mixer # new.state.r_mixer
      /\ MixersOf(new.state) = {m \in Mixers : new.owner[m] = c}
      /\ \A d \in Crtcs \ {c} :
           {m \in Mixers : new.owner[m] = d} = {m \in Mixers : owner[m] = d}
    <2>1. \/ new.owner = owner /\ SameMixers(new.state, cs[c])
          \/ \E s, need : /\ SameMixers(s, cs[c]) /\ need \in BOOLEAN
                          /\ Reassigned(new, c, s, need)
        BY <1>1, <1>3, CheckResult
    <2> HIDE DEF new
    <2>2. CASE new.owner = owner /\ SameMixers(new.state, cs[c])
        BY <1>3, <2>2 DEF SameMixers, IInv, HalvesApart, TableAgrees, MixersOf
    <2>3. CASE \E s, need : /\ SameMixers(s, cs[c]) /\ need \in BOOLEAN
                            /\ Reassigned(new, c, s, need)
        BY <1>2, <1>4, <2>3, Reassign
    <2> QED BY <2>1, <2>2, <2>3
<1>6. cs' = [cs EXCEPT ![c] = new.state] /\ owner' = new.owner
    BY <1>1
<1>7. Chip' = Chip /\ Crtcs' = Crtcs /\ Mixers' = Mixers
    BY <1>2 DEF Chip, Crtcs, Mixers
<1> HIDE DEF new
<1>8. /\ DOMAIN cs' = Crtcs /\ cs'[c] = new.state
      /\ \A d \in Crtcs \ {c} : cs'[d] = cs[d]
    BY <1>3, <1>6
<1>9. KmsShape'
    BY <1>2, <1>7 DEF IInv, KmsShape
<1>10. OwnerShape'
    BY <1>3, <1>5, <1>6, <1>7, <1>8 DEF OwnerShape
<1>11. HalvesApart'
    BY <1>5, <1>7, <1>8 DEF IInv, HalvesApart
<1>12. TableAgrees'
    BY <1>5, <1>6, <1>7, <1>8 DEF IInv, TableAgrees, MixersOf
<1> QED BY <1>9, <1>10, <1>11, <1>12 DEF IInv

(* What a CRTC has it keeps.                                                 *)
LEMMA CommitMixers ==
    ASSUME IInv, "mixers" \notin Switches, NEW c \in Crtcs, Commit(c)
    PROVE  cs[c].mixer # 0 => SameMixers(cs'[c], cs[c])
<1>1. PICK r \in Requests(c) :
        /\ AtomicCheck(c, r).ok
        /\ Regular(c, r, AtomicCheck(c, r).state)
        /\ cs' = [cs EXCEPT ![c] = AtomicCheck(c, r).state]
    BY DEF Commit
<1> DEFINE new == AtomicCheck(c, r)
<1>2. kms.phase = "up"
    BY DEF Commit, IInv, KmsShape, Crtcs
<1>3. DOMAIN cs = Crtcs /\ DOMAIN cs[c] = StateFields
    BY <1>2 DEF IInv, OwnerShape
<1>4. MixersOf(cs[c]) \in {{}, MixersOf(new.state)}
    BY <1>1 DEF Regular
<1>5. \/ new.owner = owner /\ SameMixers(new.state, cs[c])
      \/ \E s, need : /\ SameMixers(s, cs[c]) /\ need \in BOOLEAN
                      /\ Reassigned(new, c, s, need)
    BY <1>1, <1>3, CheckResult
<1>6. cs'[c] = new.state
    BY <1>1, <1>3
<1> HIDE DEF new
<1> QED BY <1>2, <1>4, <1>5, <1>6, Reassign

LEMMA QuietStep ==
    ASSUME IInv, UNCHANGED <<kms, owner, cs>>
    PROVE  IInv'
    BY DEF IInv, KmsShape, OwnerShape, HalvesApart, TableAgrees, MixersOf, Chip, Crtcs, Mixers

LEMMA NextInv ==
    ASSUME IInv, "mixers" \notin Switches, [Next]_vars
    PROVE  IInv'
<1>1. CASE KmsInit
    BY <1>1, KmsInitStep
<1>2. CASE KmsInitFails
    <2>1. kms' = NoKms("failed")
        BY <1>2 DEF KmsInitFails
    <2>2. kms'.crtcs = 0 /\ kms'.phase # "up" /\ Chip' = [lm |-> <<>>]
        BY <2>1 DEF NoKms, Chip
    <2>3. ChipShape([lm |-> <<>>])
        BY DEF ChipShape, MaxMixers
    <2>4. Crtcs' = {}
        BY <2>2 DEF Crtcs
    <2> QED BY <2>2, <2>3, <2>4 DEF IInv, KmsShape, OwnerShape, HalvesApart, TableAgrees
<1>3. CASE \E c \in Crtcs : Commit(c)
    BY <1>3, CommitStep
<1>4. CASE \E c \in Crtcs : Disable(c) \/ Enable(c)
    BY <1>4, QuietStep DEF Disable, Enable
<1>5. CASE UNCHANGED vars
    BY <1>5, QuietStep DEF vars
<1> QED BY <1>1, <1>2, <1>3, <1>4, <1>5 DEF Next

(* What a check assigns was free or the CRTC's own, and what it gives back   *)
(* was its own.                                                              *)
LEMMA ReleaseLeaves ==
    ASSUME IInv, kms.phase = "up", NEW c \in Crtcs, NEW new, NEW s, NEW need \in BOOLEAN,
           SameMixers(s, cs[c]), Reassigned(new, c, s, need)
    PROVE  /\ {m \in Mixers : new.owner[m] = c} \subseteq MixersOf(new.state)
           /\ \A d \in Crtcs \ {c} :
                {m \in Mixers : new.owner[m] = d} = {m \in Mixers : owner[m] = d}
<1> DEFINE a == mdp5_mixer_assign(c, s.mixer, need)
           Old == {s.mixer, s.r_mixer}
<1>1. /\ Crtcs \subseteq Nat \ {0} /\ 0 \notin Mixers
      /\ Old \ {0} = {m \in Mixers : owner[m] = c}
      /\ s.mixer \in {0} \union Mixers
    <2>1. 0 \notin Mixers
        BY MixersFew DEF IInv, KmsShape
    <2>2. Crtcs \subseteq Nat \ {0}
        BY DEF IInv, KmsShape, Crtcs
    <2>3. Old \ {0} = {m \in Mixers : owner[m] = c}
        BY DEF IInv, TableAgrees, SameMixers, MixersOf
    <2>4. s.mixer \in {0} \union Mixers
        BY DEF IInv, HalvesApart, SameMixers
    <2> QED BY <2>1, <2>2, <2>3, <2>4
<1>2. owner \in [Mixers -> {0} \union Crtcs]
    BY DEF IInv, OwnerShape
<1>3. a.ok /\ Known
    BY <1>1, <1>2 DEF Reassigned, Known, IInv, KmsShape
<1>4. Gives(a, c, s.mixer, need)
    <2>1. mdp5_mixer_assign(c, s.mixer, need).ok
        BY <1>3
    <2> QED BY <1>1, <1>3, <2>1, AssignGives
<1> HIDE DEF a
<1>5. /\ new.owner = [m \in DOMAIN a.owner |-> IF m \in Old THEN 0 ELSE a.owner[m]]
      /\ MixersOf(new.state) = {a.mixer, a.r_mixer} \ {0}
    BY DEF Reassigned, mdp5_mixer_release, OldMixers, MixersOf, a
<1>6. \A m \in Mixers :
        new.owner[m] = IF m \in Old THEN 0
                       ELSE IF m \in {a.mixer, a.r_mixer} THEN c ELSE owner[m]
    BY <1>4, <1>5 DEF Gives
<1>7. \A m \in Mixers : m \in {a.mixer, a.r_mixer} => owner[m] \in {0, c}
    <2>1. owner[a.mixer] \in {0, c}
        BY <1>1, <1>4 DEF Gives
    <2>2. a.r_mixer \in Mixers => owner[a.r_mixer] = 0
        BY <1>1, <1>4 DEF Gives
    <2> QED BY <2>1, <2>2
<1>8. \A m \in Mixers : m \in Old <=> owner[m] = c
    BY <1>1
<1> HIDE DEF Old
<1>9. ASSUME NEW m \in Mixers, new.owner[m] = c
      PROVE  m \in MixersOf(new.state)
    BY <1>1, <1>5, <1>6, <1>8, <1>9
<1>10. ASSUME NEW d \in Crtcs \ {c}, NEW m \in Mixers
       PROVE  new.owner[m] = d <=> owner[m] = d
    BY <1>1, <1>6, <1>7, <1>8, <1>10
<1> QED BY <1>9, <1>10

LEMMA ReleaseIsComplete == IInv => ReleaseComplete
<1> SUFFICES ASSUME IInv, NEW c \in Crtcs, NEW r \in Requests(c), AtomicCheck(c, r).ok
             PROVE  /\ {m \in Mixers : AtomicCheck(c, r).owner[m] = c}
                           \subseteq MixersOf(AtomicCheck(c, r).state)
                    /\ \A d \in Crtcs \ {c} :
                         {m \in Mixers : AtomicCheck(c, r).owner[m] = d}
                             = {m \in Mixers : owner[m] = d}
    BY DEF ReleaseComplete
<1> DEFINE new == AtomicCheck(c, r)
<1>1. kms.phase = "up"
    BY DEF IInv, KmsShape, Crtcs
<1>2. DOMAIN cs[c] = StateFields
    BY <1>1 DEF IInv, OwnerShape
<1>3. \/ new.owner = owner /\ SameMixers(new.state, cs[c])
      \/ \E s, need : /\ SameMixers(s, cs[c]) /\ need \in BOOLEAN
                      /\ Reassigned(new, c, s, need)
    BY <1>2, CheckResult
<1> SUFFICES /\ {m \in Mixers : new.owner[m] = c} \subseteq MixersOf(new.state)
             /\ \A d \in Crtcs \ {c} :
                  {m \in Mixers : new.owner[m] = d} = {m \in Mixers : owner[m] = d}
    OBVIOUS
<1> HIDE DEF new
<1>4. CASE new.owner = owner /\ SameMixers(new.state, cs[c])
    BY <1>4 DEF IInv, TableAgrees, SameMixers, MixersOf
<1>5. CASE \E s, need : /\ SameMixers(s, cs[c]) /\ need \in BOOLEAN
                        /\ Reassigned(new, c, s, need)
    BY <1>1, <1>5, ReleaseLeaves
<1> QED BY <1>3, <1>4, <1>5

(* While no CRTC goes from one mixer to two or back, every commit keeps the  *)
(* shared table and the CRTCs' states in agreement (mdp5_mixer_assign(),     *)
(* mdp5_crtc_setup_pipeline()); and the next check, also one that goes from  *)
(* one mixer to two or back, would leave the CRTC with no mixer it does not  *)
(* use, and the others with theirs (mdp5_mixer_release()).                   *)
THEOREM MixersAgree ==
    ASSUME "mixers" \notin Switches
    PROVE  Spec => []MixersOwned
<1>1. Init => IInv
    BY NoCrtcs DEF Init
<1>2. IInv /\ [Next]_vars => IInv'
    BY NextInv
<1>3. IInv => MixersOwned
    BY ReleaseIsComplete DEF IInv, MixersOwned
<1> QED BY <1>1, <1>2, <1>3, PTL DEF Spec

(* Then no layer mixer composes for two CRTCs.                               *)
THEOREM MixersNotShared ==
    ASSUME "mixers" \notin Switches
    PROVE  Spec => []NoSharedMixer
<1>1. Init => IInv
    BY NoCrtcs DEF Init
<1>2. IInv /\ [Next]_vars => IInv'
    BY NextInv
<1>3. IInv => NoSharedMixer
    BY DEF IInv, TableAgrees, NoSharedMixer
<1> QED BY <1>1, <1>2, <1>3, PTL DEF Spec

-------------------------------------------------------------------------------
(* The encoders a board gets, and the pipelines they are part of.            *)

(* What the argument about routes needs of a chip: only interfaces 1 and 2   *)
(* can be DSI ones, and the second only with the first.                      *)
ChipWires(chip) ==
    /\ chip.ctl \in 1..MaxMixers /\ chip.pp \in Nat
    /\ \A i \in 1..5 : chip.connect[i] = "DSI" => i \in {2, 3}
    /\ chip.connect[3] \in {"DSI", "DISABLED"}
    /\ chip.connect[3] = "DSI" => chip.connect[2] = "DSI"

FrontMixers(chip) == {m \in DOMAIN chip.lm : "DISPLAY" \in chip.lm[m].caps}

(* Every mixer of a display has a ping-pong block of its own.                *)
PingPongs(chip) ==
    /\ \A m \in FrontMixers(chip) : chip.lm[m].pp \in 0..(chip.pp - 1)
    /\ \A m, n \in FrontMixers(chip) : m # n => chip.lm[m].pp # chip.lm[n].pp

Tables ==
    {msm8x74v1, msm8x26, msm8x74v2, apq8084, msm8x16, msm8x36, msm8x94, msm8x96,
     msm8x76, msm8937, msm8917, msm8x53, msm8998, sdm660, sdm630}

LEMMA TablesWires == \A h \in cfg_handlers : ChipWires(h.hw)
<1>1. \A chip \in Tables : ChipWires(chip)
    <2>1. ChipWires(msm8x74v1) /\ ChipWires(msm8x74v2)
        BY DEF ChipWires, MaxMixers, msm8x74v1, msm8x74v2
    <2>2. ChipWires(msm8x26) /\ ChipWires(msm8x36) /\ ChipWires(msm8x76) /\ ChipWires(msm8917)
        BY DEF ChipWires, MaxMixers, msm8x26, msm8x36, msm8x76, msm8917
    <2>3. ChipWires(apq8084) /\ ChipWires(msm8x94) /\ ChipWires(msm8x96)
        BY DEF ChipWires, MaxMixers, apq8084, msm8x94, msm8x96
    <2>4. ChipWires(msm8998) /\ ChipWires(sdm660)
        BY DEF ChipWires, MaxMixers, msm8998, sdm660
    <2>5. ChipWires(msm8x16) /\ ChipWires(msm8x53) /\ ChipWires(msm8937) /\ ChipWires(sdm630)
        BY DEF ChipWires, MaxMixers, msm8x16, msm8x53, msm8937, sdm630
    <2> QED BY <2>1, <2>2, <2>3, <2>4, <2>5 DEF Tables
<1>2. \A h \in cfg_handlers : h.hw \in Tables
    BY DEF cfg_handlers, cfg_handlers_v1, cfg_handlers_v3, Handler, Tables
<1> QED BY <1>1, <1>2

LEMMA TablesPingPongs == \A h \in cfg_handlers : h.hw.pp > 0 => PingPongs(h.hw)
<1>1. \A chip \in Tables : chip.pp > 0 => PingPongs(chip)
    <2>1. PingPongs(msm8x74v1) /\ PingPongs(msm8x74v2)
        BY DEF PingPongs, FrontMixers, msm8x74v1, msm8x74v2, LM, Display, Paired, Writeback
    <2>2. PingPongs(msm8x26) /\ PingPongs(msm8x36) /\ PingPongs(msm8x76) /\ PingPongs(msm8917)
        BY DEF PingPongs, FrontMixers, msm8x26, msm8x36, msm8x76, msm8917, LM, Display,
               Writeback
    <2>3. PingPongs(apq8084)
        BY DEF PingPongs, FrontMixers, apq8084, LM, Display, Paired, Writeback
    <2>4. PingPongs(msm8x94)
        BY DEF PingPongs, FrontMixers, msm8x94, LM, Display, Paired, Writeback
    <2>5. PingPongs(msm8x96)
        BY DEF PingPongs, FrontMixers, msm8x96, LM, Display, Paired, Writeback
    <2>6. PingPongs(msm8998)
        BY DEF PingPongs, FrontMixers, msm8998, LM, Display, Paired, Writeback
    <2>7. PingPongs(sdm660)
        BY DEF PingPongs, FrontMixers, sdm660, LM, Display, Paired, Writeback
    <2>8. PingPongs(msm8x53) /\ PingPongs(msm8937) /\ PingPongs(sdm630)
        BY DEF PingPongs, FrontMixers, msm8x53, msm8937, sdm630, LM, Display, Paired, Writeback
    <2>9. msm8x16.pp = 0
        BY DEF msm8x16
    <2> QED BY <2>1, <2>2, <2>3, <2>4, <2>5, <2>6, <2>7, <2>8, <2>9 DEF Tables
<1>2. \A h \in cfg_handlers : h.hw \in Tables
    BY DEF cfg_handlers, cfg_handlers_v1, cfg_handlers_v3, Handler, Tables
<1> QED BY <1>1, <1>2

(* What a number of calls of modeset_init_intf() has made: each encoder has  *)
(* an interface of its own and a CTL of its own, which is down as busy.      *)
Encoder(b, chip, e) ==
    /\ e.num \in 0..4 /\ e.ctl \in 1..MaxMixers
    /\ e.type = chip.connect[e.num + 1] /\ e.type \in {"DSI", "HDMI"}
    /\ e.mode = "command" => b.cmd

Apart(es) ==
    \A i, j \in DOMAIN es : i # j => es[i].num # es[j].num /\ es[i].ctl # es[j].ctl

Built(b, chip, st, n) ==
    /\ DOMAIN st = {"status", "encoders", "ok"}
    /\ st.status \in [1..chip.ctl -> SUBSET {"booked", "busy"}]
    /\ \E S : st.encoders \in Seq(S)
    /\ \A i \in DOMAIN st.encoders :
         /\ Encoder(b, chip, st.encoders[i]) /\ st.encoders[i].num < n
         /\ st.encoders[i].ctl \in 1..chip.ctl
         /\ "busy" \in st.status[st.encoders[i].ctl]
    /\ Apart(st.encoders)

LEMMA RequestFree ==
    ASSUME NEW n \in 1..MaxMixers, NEW status \in [1..n -> SUBSET {"booked", "busy"}],
           NEW num, mdp5_ctlm_request(status, num) # 0
    PROVE  /\ mdp5_ctlm_request(status, num) \in 1..n
           /\ "busy" \notin status[mdp5_ctlm_request(status, num)]
<1> DEFINE match == IF num \in {1, 2} THEN {"booked"} ELSE {}
           Preferred == {c \in DOMAIN status : status[c] = match}
           Left == {c \in DOMAIN status : "busy" \notin status[c]}
<1>1. Preferred \subseteq Left /\ Left \subseteq 1..n /\ Left \subseteq 1..MaxMixers
    BY DEF MaxMixers
<1>2. \/ Preferred # {} /\ mdp5_ctlm_request(status, num) = SetMin(Preferred)
      \/ Left # {} /\ mdp5_ctlm_request(status, num) = SetMin(Left)
    BY DEF mdp5_ctlm_request
<1> HIDE DEF Preferred, Left
<1>3. mdp5_ctlm_request(status, num) \in Left
    BY <1>1, <1>2, SetMinIn
<1> QED BY <1>1, <1>3 DEF Left

LEMMA BuiltKept ==
    ASSUME NEW b, NEW chip, NEW st, NEW new, NEW n \in 0..4, Built(b, chip, st, n),
           new = st \/ new = [st EXCEPT !.ok = FALSE]
    PROVE  Built(b, chip, new, n + 1)
<1>1. \A i \in DOMAIN st.encoders : st.encoders[i].num < n + 1
    BY DEF Built, Encoder
<1>2. /\ DOMAIN new = {"status", "encoders", "ok"}
      /\ new.status = st.status /\ new.encoders = st.encoders
    BY DEF Built
<1> QED BY <1>1, <1>2 DEF Built

(* One more call.                                                            *)
LEMMA BuiltStep ==
    ASSUME NEW b, NEW h, ChipWires(h.hw), NEW f, NEW st, NEW n \in 0..4, Built(b, h.hw, st, n)
    PROVE  Built(b, h.hw, modeset_init_intf(b, h, f, st, n), n + 1)
<1> DEFINE t == h.hw.connect[n + 1]
           m == mdp5_ctlm_request(st.status, n)
           e == [num |-> n, type |-> t, mode |-> IntfMode(b, t), ctl |-> m]
           None == ~st.ok \/ t \in {"DISABLED", "eDP"}
           Here == Attached(b, h.hw, n)
           Wrong == \/ t = "DSI" /\ get_dsi_id_from_intf(h.hw, n) >= 2
                    \/ Here /\ m = 0
           new == modeset_init_intf(b, h, f, st, n)
<1>1. CASE None \/ (~Wrong /\ ~Here)
    <2>1. new = st
        BY <1>1 DEF modeset_init_intf
    <2> HIDE DEF new
    <2> QED BY <2>1, BuiltKept DEF new
<1>2. CASE ~(None \/ (~Wrong /\ ~Here)) /\ Wrong
    <2>1. new = [st EXCEPT !.ok = FALSE]
        BY <1>2 DEF modeset_init_intf
    <2> HIDE DEF new
    <2> QED BY <2>1, BuiltKept DEF new
<1>3. CASE ~(None \/ (~Wrong /\ ~Here)) /\ ~Wrong
    <2>1. /\ new.encoders = Append(st.encoders, e)
          /\ new.status = [st.status EXCEPT ![m] = @ \union {"busy"}]
          /\ DOMAIN new = {"status", "encoders", "ok"}
        BY <1>3 DEF modeset_init_intf
    <2>2. Here /\ m # 0
        BY <1>3
    <2>3. m \in 1..h.hw.ctl /\ "busy" \notin st.status[m] /\ h.hw.ctl \in 1..MaxMixers
        <3>1. h.hw.ctl \in 1..MaxMixers /\ st.status \in [1..h.hw.ctl -> SUBSET {"booked", "busy"}]
            BY DEF Built, ChipWires
        <3> QED BY <2>2, <3>1, RequestFree
    <2>4. t \in {"DSI", "HDMI"}
        BY <2>2 DEF Attached
    <2>5. e.mode = "command" => b.cmd
        BY DEF IntfMode
    <2>6. Encoder(b, h.hw, e)
        <3>1. m \in 1..MaxMixers
            BY <2>3 DEF MaxMixers
        <3> QED BY <3>1, <2>4, <2>5 DEF Encoder
    <2>7. e.num = n /\ e.ctl = m
        OBVIOUS
    <2>8. PICK S : st.encoders \in Seq(S)
        BY DEF Built
    <2> DEFINE k == Len(st.encoders) + 1
    <2> HIDE DEF new, e, m
    <2>9. /\ new.encoders \in Seq(S \union {e}) /\ DOMAIN new.encoders = 1..k /\ k \in Nat \ {0}
          /\ new.encoders[k] = e /\ DOMAIN st.encoders = 1..(k - 1)
          /\ \A i \in 1..(k - 1) : new.encoders[i] = st.encoders[i]
        <3>1. st.encoders \in Seq(S \union {e})
            BY <2>8
        <3> QED BY <2>1, <2>8, <3>1
    <2>10. \A i \in DOMAIN new.encoders : i = k \/ i \in DOMAIN st.encoders
        BY <2>9
    <2> HIDE DEF k
    <2>11. /\ new.status \in [1..h.hw.ctl -> SUBSET {"booked", "busy"}]
           /\ "busy" \in new.status[m]
           /\ \A c \in 1..h.hw.ctl : "busy" \in st.status[c] => "busy" \in new.status[c]
        BY <2>1, <2>3 DEF Built
    <2>12. \A i \in DOMAIN new.encoders :
             /\ Encoder(b, h.hw, new.encoders[i]) /\ new.encoders[i].num < n + 1
             /\ new.encoders[i].ctl \in 1..h.hw.ctl
             /\ "busy" \in new.status[new.encoders[i].ctl]
        <3> TAKE i \in DOMAIN new.encoders
        <3>1. CASE i = k
            BY <3>1, <2>3, <2>6, <2>7, <2>9, <2>11
        <3>2. CASE i # k
            <4>1. i \in DOMAIN st.encoders /\ new.encoders[i] = st.encoders[i]
                BY <3>2, <2>9, <2>10
            <4>2. /\ Encoder(b, h.hw, st.encoders[i]) /\ st.encoders[i].num < n
                  /\ st.encoders[i].ctl \in 1..h.hw.ctl
                  /\ "busy" \in st.status[st.encoders[i].ctl]
                BY <4>1 DEF Built
            <4>3. st.encoders[i].num \in Nat
                BY <4>2 DEF Encoder
            <4> QED BY <4>1, <4>2, <4>3, <2>11
        <3> QED BY <3>1, <3>2
    <2>13. \A i \in DOMAIN st.encoders : st.encoders[i].num # n /\ st.encoders[i].ctl # m
        BY <2>3 DEF Built, Encoder
    <2>14. Apart(new.encoders)
        BY <2>7, <2>9, <2>10, <2>13, SMTT(30) DEF Built, Apart
    <2>15. \E T : new.encoders \in Seq(T)
        BY <2>9
    <2> QED BY <2>1, <2>11, <2>12, <2>14, <2>15 DEF Built, new
<1> QED BY <1>1, <1>2, <1>3

LEMMA EncodersBuilt ==
    ASSUME NEW b, NEW h, ChipWires(h.hw), NEW f
    PROVE  /\ \A i \in DOMAIN modeset_init_intfs(b, h, f).encoders :
                Encoder(b, h.hw, modeset_init_intfs(b, h, f).encoders[i])
           /\ Apart(modeset_init_intfs(b, h, f).encoders)
           /\ \E S : modeset_init_intfs(b, h, f).encoders \in Seq(S)
<1> DEFINE Call(st, num) == modeset_init_intf(b, h, f, st, num)
           none == [status |-> CtlStatus(h), encoders |-> <<>>, ok |-> TRUE]
           Good(st, n) == Built(b, h.hw, st, n)
<1>1. Good(none, 0)
    <2>1. CtlStatus(h) \in [1..h.hw.ctl -> SUBSET {"booked", "busy"}]
        BY DEF CtlStatus
    <2>2. none.encoders \in Seq({}) /\ DOMAIN none.encoders = {}
        OBVIOUS
    <2>3. \E S : none.encoders \in Seq(S)
        BY <2>2
    <2>4. Apart(none.encoders)
        BY <2>2 DEF Apart
    <2>5. DOMAIN none = {"status", "encoders", "ok"} /\ none.status = CtlStatus(h)
        OBVIOUS
    <2> HIDE DEF none
    <2> QED BY <2>1, <2>2, <2>3, <2>4, <2>5 DEF Built
<1>2. \A st : \A n \in 0..4 : Good(st, n) => Good(Call(st, n), n + 1)
    BY BuiltStep
<1>3. modeset_init_intfs(b, h, f) = Call(Call(Call(Call(Call(none, 0), 1), 2), 3), 4)
    BY DEF modeset_init_intfs, ForEachIntf
<1> HIDE DEF Call, none, Good
<1>4. Good(Call(none, 0), 0 + 1)
    BY <1>1, <1>2
<1>5. Good(Call(Call(none, 0), 1), 1 + 1)
    BY <1>4, <1>2
<1>6. Good(Call(Call(Call(none, 0), 1), 2), 2 + 1)
    BY <1>5, <1>2
<1>7. Good(Call(Call(Call(Call(none, 0), 1), 2), 3), 3 + 1)
    BY <1>6, <1>2
<1>8. Good(modeset_init_intfs(b, h, f), 4 + 1)
    BY <1>7, <1>3, <1>2
<1> QED BY <1>8 DEF Good, Built

-------------------------------------------------------------------------------
(* The encoders are those of the board, whatever happens afterwards.         *)
EncodersKnown ==
    kms.phase = "up" =>
        /\ ChipWires(Chip)
        /\ Chip.pp > 0 => PingPongs(Chip)
        /\ board.cmd => Chip.pp > 0
        /\ \E S : kms.encoders \in Seq(S)
        /\ \A e \in Encoders : Encoder(board, Chip, kms.encoders[e])
        /\ Apart(kms.encoders)

SInv == board \in Boards /\ EncodersKnown

LEMMA KmsInitKnown == ASSUME SInv, KmsInit PROVE SInv'
<1>1. PICK h \in mdp5_cfg_init(board.major, board.minor) :
        kms' = modeset_init(h, modeset_init_intfs(board, h, FALSE))
    BY DEF KmsInit
<1> DEFINE es == modeset_init_intfs(board, h, FALSE).encoders
<1>2. h \in cfg_handlers
    BY DEF mdp5_cfg_init
<1>3. ChipWires(h.hw) /\ (h.hw.pp > 0 => PingPongs(h.hw))
    BY <1>2, TablesWires, TablesPingPongs
<1>4. board.cmd => h.hw.pp > 0
    BY BoardsAssumption DEF SInv
<1>5. /\ \A i \in DOMAIN es : Encoder(board, h.hw, es[i])
      /\ Apart(es)
      /\ \E S : es \in Seq(S)
    BY <1>3, EncodersBuilt
<1>6. kms'.hw = h.hw /\ kms'.encoders = es
    BY <1>1 DEF modeset_init
<1> HIDE DEF es
<1>7. board' = board /\ board \in Boards
    BY DEF KmsInit, SInv
<1>8. Chip' = h.hw /\ Encoders' = DOMAIN es
    BY <1>6 DEF Chip, Encoders
<1> QED BY <1>3, <1>4, <1>5, <1>6, <1>7, <1>8 DEF SInv, EncodersKnown

LEMMA KnownNext ==
    ASSUME SInv, [Next]_vars
    PROVE  SInv'
<1>1. CASE KmsInit
    BY <1>1, KmsInitKnown
<1>2. CASE KmsInitFails
    <2>1. kms' = NoKms("failed") /\ board' = board
        BY <1>2 DEF KmsInitFails
    <2>2. kms'.phase # "up"
        BY <2>1 DEF NoKms
    <2> QED BY <2>1, <2>2 DEF SInv, EncodersKnown
<1>3. CASE UNCHANGED <<board, kms>>
    <2>1. Chip' = Chip /\ Encoders' = Encoders /\ kms' = kms /\ board' = board
        BY <1>3 DEF Chip, Encoders
    <2> QED BY <2>1 DEF SInv, EncodersKnown
<1>4. CASE \E c \in Crtcs : Commit(c) \/ Disable(c) \/ Enable(c)
    BY <1>3, <1>4 DEF Commit, Disable, Enable
<1>5. CASE UNCHANGED vars
    BY <1>3, <1>5 DEF vars
<1> QED BY <1>1, <1>2, <1>4, <1>5 DEF Next

-------------------------------------------------------------------------------
(* The pipeline a checked state asks for.                                    *)

Displays == {e \in Encoders : Connected(e)}

(* The encoder whose interface another one borrows, and its CTL.             *)
Slave(e) ==
    IF e # 0 /\ mdp5_encoder_is_split_master(e) THEN mdp5_encoder_find_intf(2) ELSE 0

CtlOf(e) == IF e = 0 THEN 0 ELSE kms.encoders[e].ctl

Command(e) == e # 0 /\ IsCmd(e)

Borne(s) == s.intf # 0 =>
    /\ s.mixer # 0
    /\ s.vblank = intf2vblank(s.mixer, s.intf)
    /\ s.err = {Num(e) : e \in {s.intf, s.r_intf} \ {0}}

(* A state is routed as its encoder wants it, whoever has the encoder now.   *)
RoutedState(s) ==
    /\ s.enc \in {0} \union Encoders /\ s.mode \in ModeType
    /\ s.intf \in {0} \union Displays
    /\ s.r_intf = Slave(s.intf) /\ s.ctl = CtlOf(s.intf) /\ s.r_ctl = CtlOf(s.r_intf)
    /\ s.cmd_mode <=> Command(s.intf)
    /\ Borne(s)
    /\ s.enc # 0 => s.intf = s.enc

Routed == kms.phase = "up" => \A c \in Crtcs : RoutedState(cs[c])

(* What the check of the encoder and of the CRTC enter.                      *)
SameRoute(s, t) ==
    s.intf = t.intf /\ s.r_intf = t.r_intf /\ s.ctl = t.ctl /\ s.r_ctl = t.r_ctl

ToEncoder(s, e) ==
    s.intf = e /\ s.r_intf = Slave(e) /\ s.ctl = CtlOf(e) /\ s.r_ctl = CtlOf(Slave(e))

Masked(s) ==
    /\ s.mixer # 0
    /\ s.vblank = intf2vblank(s.mixer, s.intf)
    /\ s.err = {Num(e) : e \in {s.intf, s.r_intf} \ {0}}
    /\ s.cmd_mode <=> IsCmd(s.intf)

LEMMA EncoderCheckRoutes ==
    ASSUME NEW s, DOMAIN s = StateFields, NEW e, e # 0
    PROVE  /\ DOMAIN EncoderCheck(s, e).state = StateFields
           /\ EncoderCheck(s, e).state.enc = s.enc
           /\ EncoderCheck(s, e).state.mode = s.mode
           /\ ToEncoder(EncoderCheck(s, e).state, e)
<1> DEFINE v == Slave(e)
           r == CtlOf(Slave(e))
           t == CtlOf(e)
<1>1. EncoderCheck(s, e).state = [s EXCEPT !.ctl = t, !.intf = e, !.r_intf = v, !.r_ctl = r]
    BY DEF EncoderCheck, Slave, CtlOf
<1>2. DEFINE n == [s EXCEPT !.ctl = t, !.intf = e, !.r_intf = v, !.r_ctl = r]
<1> HIDE DEF v, r, t
<1>3. /\ DOMAIN n = StateFields /\ n.enc = s.enc /\ n.mode = s.mode
      /\ n.intf = e /\ n.r_intf = v /\ n.ctl = t /\ n.r_ctl = r
    BY DEF StateFields
<1> HIDE DEF n
<1> QED BY <1>1, <1>3 DEF ToEncoder, v, r, t, n

(* The masks.                                                                *)
LEMMA MasksRoutes ==
    ASSUME NEW s, DOMAIN s = StateFields, s.mixer # 0
    PROVE  /\ DOMAIN Masks(s) = StateFields
           /\ Masks(s).enc = s.enc /\ Masks(s).mode = s.mode
           /\ SameRoute(Masks(s), s)
           /\ Masked(Masks(s))
<1> DEFINE er == {kms.encoders[e].num : e \in {s.intf, s.r_intf} \ {0}}
           vb == intf2vblank(s.mixer, s.intf)
           cm == IsCmd(s.intf)
           n == [s EXCEPT !.err = er, !.vblank = vb, !.cmd_mode = cm]
<1>1. Masks(s) = n
    BY DEF Masks
<1>2. er = {Num(e) : e \in {s.intf, s.r_intf} \ {0}}
    BY DEF Num
<1> HIDE DEF er, vb, cm
<1>3. /\ DOMAIN n = StateFields /\ n.enc = s.enc /\ n.mode = s.mode
      /\ n.intf = s.intf /\ n.r_intf = s.r_intf /\ n.ctl = s.ctl /\ n.r_ctl = s.r_ctl
      /\ n.mixer = s.mixer /\ n.err = er /\ n.vblank = vb
    BY DEF StateFields
<1>4. n.cmd_mode = cm
    BY DEF StateFields
<1> HIDE DEF n
<1>5. SameRoute(n, s)
    BY <1>3 DEF SameRoute
<1>6. n.vblank = intf2vblank(n.mixer, n.intf)
    BY <1>3 DEF vb
<1>7. n.err = {Num(e) : e \in {n.intf, n.r_intf} \ {0}}
    BY <1>2, <1>3
<1>8. n.cmd_mode <=> IsCmd(n.intf)
    BY <1>3, <1>4, Zenon DEF cm
<1>9. Masked(n)
    BY <1>3, <1>6, <1>7, <1>8 DEF Masked
<1> QED BY <1>1, <1>3, <1>5, <1>9

LEMMA SetupRoutes ==
    ASSUME NEW c, NEW s, DOMAIN s = StateFields, NEW need \in BOOLEAN,
           mdp5_crtc_setup_pipeline(c, s, need).ok
    PROVE  /\ DOMAIN mdp5_crtc_setup_pipeline(c, s, need).state = StateFields
           /\ mdp5_crtc_setup_pipeline(c, s, need).state.enc = s.enc
           /\ mdp5_crtc_setup_pipeline(c, s, need).state.mode = s.mode
           /\ SameRoute(mdp5_crtc_setup_pipeline(c, s, need).state, s)
           /\ Masked(mdp5_crtc_setup_pipeline(c, s, need).state)
<1> DEFINE new == mdp5_crtc_setup_pipeline(c, s, need)
           a == mdp5_mixer_assign(c, s.mixer, need)
           New == s.mixer = 0 \/ need # (s.r_mixer # 0)
           t == [s EXCEPT !.mixer = a.mixer, !.r_mixer = a.r_mixer]
<1>1. CASE ~New
    <2>1. new.state = Masks(s)
        BY <1>1 DEF mdp5_crtc_setup_pipeline
    <2>2. s.mixer # 0
        BY <1>1
    <2> HIDE DEF new
    <2> QED BY <2>1, <2>2, MasksRoutes DEF new
<1>2. CASE New
    <2>1. a.ok /\ new.state = Masks(t)
        BY <1>2 DEF mdp5_crtc_setup_pipeline
    <2>2. a.mixer # 0
        <3> DEFINE Reach == InReach(c, IF need THEN Paired ELSE Display)
                   Free == {m \in Reach : need => owner[get_right_pair_idx(m)] = 0}
                   Pairable == {m \in Free : "PAIR" \in Chip.lm[m].caps}
                   left == CASE Pairable # {} -> SetMax(Pairable)
                             [] Pairable = {} /\ s.mixer # 0 -> s.mixer
                             [] Pairable = {} /\ s.mixer = 0 /\ Free # {} -> SetMin(Free)
                             [] OTHER -> 0
                   right == IF need /\ Free # {} THEN get_right_pair_idx(SetMax(Free)) ELSE 0
        <3>1. left # 0 /\ a.mixer = left
            BY <2>1 DEF mdp5_mixer_assign
        <3> HIDE DEF left, a
        <3> QED BY <3>1
    <2> HIDE DEF a
    <2>3. /\ DOMAIN t = StateFields /\ t.mixer = a.mixer
          /\ t.enc = s.enc /\ t.mode = s.mode
          /\ t.intf = s.intf /\ t.r_intf = s.r_intf /\ t.ctl = s.ctl /\ t.r_ctl = s.r_ctl
        BY DEF StateFields
    <2> HIDE DEF t, new
    <2>4. /\ DOMAIN Masks(t) = StateFields
          /\ Masks(t).enc = t.enc /\ Masks(t).mode = t.mode
          /\ SameRoute(Masks(t), t)
          /\ Masked(Masks(t))
        BY <2>2, <2>3, MasksRoutes
    <2>5. SameRoute(new.state, s)
        BY <2>1, <2>3, <2>4 DEF SameRoute
    <2>6. /\ DOMAIN new.state = StateFields /\ new.state.enc = s.enc /\ new.state.mode = s.mode
          /\ Masked(new.state)
        BY <2>1, <2>3, <2>4
    <2> QED BY <2>5, <2>6 DEF new
<1> QED BY <1>1, <1>2

SameMasks(s, t) == s.vblank = t.vblank /\ s.err = t.err /\ (s.cmd_mode <=> t.cmd_mode)

(* The state a request r to CRTC c results in.                               *)
Checked(n, c, r) ==
    /\ DOMAIN n = StateFields /\ n.enc = r.enc /\ n.mode = r.mode
    /\ r.enc = 0 => SameRoute(n, cs[c]) /\ SameMasks(n, cs[c]) /\ SameMixers(n, cs[c])
    /\ r.enc # 0 => Masked(n)
    /\ r.enc # 0 /\ Modeset(c, r) => ToEncoder(n, r.enc)
    /\ r.enc # 0 /\ ~Modeset(c, r) => SameRoute(n, cs[c])

LEMMA CheckRoutes ==
    ASSUME NEW c, DOMAIN cs[c] = StateFields, NEW r, AtomicCheck(c, r).ok
    PROVE  Checked(AtomicCheck(c, r).state, c, r)
<1> DEFINE new == AtomicCheck(c, r)
           asked == [cs[c] EXCEPT !.enc = r.enc, !.mode = r.mode]
           encoder == IF Modeset(c, r) THEN EncoderCheck(asked, r.enc)
                      ELSE [ok |-> TRUE, state |-> asked]
           s == encoder.state
           need == need_right_mixer(s, r)
           crtc == mdp5_crtc_setup_pipeline(c, s, need)
<1>1. /\ DOMAIN asked = StateFields /\ asked.enc = r.enc /\ asked.mode = r.mode
      /\ SameRoute(asked, cs[c]) /\ SameMixers(asked, cs[c])
    BY DEF SameRoute, SameMixers, StateFields
<1>2. asked.vblank = cs[c].vblank /\ asked.err = cs[c].err
    BY DEF StateFields
<1>3. asked.cmd_mode <=> cs[c].cmd_mode
    BY Zenon DEF StateFields
<1>4. CASE r.enc = 0
    <2>1. new.state = asked
        BY <1>4 DEF AtomicCheck
    <2> HIDE DEF new, asked
    <2>2. SameMasks(new.state, cs[c])
        BY <1>2, <1>3, <2>1, Zenon DEF SameMasks
    <2>3. Checked(new.state, c, r)
        BY <1>1, <1>4, <2>1, <2>2 DEF Checked
    <2> QED BY <2>3 DEF new
<1>5. CASE r.enc # 0
    <2>1. crtc.ok /\ new = crtc
        BY <1>5 DEF AtomicCheck
    <2>2. need \in BOOLEAN
        BY DEF need_right_mixer
    <2>3. /\ DOMAIN s = StateFields /\ s.enc = r.enc /\ s.mode = r.mode
          /\ Modeset(c, r) => ToEncoder(s, r.enc)
          /\ ~Modeset(c, r) => SameRoute(s, cs[c])
        <3> HIDE DEF asked
        <3>1. CASE Modeset(c, r)
            <4>1. s = EncoderCheck(asked, r.enc).state
                BY <3>1
            <4> HIDE DEF s
            <4> QED BY <1>1, <1>5, <3>1, <4>1, EncoderCheckRoutes
        <3>2. CASE ~Modeset(c, r)
            BY <1>1, <3>2
        <3> QED BY <3>1, <3>2
    <2> HIDE DEF s, need, new
    <2>4. /\ DOMAIN crtc.state = StateFields
          /\ crtc.state.enc = s.enc /\ crtc.state.mode = s.mode
          /\ SameRoute(crtc.state, s)
          /\ Masked(crtc.state)
        BY <2>1, <2>2, <2>3, SetupRoutes
    <2>5. Modeset(c, r) => ToEncoder(crtc.state, r.enc)
        BY <2>3, <2>4 DEF ToEncoder, SameRoute
    <2>6. ~Modeset(c, r) => SameRoute(crtc.state, cs[c])
        BY <2>3, <2>4 DEF SameRoute
    <2> HIDE DEF crtc
    <2>7. Checked(new.state, c, r)
        BY <1>5, <2>1, <2>3, <2>4, <2>5, <2>6 DEF Checked
    <2> QED BY <2>7 DEF new
<1> QED BY <1>4, <1>5

-------------------------------------------------------------------------------
(* What is settled when the driver comes up stays.                           *)
Standing == UNCHANGED <<board, kms>>

LEMMA RoutedKept ==
    ASSUME Standing, NEW c, RoutedState(cs'[c])
    PROVE  RoutedState(cs[c])'
    BY DEF RoutedState, Standing, Displays, Connected, Slave, CtlOf, Command, Borne,
           IsCmd, Num, intf2vblank, Encoders, Chip, mdp5_encoder_is_split_master,
           mdp5_encoder_find_intf

LEMMA StandingKeeps ==
    ASSUME Standing
    PROVE  /\ Chip' = Chip /\ Crtcs' = Crtcs /\ Encoders' = Encoders /\ Mixers' = Mixers
           /\ Displays' = Displays
           /\ \A e : /\ Num(e)' = Num(e) /\ CtlOf(e)' = CtlOf(e) /\ Slave(e)' = Slave(e)
                     /\ IsCmd(e)' <=> IsCmd(e)
<1>1. Chip' = Chip /\ Crtcs' = Crtcs /\ Encoders' = Encoders /\ Mixers' = Mixers
    BY DEF Standing, Chip, Crtcs, Encoders, Mixers
<1>2. Displays' = Displays
    BY DEF Standing, Displays, Connected, Encoders, Chip
<1>3. \A e : /\ Num(e)' = Num(e) /\ CtlOf(e)' = CtlOf(e)
             /\ IsCmd(e)' <=> IsCmd(e)
    BY DEF Standing, Num, CtlOf, IsCmd
<1>4. \A e : Slave(e)' = Slave(e)
    BY DEF Standing, Slave, mdp5_encoder_is_split_master, mdp5_encoder_find_intf, Encoders
<1> QED BY <1>1, <1>2, <1>3, <1>4

(* The position of an encoder is never 0.                                    *)
LEMMA EncodersCount ==
    ASSUME SInv, kms.phase = "up"
    PROVE  Encoders = 1..Len(kms.encoders) /\ Len(kms.encoders) \in Nat
<1>1. PICK S : kms.encoders \in Seq(S)
    BY DEF SInv, EncodersKnown
<1> QED BY <1>1 DEF Encoders

LEMMA RequestShape ==
    ASSUME SInv, kms.phase = "up", NEW c, NEW r \in Requests(c)
    PROVE  /\ r.enc \in {0} \union Displays /\ r.mode \in ModeType
           /\ r.enc # 0 => \A d \in Crtcs \ {c} : r.enc \notin {cs[d].enc, tail[d].enc}
<1>1. CASE r = Off
    BY <1>1 DEF Off, NoMode, ModeType
<1>2. CASE r # Off
    <2>1. PICK e \in Encoders :
            /\ Connected(e)
            /\ \A d \in Crtcs \ {c} : e \notin {cs[d].enc, tail[d].enc}
            /\ \E m \in Modes[kms.encoders[e].type] : \E w \in BOOLEAN :
                 r = [enc |-> e, mode |-> m, wide |-> w]
        BY <1>2 DEF Requests
    <2>2. r.enc = e /\ r.mode \in Modes[kms.encoders[e].type]
        BY <2>1
    <2>3. kms.encoders[e].type \in {"DSI", "HDMI"}
        BY DEF SInv, EncodersKnown, Encoder
    <2> QED BY <2>1, <2>2, <2>3, ModesAssumption DEF Displays
<1> QED BY <1>1, <1>2

LEMMA CheckedRouted ==
    ASSUME NEW c, NEW r, NEW n, RoutedState(cs[c]), Checked(n, c, r),
           r.enc \in {0} \union Displays, r.mode \in ModeType, 0 \notin Encoders
    PROVE  RoutedState(n)
<1>1. n.enc \in {0} \union Encoders /\ n.mode \in ModeType
    BY DEF Checked, Displays
<1>2. CASE r.enc = 0
    <2>1. SameRoute(n, cs[c]) /\ SameMasks(n, cs[c]) /\ SameMixers(n, cs[c]) /\ n.enc = 0
        BY <1>2 DEF Checked
    <2>2. Borne(n)
        BY <2>1 DEF RoutedState, Borne, SameRoute, SameMasks, SameMixers
    <2> QED BY <1>1, <2>1, <2>2 DEF RoutedState, SameRoute, SameMasks
<1>3. CASE r.enc # 0
    <2>1. ToEncoder(n, r.enc) /\ Masked(n) /\ n.enc = r.enc
        <3>1. CASE Modeset(c, r)
            BY <1>3, <3>1 DEF Checked
        <3>2. CASE ~Modeset(c, r)
            <4>1. SameRoute(n, cs[c]) /\ Masked(n) /\ n.enc = r.enc /\ r.enc = cs[c].enc
                BY <1>3, <3>2 DEF Checked, Modeset
            <4> QED BY <1>3, <4>1 DEF RoutedState, SameRoute, ToEncoder
        <3> QED BY <3>1, <3>2
    <2>2. Borne(n)
        BY <2>1 DEF Masked, Borne
    <2>3. n.cmd_mode <=> Command(n.intf)
        BY <1>3, <2>1 DEF Masked, Command, ToEncoder
    <2>4. n.intf = r.enc /\ n.r_intf = Slave(n.intf) /\ n.ctl = CtlOf(n.intf)
          /\ n.r_ctl = CtlOf(n.r_intf)
        BY <2>1 DEF ToEncoder
    <2> QED BY <1>1, <1>3, <2>1, <2>2, <2>3, <2>4 DEF RoutedState
<1> QED BY <1>2, <1>3

LEMMA CommitRouted ==
    ASSUME IInv, SInv, Routed, NEW c \in Crtcs, Commit(c)
    PROVE  Routed'
<1>1. PICK r \in Requests(c) :
        /\ AtomicCheck(c, r).ok
        /\ cs' = [cs EXCEPT ![c] = AtomicCheck(c, r).state]
    BY DEF Commit
<1>2. kms.phase = "up" /\ Standing
    BY DEF Commit, IInv, KmsShape, Crtcs, Standing
<1>3. DOMAIN cs = Crtcs /\ DOMAIN cs[c] = StateFields
    BY <1>2 DEF IInv, OwnerShape
<1>4. RoutedState(AtomicCheck(c, r).state)
    <2>1. Checked(AtomicCheck(c, r).state, c, r)
        BY <1>1, <1>3, CheckRoutes
    <2>2. 0 \notin Encoders
        BY <1>2, EncodersCount
    <2> QED BY <1>2, <2>1, <2>2, RequestShape, CheckedRouted DEF Routed
<1>5. \A d \in Crtcs : RoutedState(cs'[d])
    BY <1>1, <1>2, <1>3, <1>4 DEF Routed
<1>6. \A d \in Crtcs : RoutedState(cs[d])'
    BY <1>2, <1>5, RoutedKept
<1>7. Crtcs' = Crtcs
    BY <1>2, StandingKeeps
<1> QED BY <1>6, <1>7 DEF Routed

(* A CRTC that was never used goes nowhere.                                  *)
LEMMA OffRouted == RoutedState(OffState)
<1>1. /\ OffState.enc = 0 /\ OffState.mode = NoMode /\ OffState.intf = 0
      /\ OffState.r_intf = 0 /\ OffState.ctl = 0 /\ OffState.r_ctl = 0
      /\ OffState.cmd_mode = FALSE
    BY DEF OffState
<1>2. NoMode \in ModeType
    BY DEF NoMode, ModeType
<1> QED BY <1>1, <1>2 DEF RoutedState, Slave, CtlOf, Command, Borne

LEMMA KmsInitRouted == ASSUME KmsInit PROVE Routed'
<1>1. PICK n : cs' = [c \in 1..n |-> OffState] /\ kms'.crtcs = n
    BY DEF KmsInit, modeset_init
<1>2. \A c \in Crtcs' : cs'[c] = OffState
    BY <1>1 DEF Crtcs
<1>3. RoutedState(OffState)'
    BY OffRouted, PTL
<1> QED BY <1>2, <1>3 DEF Routed

LEMMA RoutedNext ==
    ASSUME IInv, SInv, Routed, [Next]_vars
    PROVE  Routed'
<1>1. CASE KmsInit
    BY <1>1, KmsInitRouted
<1>2. CASE KmsInitFails
    <2>1. kms'.phase # "up"
        BY <1>2 DEF KmsInitFails, NoKms
    <2> QED BY <2>1 DEF Routed
<1>3. CASE \E c \in Crtcs : Commit(c)
    BY <1>3, CommitRouted
<1>4. CASE Standing /\ cs' = cs
    <2>1. \A c \in Crtcs : kms.phase = "up" => RoutedState(cs[c])'
        BY <1>4, RoutedKept DEF Routed
    <2> QED BY <1>4, <2>1, StandingKeeps DEF Routed, Standing
<1>5. CASE \E c \in Crtcs : Disable(c) \/ Enable(c)
    BY <1>4, <1>5 DEF Disable, Enable, Standing
<1>6. CASE UNCHANGED vars
    BY <1>4, <1>6 DEF vars, Standing
<1> QED BY <1>1, <1>2, <1>3, <1>5, <1>6 DEF Next

(* Mixers of a CRTC can drive a display, and are joined as the chip can.     *)
Joined(s) ==
    /\ s.mixer # 0 => "DISPLAY" \in Chip.lm[s.mixer].caps
    /\ s.r_mixer # 0 => Joins(s.mixer, s.r_mixer)

AllJoined == \A c \in Crtcs : Joined(cs[c])

LEMMA CommitJoined ==
    ASSUME IInv, SInv, AllJoined, NEW c \in Crtcs, Commit(c)
    PROVE  AllJoined'
<1>1. PICK r \in Requests(c) :
        /\ AtomicCheck(c, r).ok
        /\ cs' = [cs EXCEPT ![c] = AtomicCheck(c, r).state]
    BY DEF Commit
<1> DEFINE new == AtomicCheck(c, r)
<1>2. kms.phase = "up" /\ Standing
    BY DEF Commit, IInv, KmsShape, Crtcs, Standing
<1>3. DOMAIN cs = Crtcs /\ DOMAIN cs[c] = StateFields
    BY <1>2 DEF IInv, OwnerShape
<1>4. \/ SameMixers(new.state, cs[c])
      \/ \E s, need : /\ SameMixers(s, cs[c]) /\ need \in BOOLEAN
                      /\ Reassigned(new, c, s, need)
    BY <1>1, <1>3, CheckResult
<1> HIDE DEF new
<1>5. Joined(new.state)
    <2>1. CASE SameMixers(new.state, cs[c])
        BY <2>1 DEF AllJoined, Joined, SameMixers
    <2>2. ASSUME NEW s, NEW need \in BOOLEAN, SameMixers(s, cs[c]), Reassigned(new, c, s, need)
          PROVE  Joined(new.state)
        <3> DEFINE a == mdp5_mixer_assign(c, s.mixer, need)
        <3>1. Known /\ s.mixer \in {0} \union Mixers /\ 0 \notin Mixers
            <4>1. 0 \notin Crtcs
                BY DEF IInv, KmsShape, Crtcs
            <4> QED BY <1>2, <2>2, <4>1, MixersFew
                DEF Known, IInv, KmsShape, OwnerShape, HalvesApart, SameMixers
        <3>2. a.ok /\ new.state.mixer = a.mixer /\ new.state.r_mixer = a.r_mixer
            BY <2>2 DEF Reassigned
        <3>3. Gives(a, c, s.mixer, need)
            <4>1. s.mixer \in {0} \union Mixers /\ mdp5_mixer_assign(c, s.mixer, need).ok
                BY <3>1, <3>2
            <4> QED BY <3>1, <4>1, AssignGives
        <3> HIDE DEF a
        <3>4. "DISPLAY" \in Chip.lm[a.mixer].caps
            BY <2>2, <3>1, <3>3 DEF Gives, AllJoined, Joined, SameMixers
        <3> QED BY <3>2, <3>3, <3>4 DEF Joined, Gives
    <2> QED BY <1>4, <2>1, <2>2
<1>6. \A d \in Crtcs : Joined(cs'[d])
    BY <1>1, <1>3, <1>5 DEF AllJoined, new
<1> QED BY <1>2, <1>6, StandingKeeps DEF AllJoined, Joined, Joins

LEMMA JoinedNext ==
    ASSUME IInv, SInv, AllJoined, [Next]_vars
    PROVE  AllJoined'
<1>1. CASE KmsInit
    <2>1. PICK n : cs' = [c \in 1..n |-> OffState] /\ kms'.crtcs = n
        BY <1>1 DEF KmsInit, modeset_init
    <2>2. \A c \in Crtcs' : cs'[c] = OffState
        BY <2>1 DEF Crtcs
    <2>3. OffState.mixer = 0 /\ OffState.r_mixer = 0
        BY DEF OffState
    <2> QED BY <2>2, <2>3 DEF AllJoined, Joined
<1>2. CASE KmsInitFails
    <2>1. kms' = NoKms("failed")
        BY <1>2 DEF KmsInitFails
    <2>2. kms'.crtcs = 0
        BY <2>1 DEF NoKms
    <2>3. Crtcs' = {}
        BY <2>2 DEF Crtcs
    <2> QED BY <2>3 DEF AllJoined
<1>3. CASE \E c \in Crtcs : Commit(c)
    BY <1>3, CommitJoined
<1>4. CASE Standing /\ cs' = cs
    BY <1>4, StandingKeeps DEF AllJoined, Joined, Joins
<1>5. CASE \E c \in Crtcs : Disable(c) \/ Enable(c)
    BY <1>4, <1>5 DEF Disable, Enable, Standing
<1>6. CASE UNCHANGED vars
    BY <1>4, <1>6 DEF vars, Standing
<1> QED BY <1>1, <1>2, <1>3, <1>5, <1>6 DEF Next

(* A command-mode display has a ping-pong block of its mixer's.              *)
LEMMA CommandPingPong ==
    ASSUME SInv, kms.phase = "up", NEW s, RoutedState(s), Joined(s), Command(s.intf),
           s.mixer \in {0} \union Mixers
    PROVE  /\ s.mixer \in FrontMixers(Chip) /\ s.mixer # 0 /\ PingPongs(Chip)
           /\ Chip.lm[s.mixer].pp \in 0..(Chip.pp - 1)
<1>1. s.intf \in Encoders /\ IsCmd(s.intf) /\ s.mixer # 0
    BY DEF RoutedState, Displays, Command, Borne
<1>2. board.cmd
    BY <1>1 DEF SInv, EncodersKnown, Encoder, IsCmd
<1>3. PingPongs(Chip)
    BY <1>2 DEF SInv, EncodersKnown
<1>4. s.mixer \in FrontMixers(Chip)
    BY <1>1 DEF Joined, FrontMixers, Mixers
<1> QED BY <1>1, <1>3, <1>4 DEF PingPongs

(* When all mixers that may be the left half have a right one, a CRTC that   *)
(* has no mixer finds what there is.                                         *)
LEMMA AssignFinds ==
    ASSUME Known, NEW c \in Crtcs
    PROVE  LET CanPair == {m \in Mixers : "PAIR" \in Chip.lm[m].caps}
               RightOf(m) == {i \in Mixers : Chip.lm[i].id = lm_right_pair[Chip.lm[m].id + 1]}
               Free(m) == owner[m] = 0 /\ "DISPLAY" \in Chip.lm[m].caps
           IN  /\ (\E m \in Mixers : Free(m)) => mdp5_mixer_assign(c, 0, FALSE).ok
               /\ /\ \A m \in CanPair : RightOf(m) # {}
                  /\ \E m \in CanPair : Free(m) /\ \A i \in RightOf(m) : Free(i)
                  => mdp5_mixer_assign(c, 0, TRUE).ok
<1> DEFINE CanPair == {m \in Mixers : "PAIR" \in Chip.lm[m].caps}
           RightOf(m) == {i \in Mixers : Chip.lm[i].id = lm_right_pair[Chip.lm[m].id + 1]}
           Unused(m) == owner[m] = 0 /\ "DISPLAY" \in Chip.lm[m].caps
<1>1. ASSUME NEW m \in Mixers, Unused(m)
      PROVE  mdp5_mixer_assign(c, 0, FALSE).ok
    <2> DEFINE Reach == InReach(c, Display)
               Free == {i \in Reach : FALSE => owner[get_right_pair_idx(i)] = 0}
               Pairable == {i \in Free : "PAIR" \in Chip.lm[i].caps}
    <2>1. m \in Free /\ Free \subseteq Mixers /\ Pairable \subseteq Free
        BY <1>1 DEF InReach, Display
    <2>2. Free \subseteq 1..MaxMixers /\ Pairable \subseteq 1..MaxMixers /\ 0 \notin Mixers
        BY <2>1, MixersFew DEF Known
    <2>3. SetMin(Free) # 0 /\ (Pairable # {} => SetMax(Pairable) # 0)
        <3> HIDE DEF Free, Pairable
        <3>1. SetMin(Free) \in Free /\ (Pairable # {} => SetMax(Pairable) \in Pairable)
            BY <2>1, <2>2, SetMaxIn, SetMinIn
        <3> QED BY <2>1, <2>2, <3>1
    <2> QED BY <2>1, <2>3 DEF mdp5_mixer_assign
<1>2. ASSUME \A m \in CanPair : RightOf(m) # {},
             NEW m \in CanPair, Unused(m), \A i \in RightOf(m) : Unused(i)
      PROVE  mdp5_mixer_assign(c, 0, TRUE).ok
    <2> DEFINE Reach == InReach(c, Paired)
               Free == {i \in Reach : TRUE => owner[get_right_pair_idx(i)] = 0}
               Pairable == {i \in Free : "PAIR" \in Chip.lm[i].caps}
    <2>1. \A i \in CanPair : get_right_pair_idx(i) # 0 /\ get_right_pair_idx(i) \in RightOf(i)
        <3> TAKE i \in CanPair
        <3>1. RightOf(i) # {} /\ RightOf(i) \subseteq 1..MaxMixers /\ 0 \notin RightOf(i)
            BY <1>2, MixersFew DEF Known
        <3>2. get_right_pair_idx(i) = SetMin(RightOf(i))
            BY <3>1 DEF get_right_pair_idx
        <3> HIDE DEF RightOf
        <3>3. SetMin(RightOf(i)) \in RightOf(i)
            BY <3>1, SetMinIn
        <3> QED BY <3>1, <3>2, <3>3
    <2>2. Reach \subseteq CanPair /\ m \in Reach
        BY <1>2 DEF InReach, Paired
    <2>3. m \in Free /\ Free \subseteq CanPair /\ Pairable = Free
        BY <1>2, <2>1, <2>2
    <2>4. Free \subseteq 1..MaxMixers /\ 0 \notin Mixers
        BY <2>3, MixersFew DEF Known
    <2>5. SetMax(Free) \in CanPair /\ SetMax(Free) # 0 /\ get_right_pair_idx(SetMax(Free)) # 0
        <3>1. SetMax(Free) \in Free
            <4> HIDE DEF Free
            <4> QED BY <2>3, <2>4, SetMaxIn
        <3> QED BY <2>1, <2>3, <2>4, <3>1
    <2>6. ~ \E i \in Reach : get_right_pair_idx(i) = 0
        BY <2>1, <2>2
    <2>7. Pairable # {} /\ SetMax(Pairable) # 0
        BY <2>3, <2>5
    <2>8. Free # {}
        BY <2>3
    <2> QED BY <2>5, <2>6, <2>7, <2>8 DEF mdp5_mixer_assign
<1> QED BY <1>1, <1>2

LEMMA JoinedPaired ==
    ASSUME IInv, SInv, Routed, AllJoined
    PROVE  MixersPaired
<1>1. ASSUME NEW c \in Crtcs
      PROVE  /\ kms.phase = "up" /\ RoutedState(cs[c]) /\ Joined(cs[c])
             /\ cs[c].mixer \in {0} \union Mixers
             /\ cs[c].r_mixer # 0 => cs[c].mixer # 0
             /\ Known
    <2>1. kms.phase = "up" /\ 0 \notin Crtcs
        BY DEF IInv, KmsShape, Crtcs
    <2> QED BY <2>1 DEF IInv, HalvesApart, Routed, AllJoined, Known, KmsShape, OwnerShape
<1>2. PairCorrect
    <2> SUFFICES ASSUME NEW c \in Crtcs
                 PROVE  /\ cs[c].mixer # 0 => "DISPLAY" \in Chip.lm[cs[c].mixer].caps
                        /\ cs[c].r_mixer # 0 => cs[c].mixer # 0
                        /\ cs[c].r_mixer # 0 => Joins(cs[c].mixer, cs[c].r_mixer)
                        /\ cs[c].cmd_mode => Chip.lm[cs[c].mixer].pp \in 0..(Chip.pp - 1)
        BY DEF PairCorrect, Joins
    <2>1. cs[c].cmd_mode => Command(cs[c].intf)
        BY <1>1 DEF RoutedState
    <2> QED BY <1>1, <2>1, CommandPingPong DEF Joined
<1>3. MixerFound
    <2>1. \A c \in Crtcs : Known
        BY <1>1
    <2> QED BY <2>1, AssignFinds DEF MixerFound
<1> QED BY <1>2, <1>3 DEF MixersPaired

(* A CRTC gets what mdp5_mixer_assign() can give it, mixers that drive a     *)
(* display and can be joined, through all commits of all CRTCs.              *)
THEOREM PairsCorrect ==
    ASSUME "mixers" \notin Switches
    PROVE  Spec => []MixersPaired
<1> DEFINE Inv == IInv /\ SInv /\ Routed /\ AllJoined
<1>1. Init => Inv
    <2>1. Init => board \in Boards /\ kms = NoKms("none")
        BY DEF Init
    <2>2. kms = NoKms("none") => IInv
        BY NoCrtcs
    <2>3. kms = NoKms("none") => kms.phase # "up" /\ Crtcs = {}
        BY DEF NoKms, Crtcs
    <2> QED BY <2>1, <2>2, <2>3 DEF SInv, EncodersKnown, Routed, AllJoined
<1>2. Inv /\ [Next]_vars => Inv'
    BY NextInv, KnownNext, RoutedNext, JoinedNext
<1>3. Inv => MixersPaired
    BY JoinedPaired
<1> QED BY <1>1, <1>2, <1>3, PTL DEF Spec

-------------------------------------------------------------------------------
(* Encoders, interfaces and CTLs of what is shown do not meet.               *)

LEMMA EncoderFacts ==
    ASSUME SInv, kms.phase = "up", NEW e \in Encoders
    PROVE  /\ e # 0 /\ CtlOf(e) # 0 /\ CtlOf(e) = kms.encoders[e].ctl /\ CtlOf(e) \in Nat
           /\ Num(e) \in 0..4
           /\ kms.encoders[e].type = Chip.connect[Num(e) + 1]
           /\ kms.encoders[e].type \in {"DSI", "HDMI"}
           /\ IsCmd(e) => board.cmd
           /\ \A f \in Encoders \ {e} : Num(e) # Num(f) /\ CtlOf(e) # CtlOf(f)
<1>1. \A f \in Encoders : f # 0
    BY EncodersCount
<1>2. Encoder(board, Chip, kms.encoders[e]) /\ Apart(kms.encoders)
    BY DEF SInv, EncodersKnown
<1>3. /\ Num(e) \in 0..4 /\ kms.encoders[e].type = Chip.connect[Num(e) + 1]
      /\ kms.encoders[e].type \in {"DSI", "HDMI"}
      /\ IsCmd(e) => board.cmd
    BY <1>2 DEF Encoder, Num, IsCmd
<1>4. CtlOf(e) = kms.encoders[e].ctl /\ kms.encoders[e].ctl \in Nat \ {0}
    BY <1>1, <1>2 DEF Encoder, CtlOf, MaxMixers
<1>5. \A f \in Encoders \ {e} : Num(e) # Num(f) /\ CtlOf(e) # CtlOf(f)
    BY <1>1, <1>2 DEF Apart, Encoders, Num, CtlOf
<1> QED BY <1>1, <1>3, <1>4, <1>5

(* The interface a split display borrows is the second link of its panel.    *)
LEMMA SlaveFacts ==
    ASSUME SInv, kms.phase = "up", NEW e \in Encoders, Slave(e) # 0
    PROVE  /\ Slave(e) \in Encoders \ Displays
           /\ Num(e) = 1 /\ Num(Slave(e)) = 2 /\ ~IsCmd(e)
<1>1. mdp5_encoder_is_split_master(e) /\ mdp5_encoder_find_intf(2) # 0
      /\ Slave(e) = mdp5_encoder_find_intf(2)
    BY DEF Slave
<1> DEFINE Found == {f \in Encoders : kms.encoders[f].num = 2}
<1>2. Found # {} /\ Slave(e) = SetMin(Found)
    BY <1>1 DEF mdp5_encoder_find_intf
<1>3. PICK f \in Found : TRUE
    BY <1>2
<1>4. f \in Encoders /\ Num(f) = 2 /\ f \in Nat
    BY <1>3, EncodersCount DEF Num
<1>5. Found = {f}
    <2>1. \A g \in Found : g \in Encoders /\ Num(g) = Num(f)
        BY <1>4 DEF Num
    <2>2. \A g \in Found : g = f
        <3> HIDE DEF Found
        <3> QED BY <1>4, <2>1, EncoderFacts
    <2> QED BY <1>3, <2>2
<1>6. Slave(e) = f
    <2>1. SetMin({f}) = f
        BY <1>4 DEF SetMin
    <2> QED BY <1>2, <1>5, <2>1
<1>7. Num(e) = 1 /\ board.bonded /\ ~board.cmd
    BY <1>1, BoardsAssumption DEF mdp5_encoder_is_split_master, Num, SInv
<1>8. ~IsCmd(e)
    BY <1>7, EncoderFacts
<1>9. f \notin Displays
    <2>1. kms.encoders[f].type = Chip.connect[3] /\ kms.encoders[f].type \in {"DSI", "HDMI"}
        BY <1>4, EncoderFacts
    <2>2. kms.encoders[f].type = "DSI" /\ Chip.connect[3] = "DSI" /\ Chip.connect[2] = "DSI"
        BY <2>1 DEF SInv, EncodersKnown, ChipWires
    <2>3. {i \in DsiIntfs(Chip) : i < 2} = {1}
        BY <2>2 DEF DsiIntfs, SInv, EncodersKnown, ChipWires
    <2>4. Cardinality({1}) = 1
        BY FS_Singleton
    <2>5. get_dsi_id_from_intf(Chip, 2) = 1
        BY <2>3, <2>4 DEF get_dsi_id_from_intf
    <2> QED BY <1>4, <1>7, <2>2, <2>5 DEF Displays, Connected, Num
<1> QED BY <1>4, <1>6, <1>7, <1>8, <1>9

(* Interfaces and CTLs a display takes.                                      *)
TakenIntfs(e) == {Num(f) : f \in {e, Slave(e)} \ {0}}

TakenCtls(e) == {CtlOf(f) : f \in {e, Slave(e)} \ {0}}

LEMMA TakenApart ==
    ASSUME SInv, kms.phase = "up", NEW e \in Displays, NEW f \in Displays, e # f
    PROVE  /\ TakenIntfs(e) \intersect TakenIntfs(f) = {}
           /\ TakenCtls(e) \intersect TakenCtls(f) = {}
           /\ 0 \notin TakenCtls(e)
           /\ Slave(e) = 0 \/ Slave(f) = 0
<1>1. /\ \A g \in {e, Slave(e)} \ {0} : g \in Encoders
      /\ \A g \in {f, Slave(f)} \ {0} : g \in Encoders
    BY SlaveFacts DEF Displays
<1>2. Slave(e) = 0 \/ Slave(f) = 0
    BY SlaveFacts, EncoderFacts DEF Displays
<1>3. ({e, Slave(e)} \ {0}) \intersect ({f, Slave(f)} \ {0}) = {}
    BY <1>2, SlaveFacts DEF Displays
<1>4. \A g, h \in Encoders : g # h => Num(g) # Num(h) /\ CtlOf(g) # CtlOf(h)
    BY EncoderFacts
<1>5. \A g \in Encoders : CtlOf(g) # 0
    BY EncoderFacts
<1> QED BY <1>1, <1>2, <1>3, <1>4, <1>5 DEF TakenIntfs, TakenCtls

-------------------------------------------------------------------------------
(* The tail of a commit.                                                     *)

(* The encoder that is on for a CRTC: the old one until it is disabled, the  *)
(* new one from when it is enabled.                                          *)
Active(c) ==
    CASE tail[c].step = "idle" -> cs[c].enc
      [] tail[c].step = "disable" -> tail[c].enc
      [] tail[c].step = "enable" -> 0

(* The new state of CRTC c is taken for the old one where encoder e is       *)
(* disabled: it says the same of what there is to undo.                      *)
Undoes(s, e) ==
    \/ s.intf = e
    \/ Slave(s.intf) = 0 /\ ~Command(s.intf) /\ Slave(e) = 0 /\ ~IsCmd(e)

TailShape(c) ==
    /\ tail[c] \in [step : {"idle", "disable", "enable"}, enc : {0} \union Displays]
    /\ tail[c].step = "idle" => tail[c].enc = 0
    /\ tail[c].step = "disable" /\ tail[c].enc # 0 => Undoes(cs[c], tail[c].enc)
    /\ irqs[c] = IF Active(c) = 0 THEN {} ELSE Handlers(cs[c])

Tails ==
    kms.phase = "up" =>
        /\ DOMAIN tail = Crtcs /\ DOMAIN irqs = Crtcs
        /\ \A c \in Crtcs : TailShape(c)

Holds(c) == {cs[c].enc, tail[c].enc} \ {0}

(* No encoder is in the hands of two CRTCs.                                  *)
HoldersApart ==
    kms.phase = "up" => \A c, d \in Crtcs : c # d => Holds(c) \intersect Holds(d) = {}

(* What is on is on for a CRTC.                                              *)
OnForOne ==
    kms.phase = "up" =>
        /\ on \in [Encoders -> BOOLEAN]
        /\ \A e \in Encoders : on[e] => \E c \in Crtcs : Active(c) = e

TInv == Tails /\ HoldersApart /\ OnForOne

LEMMA ActiveHeld ==
    ASSUME kms.phase = "up", Tails, Routed, NEW c \in Crtcs
    PROVE  Active(c) \in {0} \union Displays /\ Active(c) \in {0} \union Holds(c)
<1>1. TailShape(c) /\ RoutedState(cs[c])
    BY DEF Tails, Routed
<1>2. tail[c].step \in {"idle", "disable", "enable"} /\ tail[c].enc \in {0} \union Displays
    BY <1>1 DEF TailShape
<1>3. cs[c].enc \in {0} \union Displays
    BY <1>1 DEF RoutedState
<1> QED BY <1>2, <1>3 DEF Active, Holds

LEMMA ActivesApart ==
    ASSUME kms.phase = "up", TInv, Routed, NEW c \in Crtcs, NEW d \in Crtcs, c # d,
           Active(c) # 0
    PROVE  Active(c) # Active(d) /\ Active(c) \notin Holds(d)
<1>1. Holds(c) \intersect Holds(d) = {}
    BY DEF TInv, HoldersApart
<1>2. Active(c) \in Holds(c) /\ Active(d) \in {0} \union Holds(d)
    BY ActiveHeld DEF TInv
<1> QED BY <1>1, <1>2

LEMMA TailKept ==
    ASSUME Standing, NEW c,
           /\ tail'[c] \in [step : {"idle", "disable", "enable"}, enc : {0} \union Displays]
           /\ tail'[c].step = "idle" => tail'[c].enc = 0
           /\ tail'[c].step = "disable" /\ tail'[c].enc # 0 => Undoes(cs'[c], tail'[c].enc)
           /\ irqs'[c] = IF Active(c)' = 0 THEN {} ELSE Handlers(cs'[c])
    PROVE  TailShape(c)'
<1>1. Displays' = Displays
    BY StandingKeeps
<1>2. Undoes(cs'[c], tail'[c].enc) => Undoes(cs[c], tail[c].enc)'
    BY DEF Standing, Undoes, Slave, Command, IsCmd, Encoders, mdp5_encoder_is_split_master,
           mdp5_encoder_find_intf
<1> QED BY <1>1, <1>2 DEF TailShape, Handlers

(* The check of a commit leaves alone what the tail before it has turned on. *)
LEMMA CommitActive ==
    ASSUME IInv, SInv, Routed, TInv, "mixers" \notin Switches, NEW c \in Crtcs, Commit(c)
    PROVE  /\ kms.phase = "up" /\ Standing /\ UNCHANGED <<users, on, irqs, vsync, live, hw>>
           /\ \A d \in Crtcs \ {c} : cs'[d] = cs[d] /\ tail'[d] = tail[d]
           /\ DOMAIN cs' = Crtcs /\ DOMAIN tail' = Crtcs
           /\ tail[c].step = "idle" /\ tail'[c].step \in {"idle", "disable"}
           /\ \A d \in Crtcs : Active(d)' = Active(d)
           /\ \A d \in Crtcs : Active(d) # 0 => cs'[d].mixer = cs[d].mixer
<1>1. PICK r \in Requests(c) :
        /\ AtomicCheck(c, r).ok
        /\ cs' = [cs EXCEPT ![c] = AtomicCheck(c, r).state]
        /\ tail' = [tail EXCEPT ![c] = IF Modeset(c, r)
                                       THEN [step |-> "disable", enc |-> cs[c].enc]
                                       ELSE Idle]
    BY DEF Commit
<1>2. kms.phase = "up" /\ Standing /\ UNCHANGED <<users, on, irqs, vsync, live, hw>>
    BY DEF Commit, IInv, KmsShape, Crtcs, Standing
<1>3. DOMAIN cs = Crtcs /\ DOMAIN tail = Crtcs /\ DOMAIN cs[c] = StateFields /\ tail[c] = Idle
    BY <1>2 DEF IInv, OwnerShape, TInv, Tails, Commit
<1>4. /\ cs'[c].enc = r.enc /\ cs'[c].mode = r.mode
    BY <1>1, <1>3, CheckRoutes DEF Checked
<1>5. /\ \A d \in Crtcs \ {c} : cs'[d] = cs[d] /\ tail'[d] = tail[d]
      /\ DOMAIN cs' = Crtcs /\ DOMAIN tail' = Crtcs
      /\ tail'[c] = IF Modeset(c, r) THEN [step |-> "disable", enc |-> cs[c].enc] ELSE Idle
    BY <1>1, <1>3
<1>6. tail[c].step = "idle" /\ tail'[c].step \in {"idle", "disable"}
    BY <1>3, <1>5 DEF Idle
<1>7. Active(c)' = Active(c)
    <2>1. Active(c) = cs[c].enc
        BY <1>6 DEF Active
    <2>2. CASE Modeset(c, r)
        <3>1. tail'[c].step = "disable" /\ tail'[c].enc = cs[c].enc
            BY <1>5, <2>2
        <3> QED BY <2>1, <3>1 DEF Active
    <2>3. CASE ~Modeset(c, r)
        <3>1. tail'[c].step = "idle" /\ cs'[c].enc = cs[c].enc
            BY <1>4, <1>5, <2>3 DEF Idle, Modeset
        <3> QED BY <2>1, <3>1 DEF Active
    <2> QED BY <2>2, <2>3
<1>8. \A d \in Crtcs \ {c} : Active(d)' = Active(d)
    BY <1>5 DEF Active
<1>9. Active(c) # 0 => cs'[c].mixer = cs[c].mixer
    <2>1. Active(c) = cs[c].enc
        BY <1>6 DEF Active
    <2>2. cs[c].enc # 0 => cs[c].mixer # 0
        BY <1>2 DEF Routed, RoutedState, Borne
    <2> QED BY <2>1, <2>2, CommitMixers DEF SameMixers
<1> QED BY <1>2, <1>5, <1>6, <1>7, <1>8, <1>9

LEMMA CommitTails ==
    ASSUME IInv, SInv, Routed, TInv, "mixers" \notin Switches, "display" \notin Switches,
           NEW c \in Crtcs, Commit(c)
    PROVE  TInv'
<1>1. PICK r \in Requests(c) :
        /\ AtomicCheck(c, r).ok
        /\ Regular(c, r, AtomicCheck(c, r).state)
        /\ cs' = [cs EXCEPT ![c] = AtomicCheck(c, r).state]
        /\ tail' = [tail EXCEPT ![c] = IF Modeset(c, r)
                                       THEN [step |-> "disable", enc |-> cs[c].enc]
                                       ELSE Idle]
    BY DEF Commit
<1>2. /\ kms.phase = "up" /\ Standing /\ UNCHANGED <<users, on, irqs, vsync, live, hw>>
      /\ \A d \in Crtcs \ {c} : cs'[d] = cs[d] /\ tail'[d] = tail[d]
      /\ DOMAIN cs' = Crtcs /\ DOMAIN tail' = Crtcs
      /\ \A d \in Crtcs : Active(d)' = Active(d)
    BY CommitActive
<1>3. /\ Chip' = Chip /\ Crtcs' = Crtcs /\ Encoders' = Encoders /\ Displays' = Displays
    BY <1>2, StandingKeeps
<1>4. /\ DOMAIN cs = Crtcs /\ DOMAIN tail = Crtcs /\ DOMAIN cs[c] = StateFields
      /\ tail[c] = Idle
    BY <1>2 DEF IInv, OwnerShape, TInv, Tails, Commit
<1> DEFINE n == AtomicCheck(c, r).state
           e == cs[c].enc
<1>5. /\ cs'[c] = n
      /\ tail'[c] = IF Modeset(c, r) THEN [step |-> "disable", enc |-> e] ELSE Idle
    BY <1>1, <1>4
<1>6. Checked(n, c, r) /\ RoutedState(cs[c])
    BY <1>1, <1>2, <1>4, CheckRoutes DEF Routed
<1>7. RoutedState(n)
    <2>1. 0 \notin Encoders
        BY <1>2, EncodersCount
    <2> QED BY <1>2, <1>6, <2>1, RequestShape, CheckedRouted
<1>8. n.enc = r.enc
    BY <1>6 DEF Checked
<1>9. TailShape(c) /\ tail[c].step = "idle" /\ Active(c) = e
    BY <1>2, <1>4 DEF TInv, Tails, Idle, Active
<1> HIDE DEF n
(* What the tail will undo, it finds in the new state.                       *)
<1>10. e # 0 => Undoes(n, e) /\ (n.cmd_mode <=> cs[c].cmd_mode)
    <2> SUFFICES ASSUME e # 0
                 PROVE  Undoes(n, e) /\ (n.cmd_mode <=> cs[c].cmd_mode)
        OBVIOUS
    <2>1. cs[c].intf = e
        BY <1>6 DEF RoutedState
    <2>2. CASE n.intf = e
        BY <1>6, <1>7, <2>1, <2>2 DEF Undoes, RoutedState
    <2>3. CASE n.intf # e
        <3>1. r.enc # 0 /\ r.enc # e
            BY <1>6, <1>7, <1>8, <2>1, <2>3 DEF Checked, SameRoute, RoutedState
        <3>2. Plain(cs[c]) /\ Plain(n)
            BY <1>1, <3>1 DEF Regular, n
        <3>3. /\ n.r_intf = 0 /\ ~n.cmd_mode
              /\ cs[c].r_intf = 0 /\ ~cs[c].cmd_mode
            BY <3>2 DEF Plain, IsSplit
        <3>4. Slave(n.intf) = 0 /\ ~Command(n.intf)
            BY <1>7, <3>3 DEF RoutedState
        <3>5. Slave(e) = 0 /\ ~IsCmd(e)
            BY <1>6, <2>1, <3>3 DEF RoutedState, Command
        <3> QED BY <3>3, <3>4, <3>5 DEF Undoes
    <2> QED BY <2>2, <2>3
<1>11. e \in {0} \union Displays /\ r.enc \in {0} \union Displays
    BY <1>2, <1>6, RequestShape DEF RoutedState
<1>12. \A d \in Crtcs : TailShape(d)'
    <2>1. TailShape(c)'
        <3>1. tail'[c] \in [step : {"idle", "disable", "enable"}, enc : {0} \union Displays]
            BY <1>5, <1>11 DEF Idle
        <3>2. tail'[c].step = "idle" => tail'[c].enc = 0
            BY <1>5 DEF Idle
        <3>3. tail'[c].step = "disable" /\ tail'[c].enc # 0 => Undoes(cs'[c], tail'[c].enc)
            BY <1>5, <1>10 DEF Idle
        <3>4. irqs'[c] = IF Active(c)' = 0 THEN {} ELSE Handlers(cs'[c])
            <4>1. irqs[c] = IF e = 0 THEN {} ELSE Handlers(cs[c])
                BY <1>9 DEF TailShape
            <4>2. e # 0 => Handlers(cs'[c]) = Handlers(cs[c])
                BY <1>5, <1>10 DEF Handlers
            <4>3. Active(c)' = e /\ irqs' = irqs
                BY <1>2, <1>9
            <4> HIDE DEF e
            <4> QED BY <4>1, <4>2, <4>3
        <3> QED BY <1>2, <3>1, <3>2, <3>3, <3>4, TailKept
    <2>2. ASSUME NEW d \in Crtcs \ {c}
          PROVE  TailShape(d)'
        <3>1. TailShape(d) /\ cs'[d] = cs[d] /\ tail'[d] = tail[d] /\ irqs'[d] = irqs[d]
              /\ Active(d)' = Active(d)
            BY <1>2 DEF TInv, Tails
        <3> QED BY <1>2, <3>1, TailKept DEF TailShape
    <2> QED BY <2>1, <2>2
<1>13. Tails'
    BY <1>2, <1>3, <1>12 DEF Tails, TInv
<1>14. HoldersApart'
    <2>1. Holds(c)' \subseteq Holds(c) \union {r.enc}
        <3>1. Holds(c)' \subseteq {r.enc, e} \ {0}
            BY <1>5, <1>8 DEF Holds, Idle
        <3> QED BY <3>1 DEF Holds
    <2>2. 0 \notin Holds(c)'
        BY DEF Holds
    <2>3. \A d \in Crtcs \ {c} : Holds(d)' = Holds(d)
        BY <1>2 DEF Holds
    <2>4. \A d \in Crtcs \ {c} : r.enc # 0 => r.enc \notin Holds(d)
        BY <1>2, RequestShape DEF Holds
    <2>5. \A d \in Crtcs \ {c} : Holds(c) \intersect Holds(d) = {}
        BY <1>2 DEF TInv, HoldersApart
    <2>6. \A d \in Crtcs \ {c} : Holds(c)' \intersect Holds(d)' = {}
        BY <2>1, <2>2, <2>3, <2>4, <2>5
    <2> QED BY <1>2, <1>3, <2>3, <2>6 DEF TInv, HoldersApart
<1>15. OnForOne'
    BY <1>2, <1>3 DEF TInv, OnForOne
<1> QED BY <1>13, <1>14, <1>15 DEF TInv

-------------------------------------------------------------------------------
(* Registers and clocks in terms of the encoders that are on.                *)
Running == {e \in Encoders : on[e]}

VideoNums == {Num(e) : e \in {x \in Running : ~IsCmd(x)}}

CmdRunning == {e \in Running : IsCmd(e)}

SplitOn == \E e \in Running : Slave(e) # 0

LiveCtls == UNION {TakenCtls(e) : e \in Running}

CmdCtls == {CtlOf(e) : e \in {x \in Encoders : IsCmd(x)}}

(* CRTCs whose ping-pong block times a display.                              *)
Beating == {c \in Crtcs : Active(c) # 0 /\ IsCmd(Active(c)) /\ on[Active(c)]}

PingPong(c) == Chip.lm[cs[c].mixer].pp

TearBlocks == {PingPong(c) : c \in Beating}

Enabling == {c \in Crtcs : tail[c].step = "enable"}

Handling == {c \in Crtcs : irqs[c] # {}}

Driven ==
    kms.phase = "up" =>
        /\ hw.timing = VideoNums
        /\ hw.split \in BOOLEAN /\ (hw.split <=> SplitOn)
        /\ live = LiveCtls
        /\ hw.tear = TearBlocks
        /\ hw.start \subseteq CmdCtls
        /\ \A e \in CmdRunning : CtlOf(e) \in hw.start

(* Clock and power are held once for everything that needs them.             *)
Counted ==
    kms.phase = "up" =>
        /\ vsync = Cardinality(CmdRunning)
        /\ IsFiniteSet(TearBlocks) /\ vsync = Cardinality(TearBlocks)
        /\ users = Cardinality(Enabling) + Cardinality(Handling)

LEMMA RunningSets ==
    ASSUME Standing
    PROVE  /\ VideoNums' = {Num(e) : e \in {x \in Running' : ~IsCmd(x)}}
           /\ CmdRunning' = {e \in Running' : IsCmd(e)}
           /\ SplitOn' <=> \E e \in Running' : Slave(e) # 0
           /\ LiveCtls' = UNION {TakenCtls(e) : e \in Running'}
           /\ CmdCtls' = CmdCtls
<1>1. /\ Encoders' = Encoders
      /\ \A e : /\ Num(e)' = Num(e) /\ CtlOf(e)' = CtlOf(e) /\ Slave(e)' = Slave(e)
                /\ IsCmd(e)' <=> IsCmd(e)
    BY StandingKeeps
<1>2. VideoNums' = {Num(e) : e \in {x \in Running' : ~IsCmd(x)}}
    BY DEF Standing, VideoNums, Num, IsCmd
<1>3. CmdRunning' = {e \in Running' : IsCmd(e)}
    BY <1>1 DEF CmdRunning
<1>4. SplitOn' <=> \E e \in Running' : Slave(e) # 0
    BY <1>1 DEF SplitOn
<1>5. \A e : TakenCtls(e)' = TakenCtls(e)
    BY DEF Standing, TakenCtls, CtlOf, Slave, mdp5_encoder_is_split_master,
           mdp5_encoder_find_intf, Encoders
<1>6. LiveCtls' = UNION {TakenCtls(e) : e \in Running'}
    BY <1>5 DEF LiveCtls
<1>7. CmdCtls' = CmdCtls
    BY DEF Standing, CmdCtls, CtlOf, IsCmd, Encoders
<1> QED BY <1>2, <1>3, <1>4, <1>6, <1>7

LEMMA SameRunning ==
    ASSUME Standing, Running' = Running
    PROVE  /\ VideoNums' = VideoNums /\ CmdRunning' = CmdRunning /\ (SplitOn' <=> SplitOn)
           /\ LiveCtls' = LiveCtls
    BY RunningSets DEF VideoNums, CmdRunning, SplitOn, LiveCtls

(* One encoder goes off.                                                     *)
LEMMA RunningLess ==
    ASSUME Standing, SInv, kms.phase = "up", Running \subseteq Displays, NEW e \in Running,
           Running' = Running \ {e}
    PROVE  /\ ~IsCmd(e) => VideoNums' = VideoNums \ {Num(e)} /\ CmdRunning' = CmdRunning
           /\ IsCmd(e) => VideoNums' = VideoNums /\ CmdRunning' = CmdRunning \ {e}
           /\ SplitOn' <=> SplitOn /\ Slave(e) = 0
           /\ LiveCtls' = LiveCtls \ TakenCtls(e)
<1>1. Running \subseteq Encoders
    BY DEF Running
<1>2. \A f \in Running : f # e => Num(f) # Num(e)
    BY <1>1, EncoderFacts
<1>3. ~IsCmd(e) => VideoNums' = VideoNums \ {Num(e)} /\ CmdRunning' = CmdRunning
    BY <1>2, RunningSets DEF VideoNums, CmdRunning
<1>4. IsCmd(e) => VideoNums' = VideoNums /\ CmdRunning' = CmdRunning \ {e}
    BY RunningSets DEF VideoNums, CmdRunning
<1>5. \A f \in Running : f # e =>
        (Slave(e) = 0 \/ Slave(f) = 0) /\ TakenCtls(e) \intersect TakenCtls(f) = {}
    BY TakenApart
<1>6. SplitOn' <=> SplitOn /\ Slave(e) = 0
    BY <1>5, RunningSets DEF SplitOn
<1>7. LiveCtls' = LiveCtls \ TakenCtls(e)
    BY <1>5, RunningSets DEF LiveCtls
<1> QED BY <1>3, <1>4, <1>6, <1>7

(* One encoder goes on.                                                      *)
LEMMA RunningMore ==
    ASSUME Standing, NEW e, Running' = Running \union {e}
    PROVE  /\ ~IsCmd(e) => VideoNums' = VideoNums \union {Num(e)} /\ CmdRunning' = CmdRunning
           /\ IsCmd(e) => VideoNums' = VideoNums /\ CmdRunning' = CmdRunning \union {e}
           /\ SplitOn' <=> SplitOn \/ Slave(e) # 0
           /\ LiveCtls' = LiveCtls \union TakenCtls(e)
<1>1. ~IsCmd(e) => VideoNums' = VideoNums \union {Num(e)} /\ CmdRunning' = CmdRunning
    BY RunningSets DEF VideoNums, CmdRunning
<1>2. IsCmd(e) => VideoNums' = VideoNums /\ CmdRunning' = CmdRunning \union {e}
    BY RunningSets DEF VideoNums, CmdRunning
<1>3. SplitOn' <=> SplitOn \/ Slave(e) # 0
    BY RunningSets DEF SplitOn
<1>4. LiveCtls' = LiveCtls \union TakenCtls(e)
    BY RunningSets DEF LiveCtls
<1> QED BY <1>1, <1>2, <1>3, <1>4

(* Each command-mode display has a ping-pong block of its own.               *)
LEMMA PingPongApart ==
    ASSUME IInv, SInv, Routed, AllJoined, NEW c \in Crtcs, NEW d \in Crtcs, c # d,
           Command(cs[c].intf), Command(cs[d].intf)
    PROVE  PingPong(c) # PingPong(d)
<1>1. kms.phase = "up"
    BY DEF IInv, KmsShape, Crtcs
<1>2. /\ cs[c].mixer \in {0} \union Mixers /\ cs[d].mixer \in {0} \union Mixers
      /\ RoutedState(cs[c]) /\ Joined(cs[c]) /\ RoutedState(cs[d]) /\ Joined(cs[d])
    BY <1>1 DEF IInv, HalvesApart, Routed, AllJoined
<1>3. /\ cs[c].mixer \in FrontMixers(Chip) /\ cs[c].mixer # 0 /\ PingPongs(Chip)
      /\ cs[d].mixer \in FrontMixers(Chip) /\ cs[d].mixer # 0
    BY <1>1, <1>2, CommandPingPong
<1>4. owner[cs[c].mixer] = c /\ owner[cs[d].mixer] = d
    BY <1>3 DEF IInv, TableAgrees, MixersOf
<1> QED BY <1>3, <1>4 DEF PingPongs, PingPong

LEMMA BeatingCommand ==
    ASSUME kms.phase = "up", Tails, Routed, NEW c \in Crtcs, Active(c) # 0, IsCmd(Active(c))
    PROVE  cs[c].intf = Active(c) /\ Command(cs[c].intf)
<1>1. TailShape(c) /\ RoutedState(cs[c])
    BY DEF Tails, Routed
<1>2. CASE tail[c].step = "idle"
    BY <1>1, <1>2 DEF Active, RoutedState, Command
<1>3. CASE tail[c].step = "disable"
    <2>1. Active(c) = tail[c].enc
        BY <1>3 DEF Active
    <2> QED BY <1>1, <1>3, <2>1 DEF TailShape, Undoes, Command
<1>4. CASE tail[c].step = "enable"
    BY <1>4 DEF Active
<1> QED BY <1>1, <1>2, <1>3, <1>4 DEF TailShape

LEMMA TearSets ==
    ASSUME Standing, \A d \in Beating' : cs'[d].mixer = cs[d].mixer
    PROVE  TearBlocks' = {PingPong(d) : d \in Beating'}
<1>1. Chip' = Chip
    BY StandingKeeps
<1> QED BY <1>1 DEF TearBlocks, PingPong

(* One ping-pong block stops.                                                *)
LEMMA TearLess ==
    ASSUME Standing, cs' = cs, IInv, SInv, Routed, Tails, AllJoined, NEW c \in Beating,
           Beating' = Beating \ {c}
    PROVE  /\ TearBlocks' = TearBlocks \ {PingPong(c)}
           /\ PingPong(c) \in TearBlocks
<1>1. kms.phase = "up"
    BY DEF Beating, IInv, KmsShape, Crtcs
<1>2. \A d \in Beating : Command(cs[d].intf) /\ d \in Crtcs
    BY <1>1, BeatingCommand DEF Beating
<1>3. \A d \in Beating : d # c => PingPong(d) # PingPong(c)
    BY <1>2, PingPongApart
<1>4. TearBlocks' = {PingPong(d) : d \in Beating'}
    BY TearSets
<1> QED BY <1>3, <1>4 DEF TearBlocks

(* One more starts.                                                          *)
LEMMA TearMore ==
    ASSUME Standing, cs' = cs, IInv, SInv, Routed, Tails, AllJoined, NEW c \in Crtcs \ Beating,
           Command(cs[c].intf), Beating' = Beating \union {c}
    PROVE  /\ TearBlocks' = TearBlocks \union {PingPong(c)}
           /\ PingPong(c) \notin TearBlocks
<1>1. kms.phase = "up"
    BY DEF Beating, IInv, KmsShape, Crtcs
<1>2. \A d \in Beating : Command(cs[d].intf) /\ d \in Crtcs
    BY <1>1, BeatingCommand DEF Beating
<1>3. \A d \in Beating : PingPong(d) # PingPong(c)
    BY <1>2, PingPongApart
<1>4. TearBlocks' = {PingPong(d) : d \in Beating'}
    BY TearSets
<1> QED BY <1>3, <1>4 DEF TearBlocks

-------------------------------------------------------------------------------
(* The first half of a tail.                                                 *)

(* All but the registers and the counts.                                     *)
CInv == IInv /\ SInv /\ Routed /\ AllJoined /\ TInv

LEMMA UpWithCrtcs == ASSUME IInv, NEW c \in Crtcs PROVE kms.phase = "up"
    BY DEF IInv, KmsShape, Crtcs

(* Only displays are on.                                                     *)
LEMMA RunningDisplays ==
    ASSUME kms.phase = "up", SInv, Routed, TInv
    PROVE  Running \subseteq Displays
<1> SUFFICES ASSUME NEW e \in Running PROVE e \in Displays
    OBVIOUS
<1>1. PICK c \in Crtcs : Active(c) = e
    BY DEF Running, TInv, OnForOne
<1>2. e # 0
    BY EncodersCount DEF Running
<1> QED BY <1>1, <1>2, ActiveHeld DEF TInv

LEMMA DisableShape ==
    ASSUME CInv, NEW c \in Crtcs, Disable(c)
    PROVE  /\ Standing /\ cs' = cs /\ tail[c].step = "disable"
           /\ DOMAIN tail' = Crtcs /\ DOMAIN irqs' = Crtcs
           /\ tail'[c].step = "enable" /\ tail'[c].enc = tail[c].enc
           /\ tail'[c] \in [step : {"idle", "disable", "enable"}, enc : {0} \union Displays]
           /\ \A d \in Crtcs \ {c} : tail'[d] = tail[d] /\ irqs'[d] = irqs[d]
           /\ irqs'[c] = {}
           /\ Active(c) = tail[c].enc /\ Active(c)' = 0
           /\ \A d \in Crtcs \ {c} : Active(d)' = Active(d)
<1>1. kms.phase = "up" /\ Standing /\ cs' = cs /\ tail[c].step = "disable"
    BY UpWithCrtcs DEF Disable, Standing, CInv
<1>2. DOMAIN tail = Crtcs /\ DOMAIN irqs = Crtcs /\ TailShape(c)
    BY <1>1 DEF CInv, TInv, Tails
<1>3. tail[c] \in [step : {"idle", "disable", "enable"}, enc : {0} \union Displays]
    BY <1>2 DEF TailShape
<1>4. /\ DOMAIN tail' = Crtcs /\ \A d \in Crtcs \ {c} : tail'[d] = tail[d]
      /\ tail'[c] = [tail[c] EXCEPT !.step = "enable"]
    BY <1>2 DEF Disable
<1>5. /\ tail'[c].step = "enable" /\ tail'[c].enc = tail[c].enc
      /\ tail'[c] \in [step : {"idle", "disable", "enable"}, enc : {0} \union Displays]
    BY <1>3, <1>4
<1>6. Active(c) = tail[c].enc /\ Active(c)' = 0
    BY <1>1, <1>5 DEF Active
<1>7. irqs[c] = IF tail[c].enc = 0 THEN {} ELSE Handlers(cs[c])
    BY <1>2, <1>6 DEF TailShape
<1>8. DOMAIN irqs' = Crtcs /\ irqs'[c] = {} /\ \A d \in Crtcs \ {c} : irqs'[d] = irqs[d]
    <2>1. CASE tail[c].enc = 0
        <3>1. irqs' = irqs
            BY <2>1 DEF Disable
        <3> QED BY <1>2, <1>7, <2>1, <3>1
    <2>2. CASE tail[c].enc # 0
        <3>1. irqs' = [irqs EXCEPT ![c] = @ \ Handlers(cs[c])]
            BY <2>2 DEF Disable
        <3> QED BY <1>2, <1>7, <2>2, <3>1
    <2> QED BY <2>1, <2>2
<1>9. \A d \in Crtcs \ {c} : Active(d)' = Active(d)
    BY <1>1, <1>4 DEF Active
<1> QED BY <1>1, <1>4, <1>5, <1>6, <1>8, <1>9

(* What is disabled is off.                                                  *)
LEMMA DisableOn ==
    ASSUME CInv, NEW c \in Crtcs, Disable(c)
    PROVE  /\ on' \in [Encoders -> BOOLEAN]
           /\ Running' = Running \ {tail[c].enc}
           /\ \A e \in Encoders \ {tail[c].enc} : on'[e] = on[e]
<1>1. kms.phase = "up" /\ Standing
    BY UpWithCrtcs DEF Disable, Standing, CInv
<1>2. Encoders' = Encoders /\ on \in [Encoders -> BOOLEAN] /\ 0 \notin Encoders
    BY <1>1, StandingKeeps, EncodersCount DEF CInv, TInv, OnForOne
<1>3. tail[c].enc \in {0} \union Encoders
    BY <1>1 DEF CInv, TInv, Tails, TailShape, Displays
<1>4. \/ on' = on /\ (tail[c].enc = 0 \/ ~on[tail[c].enc])
      \/ tail[c].enc # 0 /\ on' = [on EXCEPT ![tail[c].enc] = FALSE]
    BY DEF Disable, mdp5_encoder_disable
<1> QED BY <1>2, <1>3, <1>4 DEF Running

LEMMA DisableTails == ASSUME CInv, NEW c \in Crtcs, Disable(c) PROVE TInv'
<1>1. kms.phase = "up"
    BY UpWithCrtcs DEF CInv
<1>2. /\ Standing /\ cs' = cs /\ tail[c].step = "disable"
      /\ DOMAIN tail' = Crtcs /\ DOMAIN irqs' = Crtcs
      /\ tail'[c].step = "enable" /\ tail'[c].enc = tail[c].enc
      /\ tail'[c] \in [step : {"idle", "disable", "enable"}, enc : {0} \union Displays]
      /\ \A d \in Crtcs \ {c} : tail'[d] = tail[d] /\ irqs'[d] = irqs[d]
      /\ irqs'[c] = {}
      /\ Active(c) = tail[c].enc /\ Active(c)' = 0
      /\ \A d \in Crtcs \ {c} : Active(d)' = Active(d)
    BY DisableShape
<1>3. Crtcs' = Crtcs /\ Encoders' = Encoders
    BY <1>2, StandingKeeps
<1>4. TailShape(c)'
    BY <1>2, TailKept
<1>5. ASSUME NEW d \in Crtcs \ {c}
      PROVE  TailShape(d)'
    <2>1. TailShape(d) /\ cs'[d] = cs[d] /\ tail'[d] = tail[d] /\ irqs'[d] = irqs[d]
          /\ Active(d)' = Active(d)
        BY <1>1, <1>2 DEF CInv, TInv, Tails
    <2> QED BY <1>2, <2>1, TailKept DEF TailShape
<1>6. Tails'
    BY <1>2, <1>3, <1>4, <1>5 DEF Tails
<1>7. HoldersApart'
    <2>1. \A d \in Crtcs : Holds(d)' = Holds(d)
        BY <1>2 DEF Holds
    <2> QED BY <1>1, <1>3, <2>1 DEF HoldersApart, CInv, TInv
<1>8. OnForOne'
    <2>1. /\ on' \in [Encoders -> BOOLEAN]
          /\ \A e \in Encoders \ {tail[c].enc} : on'[e] = on[e]
          /\ Running' = Running \ {tail[c].enc}
        BY DisableOn
    <2>2. \A e \in Encoders : on'[e] => e # tail[c].enc /\ on[e]
        BY <1>3, <2>1 DEF Running
    <2>3. \A e \in Encoders : on[e] => \E d \in Crtcs : Active(d) = e
        BY <1>1 DEF CInv, TInv, OnForOne
    <2>4. \A e \in Encoders : on'[e] => \E d \in Crtcs : Active(d)' = e
        BY <1>2, <2>2, <2>3
    <2> QED BY <1>3, <2>1, <2>4 DEF OnForOne
<1> QED BY <1>6, <1>7, <1>8 DEF TInv

LEMMA DisableBeating ==
    ASSUME CInv, NEW c \in Crtcs, Disable(c)
    PROVE  Beating' = Beating \ {c}
<1>1. kms.phase = "up"
    BY UpWithCrtcs DEF CInv
<1>2. Standing /\ Active(c) = tail[c].enc /\ Active(c)' = 0
      /\ \A d \in Crtcs \ {c} : Active(d)' = Active(d)
    BY DisableShape
<1>3. Crtcs' = Crtcs /\ \A e : IsCmd(e)' <=> IsCmd(e)
    BY <1>2, StandingKeeps
<1>4. \A e \in Encoders \ {tail[c].enc} : on'[e] = on[e]
    BY DisableOn
<1>5. ASSUME NEW d \in Crtcs \ {c}, Active(d) # 0
      PROVE  Active(d) \in Encoders \ {tail[c].enc} /\ (IsCmd(Active(d))' <=> IsCmd(Active(d)))
    <2>1. Active(d) \in Encoders
        BY <1>1, <1>5, ActiveHeld DEF CInv, TInv, Displays
    <2>2. Active(d) # Active(c)
        BY <1>1, <1>5, ActivesApart DEF CInv
    <2>3. IsCmd(Active(d))' <=> IsCmd(Active(d))
        BY <1>2 DEF IsCmd, Standing
    <2> QED BY <1>2, <2>1, <2>2, <2>3
<1>6. c \notin Beating'
    BY <1>2 DEF Beating
<1>7. ASSUME NEW d \in Crtcs \ {c}
      PROVE  d \in Beating' <=> d \in Beating
    <2>1. CASE Active(d) = 0
        BY <1>2, <2>1 DEF Beating
    <2>2. CASE Active(d) # 0
        <3>1. on'[Active(d)] = on[Active(d)]
            BY <1>4, <1>5, <2>2
        <3> QED BY <1>2, <1>3, <1>5, <2>2, <3>1 DEF Beating
    <2> QED BY <2>1, <2>2
<1>8. Beating \subseteq Crtcs /\ Beating' \subseteq Crtcs
    BY <1>3 DEF Beating
<1> QED BY <1>6, <1>7, <1>8

-------------------------------------------------------------------------------
HwFields == {"timing", "split", "out", "program", "sel", "op", "pp", "tear", "start"}

(* Disabling goes by the new state and still meets the CTLs of encoder e.    *)
LEMMA UndoneCtls ==
    ASSUME SInv, kms.phase = "up", NEW e \in Displays, NEW s, RoutedState(s), Undoes(s, e)
    PROVE  CtlsOf(e, s) = TakenCtls(e) /\ (IsSplit(s) <=> Slave(e) # 0)
<1>1. e \in Encoders /\ e # 0 /\ CtlOf(e) = kms.encoders[e].ctl
    BY EncoderFacts DEF Displays
<1>2. s.r_intf = Slave(s.intf) /\ s.r_ctl = CtlOf(s.r_intf)
    BY DEF RoutedState
<1>3. IsSplit(s) <=> Slave(e) # 0
    BY <1>2 DEF IsSplit, Undoes
<1>4. Slave(e) # 0 => s.r_ctl = CtlOf(Slave(e))
    BY <1>2 DEF Undoes
<1>5. TakenCtls(e) = {CtlOf(e)} \union (IF Slave(e) # 0 THEN {CtlOf(Slave(e))} ELSE {})
    BY <1>1 DEF TakenCtls
<1> QED BY <1>1, <1>3, <1>4, <1>5 DEF CtlsOf

LEMMA DisableSame ==
    ASSUME CInv, DOMAIN hw = HwFields, Driven, NEW c \in Crtcs, Disable(c),
           tail[c].enc \notin Running
    PROVE  /\ DOMAIN hw' = HwFields /\ Driven'
           /\ vsync' = vsync /\ CmdRunning' = CmdRunning /\ TearBlocks' = TearBlocks
<1>1. kms.phase = "up" /\ Standing /\ cs' = cs
    BY UpWithCrtcs, DisableShape DEF CInv
<1>2. tail[c].enc \in {0} \union Encoders
    BY <1>1 DEF CInv, TInv, Tails, TailShape, Displays
<1>3. UNCHANGED <<hw, vsync, live>>
    BY <1>2 DEF Disable, mdp5_encoder_disable, Running
<1>4. Running' = Running
    BY DisableOn
<1>5. /\ VideoNums' = VideoNums /\ CmdRunning' = CmdRunning /\ (SplitOn' <=> SplitOn)
      /\ LiveCtls' = LiveCtls /\ CmdCtls' = CmdCtls
      /\ \A e : CtlOf(e)' = CtlOf(e)
    BY <1>1, <1>4, SameRunning, RunningSets, StandingKeeps
<1>6. Beating' = Beating
    <2>1. c \notin Beating
        <3>1. Active(c) = tail[c].enc
            BY DisableShape
        <3> QED BY <1>2, <3>1, ActiveHeld DEF Beating, Running, CInv
    <2> QED BY <2>1, DisableBeating
<1>7. TearBlocks' = TearBlocks
    BY <1>1, <1>6, TearSets DEF TearBlocks
<1> QED BY <1>1, <1>3, <1>5, <1>7 DEF Driven

LEMMA DisableVideo ==
    ASSUME CInv, DOMAIN hw = HwFields, Driven, NEW c \in Crtcs, Disable(c),
           tail[c].enc \in Running, ~IsCmd(tail[c].enc)
    PROVE  /\ DOMAIN hw' = HwFields /\ Driven'
           /\ vsync' = vsync /\ CmdRunning' = CmdRunning /\ TearBlocks' = TearBlocks
<1> DEFINE e == tail[c].enc
           s == cs[c]
<1>1. /\ kms.phase = "up" /\ Standing /\ cs' = cs /\ Active(c) = e
      /\ tail[c].step = "disable"
    BY UpWithCrtcs, DisableShape DEF CInv
<1>2. Running \subseteq Displays /\ e \in Running /\ e # 0 /\ on[e]
    BY <1>1, RunningDisplays, EncodersCount DEF CInv, Running
<1>3. RoutedState(s) /\ Undoes(s, e)
    BY <1>1, <1>2 DEF CInv, Routed, TInv, Tails, TailShape
<1>4. CtlsOf(e, s) = TakenCtls(e) /\ (IsSplit(s) <=> Slave(e) # 0)
    BY <1>1, <1>2, <1>3, UndoneCtls DEF CInv
<1> DEFINE keep == hw.split /\ ~IsSplit(s)
           less == hw.timing \ {Num(e)}
<1>5. /\ hw' = [hw EXCEPT !.timing = less, !.split = keep]
      /\ live' = live \ CtlsOf(e, s) /\ vsync' = vsync
    BY <1>2 DEF Disable, mdp5_encoder_disable, mdp5_vid_encoder_disable,
                mdp5_ctl_set_encoder_state
<1>6. keep \in BOOLEAN
    OBVIOUS
<1>7. keep <=> hw.split /\ Slave(e) = 0
    BY <1>4
<1> HIDE DEF keep, less
<1>8. /\ DOMAIN hw' = HwFields /\ hw'.timing = less /\ hw'.split = keep
      /\ hw'.tear = hw.tear /\ hw'.start = hw.start
    BY <1>5 DEF HwFields
<1>9. Running' = Running \ {e}
    BY DisableOn
<1> HIDE DEF e
<1>10. /\ VideoNums' = VideoNums \ {Num(e)} /\ CmdRunning' = CmdRunning
       /\ SplitOn' <=> SplitOn /\ Slave(e) = 0
       /\ LiveCtls' = LiveCtls \ TakenCtls(e)
       /\ CmdCtls' = CmdCtls
       /\ \A f : CtlOf(f)' = CtlOf(f)
    <2>1. ~IsCmd(e)
        BY DEF e
    <2> QED BY <1>1, <1>2, <1>9, <2>1, RunningLess, RunningSets, StandingKeeps DEF CInv
<1>11. TearBlocks' = TearBlocks
    <2>1. c \notin Beating
        BY <1>1 DEF Beating, e
    <2>2. Beating' = Beating
        BY <2>1, DisableBeating
    <2> QED BY <1>1, <2>2, TearSets DEF TearBlocks
<1>12. /\ hw.timing = VideoNums /\ (hw.split <=> SplitOn) /\ live = LiveCtls
       /\ hw.tear = TearBlocks /\ hw.start \subseteq CmdCtls
       /\ \A f \in CmdRunning : CtlOf(f) \in hw.start
    BY <1>1 DEF Driven
<1>13. hw'.timing = VideoNums'
    BY <1>8, <1>10, <1>12 DEF less
<1>14. hw'.split \in BOOLEAN /\ (hw'.split <=> SplitOn')
    BY <1>6, <1>7, <1>8, <1>10, <1>12
<1>15. live' = LiveCtls'
    BY <1>4, <1>5, <1>10, <1>12
<1> QED BY <1>5, <1>8, <1>10, <1>11, <1>12, <1>13, <1>14, <1>15 DEF Driven

LEMMA DisableCommand ==
    ASSUME CInv, DOMAIN hw = HwFields, Driven, NEW c \in Crtcs, Disable(c),
           tail[c].enc \in Running, IsCmd(tail[c].enc)
    PROVE  /\ DOMAIN hw' = HwFields /\ Driven'
           /\ vsync' = vsync - 1
           /\ tail[c].enc \in CmdRunning /\ CmdRunning' = CmdRunning \ {tail[c].enc}
           /\ PingPong(c) \in TearBlocks /\ TearBlocks' = TearBlocks \ {PingPong(c)}
<1> DEFINE e == tail[c].enc
           s == cs[c]
<1>1. /\ kms.phase = "up" /\ Standing /\ cs' = cs /\ Active(c) = e
      /\ tail[c].step = "disable"
    BY UpWithCrtcs, DisableShape DEF CInv
<1>2. Running \subseteq Displays /\ e \in Running /\ e # 0 /\ on[e]
    BY <1>1, RunningDisplays, EncodersCount DEF CInv, Running
<1>3. RoutedState(s) /\ Undoes(s, e)
    BY <1>1, <1>2 DEF CInv, Routed, TInv, Tails, TailShape
<1>4. CtlsOf(e, s) = TakenCtls(e) /\ (IsSplit(s) <=> Slave(e) # 0)
    BY <1>1, <1>2, <1>3, UndoneCtls DEF CInv
<1> DEFINE less == hw.tear \ {PingPong(c)}
<1>5. /\ hw' = [hw EXCEPT !.tear = less]
      /\ live' = live \ CtlsOf(e, s) /\ vsync' = vsync - 1
    BY <1>2 DEF Disable, mdp5_encoder_disable, mdp5_cmd_encoder_disable,
                mdp5_ctl_set_encoder_state, PingPong
<1> HIDE DEF less
<1>6. /\ DOMAIN hw' = HwFields /\ hw'.timing = hw.timing /\ hw'.split = hw.split
      /\ hw'.tear = less /\ hw'.start = hw.start
    BY <1>5 DEF HwFields
<1>7. Running' = Running \ {e} /\ IsCmd(e) /\ Slave(e) = 0
    <2>1. e \in Encoders
        BY <1>2 DEF Displays
    <2> QED BY <1>1, <2>1, DisableOn, SlaveFacts DEF CInv
<1>8. c \in Beating
    BY <1>1, <1>2, <1>7 DEF Beating
<1> HIDE DEF e
<1>9. /\ VideoNums' = VideoNums /\ CmdRunning' = CmdRunning \ {e}
      /\ SplitOn' <=> SplitOn
      /\ LiveCtls' = LiveCtls \ TakenCtls(e)
      /\ CmdCtls' = CmdCtls
      /\ \A f : CtlOf(f)' = CtlOf(f)
    BY <1>1, <1>2, <1>7, RunningLess, RunningSets, StandingKeeps DEF CInv
<1>10. TearBlocks' = TearBlocks \ {PingPong(c)} /\ PingPong(c) \in TearBlocks
    BY <1>1, <1>8, DisableBeating, TearLess DEF CInv, TInv
<1>11. /\ hw.timing = VideoNums /\ hw.split \in BOOLEAN /\ (hw.split <=> SplitOn)
       /\ live = LiveCtls /\ hw.tear = TearBlocks /\ hw.start \subseteq CmdCtls
       /\ \A f \in CmdRunning : CtlOf(f) \in hw.start
    BY <1>1 DEF Driven
<1>12. hw'.tear = TearBlocks'
    BY <1>6, <1>10, <1>11 DEF less
<1>13. live' = LiveCtls'
    BY <1>4, <1>5, <1>9, <1>11
<1>14. e \in CmdRunning
    BY <1>2, <1>7 DEF CmdRunning
<1>15. Driven'
    BY <1>6, <1>9, <1>11, <1>12, <1>13 DEF Driven
<1> QED BY <1>5, <1>6, <1>9, <1>10, <1>14, <1>15 DEF e

LEMMA CrtcsFinite ==
    ASSUME IInv
    PROVE  /\ IsFiniteSet(Crtcs) /\ IsFiniteSet(Enabling) /\ IsFiniteSet(Handling)
           /\ Cardinality(Enabling) \in Nat /\ Cardinality(Handling) \in Nat
<1>1. Crtcs = 1..kms.crtcs /\ kms.crtcs \in Nat
    BY DEF IInv, KmsShape, Crtcs
<1>2. IsFiniteSet(Crtcs)
    BY <1>1, FS_Interval
<1>3. Enabling \subseteq Crtcs /\ Handling \subseteq Crtcs
    BY DEF Enabling, Handling
<1>4. IsFiniteSet(Enabling) /\ IsFiniteSet(Handling)
    BY <1>2, <1>3, FS_Subset
<1> QED BY <1>2, <1>4, FS_CardinalityType

LEMMA RunningFinite ==
    ASSUME SInv, kms.phase = "up"
    PROVE  IsFiniteSet(CmdRunning) /\ Cardinality(CmdRunning) \in Nat
<1>1. IsFiniteSet(Encoders)
    BY EncodersCount, FS_Interval
<1>2. CmdRunning \subseteq Encoders
    BY DEF CmdRunning, Running
<1>3. IsFiniteSet(CmdRunning)
    BY <1>1, <1>2, FS_Subset
<1> QED BY <1>3, FS_CardinalityType

LEMMA DisableCounted ==
    ASSUME CInv, DOMAIN hw = HwFields, Driven, Counted, NEW c \in Crtcs, Disable(c)
    PROVE  DOMAIN hw' = HwFields /\ Driven' /\ Counted'
<1> DEFINE e == tail[c].enc
<1>1. /\ kms.phase = "up" /\ Standing /\ tail[c].step = "disable"
      /\ tail'[c].step = "enable" /\ irqs'[c] = {}
      /\ \A d \in Crtcs \ {c} : tail'[d] = tail[d] /\ irqs'[d] = irqs[d]
      /\ Active(c) = e
    BY UpWithCrtcs, DisableShape DEF CInv
<1>2. Crtcs' = Crtcs
    BY <1>1, StandingKeeps
<1>3. /\ vsync = Cardinality(CmdRunning)
      /\ IsFiniteSet(TearBlocks) /\ vsync = Cardinality(TearBlocks)
      /\ users = Cardinality(Enabling) + Cardinality(Handling)
    BY <1>1 DEF Counted
<1>4. /\ IsFiniteSet(Enabling) /\ IsFiniteSet(Handling) /\ IsFiniteSet(CmdRunning)
      /\ Cardinality(Enabling) \in Nat /\ Cardinality(Handling) \in Nat
    BY <1>1, CrtcsFinite, RunningFinite DEF CInv
<1>5. users' = Cardinality(Enabling') + Cardinality(Handling')
    <2>1. Enabling' = Enabling \union {c} /\ c \notin Enabling
        BY <1>1, <1>2 DEF Enabling
    <2>2. Handling' = Handling \ {c}
        BY <1>1, <1>2 DEF Handling
    <2>3. Cardinality(Enabling') = Cardinality(Enabling) + 1
        BY <1>4, <2>1, FS_AddElement
    <2>4. Cardinality(Handling') = IF c \in Handling THEN Cardinality(Handling) - 1
                                   ELSE Cardinality(Handling)
        BY <1>4, <2>2, FS_RemoveElement
    <2>5. irqs[c] = IF e = 0 THEN {} ELSE Handlers(cs[c])
        BY <1>1 DEF CInv, TInv, Tails, TailShape
    <2>6. CASE e = 0
        <3>1. users' = users + 1 /\ c \notin Handling
            BY <2>5, <2>6 DEF Disable, Handling
        <3> QED BY <1>3, <1>4, <2>3, <2>4, <3>1
    <2>7. CASE e # 0
        <3>1. users' = users /\ c \in Handling
            BY <2>5, <2>7 DEF Disable, Handling, Handlers
        <3> QED BY <1>3, <1>4, <2>3, <2>4, <3>1
    <2> QED BY <2>6, <2>7
<1>6. CASE e \notin Running \/ ~IsCmd(e)
    <2>1. /\ DOMAIN hw' = HwFields /\ Driven'
          /\ vsync' = vsync /\ CmdRunning' = CmdRunning /\ TearBlocks' = TearBlocks
        BY <1>6, DisableSame, DisableVideo
    <2> QED BY <1>3, <1>5, <2>1 DEF Counted
<1>7. CASE e \in Running /\ IsCmd(e)
    <2>1. /\ DOMAIN hw' = HwFields /\ Driven'
          /\ vsync' = vsync - 1
          /\ e \in CmdRunning /\ CmdRunning' = CmdRunning \ {e}
          /\ PingPong(c) \in TearBlocks /\ TearBlocks' = TearBlocks \ {PingPong(c)}
        BY <1>7, DisableCommand
    <2>2. Cardinality(CmdRunning') = Cardinality(CmdRunning) - 1
        BY <1>4, <2>1, FS_RemoveElement
    <2>3. IsFiniteSet(TearBlocks') /\ Cardinality(TearBlocks') = Cardinality(TearBlocks) - 1
        BY <1>3, <2>1, FS_RemoveElement
    <2> QED BY <1>3, <1>5, <2>1, <2>2, <2>3 DEF Counted
<1> QED BY <1>6, <1>7

-------------------------------------------------------------------------------
(* The second half of a tail.                                                *)

LEMMA EnableShape ==
    ASSUME CInv, NEW c \in Crtcs, Enable(c)
    PROVE  /\ Standing /\ cs' = cs /\ tail[c].step = "enable"
           /\ DOMAIN tail' = Crtcs /\ DOMAIN irqs' = Crtcs
           /\ tail'[c] = Idle
           /\ \A d \in Crtcs \ {c} : tail'[d] = tail[d] /\ irqs'[d] = irqs[d]
           /\ irqs[c] = {}
           /\ irqs'[c] = IF cs[c].enc = 0 THEN {} ELSE Handlers(cs[c])
           /\ Active(c) = 0 /\ Active(c)' = cs[c].enc
           /\ \A d \in Crtcs \ {c} : Active(d)' = Active(d)
           /\ cs[c].enc \in {0} \union Displays
<1>1. kms.phase = "up" /\ Standing /\ cs' = cs /\ tail[c].step = "enable"
    BY UpWithCrtcs DEF Enable, Standing, CInv
<1>2. DOMAIN tail = Crtcs /\ DOMAIN irqs = Crtcs /\ TailShape(c) /\ RoutedState(cs[c])
    BY <1>1 DEF CInv, TInv, Tails, Routed
<1>3. /\ DOMAIN tail' = Crtcs /\ \A d \in Crtcs \ {c} : tail'[d] = tail[d]
      /\ tail'[c] = Idle
    BY <1>2 DEF Enable
<1>4. Active(c) = 0 /\ Active(c)' = cs[c].enc
    BY <1>1, <1>3 DEF Active, Idle
<1>5. irqs[c] = {}
    BY <1>2, <1>4 DEF TailShape
<1>6. /\ DOMAIN irqs' = Crtcs
      /\ irqs'[c] = IF cs[c].enc = 0 THEN {} ELSE Handlers(cs[c])
      /\ \A d \in Crtcs \ {c} : irqs'[d] = irqs[d]
    <2>1. CASE cs[c].enc = 0
        <3>1. irqs' = irqs
            BY <2>1 DEF Enable
        <3> QED BY <1>2, <1>5, <2>1, <3>1
    <2>2. CASE cs[c].enc # 0
        <3>1. irqs' = [irqs EXCEPT ![c] = @ \union Handlers(cs[c])]
            BY <2>2 DEF Enable
        <3> QED BY <1>2, <1>5, <2>2, <3>1
    <2> QED BY <2>1, <2>2
<1>7. \A d \in Crtcs \ {c} : Active(d)' = Active(d)
    BY <1>1, <1>3 DEF Active
<1>8. cs[c].enc \in {0} \union Displays
    BY <1>2 DEF RoutedState
<1> QED BY <1>1, <1>3, <1>4, <1>5, <1>6, <1>7, <1>8

(* What is enabled was off, and is on unless its clock failed.               *)
LEMMA EnableOn ==
    ASSUME CInv, NEW c \in Crtcs, Enable(c)
    PROVE  /\ cs[c].enc \notin Running
           /\ on' \in [Encoders -> BOOLEAN]
           /\ \A e \in Encoders \ {cs[c].enc} : on'[e] = on[e]
           /\ \/ on' = on /\ Running' = Running
              \/ /\ cs[c].enc # 0 /\ on' = [on EXCEPT ![cs[c].enc] = TRUE]
                 /\ Running' = Running \union {cs[c].enc}
<1>1. kms.phase = "up" /\ Standing
    BY UpWithCrtcs DEF Enable, Standing, CInv
<1>2. Encoders' = Encoders /\ on \in [Encoders -> BOOLEAN] /\ 0 \notin Encoders
    BY <1>1, StandingKeeps, EncodersCount DEF CInv, TInv, OnForOne
<1>3. cs[c].enc \in {0} \union Encoders
    BY EnableShape DEF Displays
<1>4. cs[c].enc \notin Running
    <2> SUFFICES ASSUME cs[c].enc \in Running PROVE FALSE
        OBVIOUS
    <2>1. PICK d \in Crtcs : Active(d) = cs[c].enc
        BY <1>1 DEF Running, CInv, TInv, OnForOne
    <2>2. cs[c].enc # 0 /\ Active(c) = 0
        BY <1>2, EnableShape DEF Running
    <2>3. c # d /\ cs[c].enc \in Holds(c)
        BY <2>1, <2>2 DEF Holds
    <2> QED BY <1>1, <2>1, <2>2, <2>3, ActivesApart DEF CInv
<1>5. \/ on' = on
      \/ cs[c].enc # 0 /\ on' = [on EXCEPT ![cs[c].enc] = TRUE]
    BY DEF Enable, mdp5_encoder_enable
<1> QED BY <1>2, <1>3, <1>4, <1>5 DEF Running

LEMMA EnableTails == ASSUME CInv, NEW c \in Crtcs, Enable(c) PROVE TInv'
<1>1. kms.phase = "up"
    BY UpWithCrtcs DEF CInv
<1>2. /\ Standing /\ cs' = cs /\ tail[c].step = "enable"
      /\ DOMAIN tail' = Crtcs /\ DOMAIN irqs' = Crtcs
      /\ tail'[c] = Idle
      /\ \A d \in Crtcs \ {c} : tail'[d] = tail[d] /\ irqs'[d] = irqs[d]
      /\ irqs'[c] = IF cs[c].enc = 0 THEN {} ELSE Handlers(cs[c])
      /\ Active(c) = 0 /\ Active(c)' = cs[c].enc
      /\ \A d \in Crtcs \ {c} : Active(d)' = Active(d)
    BY EnableShape
<1>3. Crtcs' = Crtcs /\ Encoders' = Encoders
    BY <1>2, StandingKeeps
<1>4. TailShape(c)'
    <2>1. tail'[c] \in [step : {"idle", "disable", "enable"}, enc : {0} \union Displays]
        BY <1>2 DEF Idle
    <2>2. tail'[c].step = "idle" /\ tail'[c].enc = 0
        BY <1>2 DEF Idle
    <2> QED BY <1>2, <2>1, <2>2, TailKept
<1>5. ASSUME NEW d \in Crtcs \ {c}
      PROVE  TailShape(d)'
    <2>1. TailShape(d) /\ cs'[d] = cs[d] /\ tail'[d] = tail[d] /\ irqs'[d] = irqs[d]
          /\ Active(d)' = Active(d)
        BY <1>1, <1>2 DEF CInv, TInv, Tails
    <2> QED BY <1>2, <2>1, TailKept DEF TailShape
<1>6. Tails'
    BY <1>2, <1>3, <1>4, <1>5 DEF Tails
<1>7. HoldersApart'
    <2>1. \A d \in Crtcs : Holds(d)' \subseteq Holds(d)
        BY <1>2 DEF Holds, Idle
    <2>2. \A d, f \in Crtcs : d # f => Holds(d) \intersect Holds(f) = {}
        BY <1>1 DEF CInv, TInv, HoldersApart
    <2>3. \A d, f \in Crtcs : d # f => Holds(d)' \intersect Holds(f)' = {}
        BY <2>1, <2>2
    <2> QED BY <1>3, <2>3 DEF HoldersApart
<1>8. OnForOne'
    <2>1. /\ on' \in [Encoders -> BOOLEAN]
          /\ \A e \in Encoders \ {cs[c].enc} : on'[e] = on[e]
        BY EnableOn
    <2>2. \A e \in Encoders : on[e] => \E d \in Crtcs : Active(d) = e
        BY <1>1 DEF CInv, TInv, OnForOne
    <2>3. 0 \notin Encoders
        BY <1>1, EncodersCount DEF CInv
    <2>4. \A e \in Encoders \ {cs[c].enc} : on'[e] => \E d \in Crtcs : Active(d)' = e
        BY <1>2, <2>1, <2>2, <2>3
    <2>5. \A e \in Encoders : on'[e] => \E d \in Crtcs : Active(d)' = e
        BY <1>2, <2>4
    <2> QED BY <1>3, <2>1, <2>5 DEF OnForOne
<1> QED BY <1>6, <1>7, <1>8 DEF TInv

LEMMA EnableBeating ==
    ASSUME CInv, NEW c \in Crtcs, Enable(c)
    PROVE  /\ c \notin Beating
           /\ IF cs[c].enc # 0 /\ IsCmd(cs[c].enc) /\ on'[cs[c].enc]
              THEN Beating' = Beating \union {c} ELSE Beating' = Beating
<1>1. kms.phase = "up"
    BY UpWithCrtcs DEF CInv
<1>2. Standing /\ Active(c) = 0 /\ Active(c)' = cs[c].enc
      /\ \A d \in Crtcs \ {c} : Active(d)' = Active(d)
    BY EnableShape
<1>3. Crtcs' = Crtcs /\ \A e : IsCmd(e)' <=> IsCmd(e)
    BY <1>2, StandingKeeps
<1>4. \A e \in Encoders \ {cs[c].enc} : on'[e] = on[e]
    BY EnableOn
<1>5. ASSUME NEW d \in Crtcs \ {c}, Active(d) # 0
      PROVE  Active(d) \in Encoders \ {cs[c].enc} /\ (IsCmd(Active(d))' <=> IsCmd(Active(d)))
    <2>1. Active(d) \in Encoders
        BY <1>1, <1>5, ActiveHeld DEF CInv, TInv, Displays
    <2>2. Active(d) \notin Holds(c)
        BY <1>1, <1>5, ActivesApart DEF CInv
    <2>3. Active(d) # cs[c].enc
        BY <1>5, <2>2 DEF Holds
    <2>4. IsCmd(Active(d))' <=> IsCmd(Active(d))
        BY <1>2 DEF IsCmd, Standing
    <2> QED BY <2>1, <2>3, <2>4
<1>6. c \notin Beating
    BY <1>2 DEF Beating
<1>7. ASSUME NEW d \in Crtcs \ {c}
      PROVE  d \in Beating' <=> d \in Beating
    <2>1. CASE Active(d) = 0
        BY <1>2, <2>1 DEF Beating
    <2>2. CASE Active(d) # 0
        <3>1. on'[Active(d)] = on[Active(d)]
            BY <1>4, <1>5, <2>2
        <3> QED BY <1>2, <1>3, <1>5, <2>2, <3>1 DEF Beating
    <2> QED BY <2>1, <2>2
<1>8. Beating \subseteq Crtcs /\ Beating' \subseteq Crtcs
    BY <1>3 DEF Beating
<1>9. c \in Beating' <=> cs[c].enc # 0 /\ IsCmd(cs[c].enc) /\ on'[cs[c].enc]
    <2>1. IsCmd(cs[c].enc)' <=> IsCmd(cs[c].enc)
        BY <1>2, EnableShape DEF IsCmd, Standing
    <2>2. cs'[c].enc = cs[c].enc
        BY EnableShape
    <2>3. c \in Beating' <=> Active(c)' # 0 /\ IsCmd(Active(c))' /\ on'[Active(c)']
        BY <1>3 DEF Beating
    <2> QED BY <1>2, <2>1, <2>2, <2>3 DEF IsCmd, Standing
<1> QED BY <1>6, <1>7, <1>8, <1>9

(* Who returns the last power reference leaves nothing on.                   *)
LEMMA LastUser ==
    ASSUME CInv, Counted, NEW c \in Crtcs, tail[c].step = "enable", users = 1
    PROVE  Running = {} /\ \A d \in Crtcs : Active(d) = 0
<1>1. kms.phase = "up"
    BY UpWithCrtcs DEF CInv
<1>2. c \in Enabling
    BY DEF Enabling
<1>3. Cardinality(Enabling) # 0
    BY <1>2, CrtcsFinite, FS_EmptySet DEF CInv
<1>4. Cardinality(Handling) = 0
    BY <1>1, <1>3, CrtcsFinite DEF Counted, CInv
<1>5. Handling = {}
    BY <1>4, CrtcsFinite, FS_EmptySet DEF CInv
<1>6. \A d \in Crtcs : Active(d) = 0
    BY <1>1, <1>5 DEF Handling, Handlers, CInv, TInv, Tails, TailShape
<1> QED BY <1>1, <1>6, EncodersCount DEF Running, CInv, TInv, OnForOne

(* Without an encoder to enable, nothing or, when power goes, everything is  *)
(* lost; then nothing was on.                                                *)
LEMMA EnableNothing ==
    ASSUME CInv, DOMAIN hw = HwFields, Driven, Counted, NEW c \in Crtcs, Enable(c),
           cs[c].enc = 0
    PROVE  /\ DOMAIN hw' = HwFields /\ Driven'
           /\ vsync' = vsync /\ CmdRunning' = CmdRunning /\ TearBlocks' = TearBlocks
<1>1. kms.phase = "up" /\ Standing /\ cs' = cs
    BY UpWithCrtcs, EnableShape DEF CInv
<1>2. hw' = (IF users = 1 THEN NoRegisters ELSE hw) /\ UNCHANGED <<on, vsync, live>>
    BY DEF Enable
<1>3. Running' = Running
    BY <1>1, <1>2, StandingKeeps DEF Running
<1>4. /\ VideoNums' = VideoNums /\ CmdRunning' = CmdRunning /\ (SplitOn' <=> SplitOn)
      /\ LiveCtls' = LiveCtls /\ CmdCtls' = CmdCtls
      /\ \A e : CtlOf(e)' = CtlOf(e)
    BY <1>1, <1>3, SameRunning, RunningSets, StandingKeeps
<1>5. TearBlocks' = TearBlocks
    <2>1. Beating' = Beating
        BY EnableBeating
    <2> QED BY <1>1, <2>1, TearSets DEF TearBlocks
<1>6. CASE users # 1
    BY <1>1, <1>2, <1>4, <1>5, <1>6 DEF Driven
<1>7. CASE users = 1
    <2>1. tail[c].step = "enable"
        BY EnableShape
    <2>2. Running = {} /\ \A d \in Crtcs : Active(d) = 0
        BY <1>7, <2>1, LastUser
    <2>3. Beating = {}
        BY <2>2 DEF Beating
    <2>4. VideoNums = {} /\ ~SplitOn /\ CmdRunning = {} /\ TearBlocks = {}
        BY <2>2, <2>3 DEF VideoNums, SplitOn, CmdRunning, TearBlocks
    <2>5. hw'.timing = {} /\ hw'.split = FALSE /\ hw'.tear = {} /\ hw'.start = {}
          /\ DOMAIN hw' = HwFields
        BY <1>2, <1>7 DEF NoRegisters, HwFields
    <2> QED BY <1>1, <1>2, <1>4, <1>5, <2>4, <2>5 DEF Driven
<1> QED BY <1>6, <1>7

(* What the registers have after an encoder was enabled.                     *)
LEMMA EnableVideoHw ==
    ASSUME DOMAIN hw = HwFields, NEW e, NEW s, mdp5_encoder_enable(e, s), ~IsCmd(e)
    PROVE  /\ DOMAIN hw' = HwFields
           /\ hw'.timing = hw.timing \union {Num(e)}
           /\ hw'.split = (hw.split \/ IsSplit(s))
           /\ hw'.tear = hw.tear /\ hw'.start = hw.start
           /\ live' = live \union CtlsOf(e, s) /\ vsync' = vsync
           /\ on' = [on EXCEPT ![e] = TRUE]
<1> DEFINE route == mdp5_crtc_set_pipeline(s)
           o == mdp5_crtc_mode_set_nofb(s)
           sel == route.sel
           op == route.op
           set == [hw EXCEPT !.out = o, !.sel = sel, !.op = op]
           pr == mdp5_vid_encoder_mode_set(s)
           sp == set.split \/ IsSplit(s)
           ti == set.timing \union {Num(e)}
<1>1. /\ hw' = [set EXCEPT !.program = pr, !.split = sp, !.timing = ti]
      /\ live' = live \union CtlsOf(e, s) /\ vsync' = vsync
      /\ on' = [on EXCEPT ![e] = TRUE]
    BY DEF mdp5_encoder_enable, mdp5_ctl_set_encoder_state
<1> HIDE DEF route, o, sel, op
<1>2. /\ DOMAIN set = HwFields /\ set.timing = hw.timing /\ set.split = hw.split
      /\ set.tear = hw.tear /\ set.start = hw.start
    BY DEF HwFields
<1> HIDE DEF set, pr, sp, ti
<1>3. /\ DOMAIN hw' = HwFields /\ hw'.timing = ti /\ hw'.split = sp
      /\ hw'.tear = set.tear /\ hw'.start = set.start
    BY <1>1, <1>2 DEF HwFields
<1>4. sp = (hw.split \/ IsSplit(s))
    BY <1>2 DEF sp
<1>5. ti = hw.timing \union {Num(e)}
    BY <1>2 DEF ti
<1>6. hw'.split = (hw.split \/ IsSplit(s))
    BY <1>3, <1>4
<1> QED BY <1>1, <1>2, <1>3, <1>5, <1>6

LEMMA EnableCommandHw ==
    ASSUME DOMAIN hw = HwFields, NEW e, NEW s, mdp5_encoder_enable(e, s), IsCmd(e)
    PROVE  /\ DOMAIN hw' = HwFields
           /\ hw'.timing = hw.timing /\ hw'.split = hw.split
           /\ \/ /\ hw'.tear = hw.tear \union {Chip.lm[s.mixer].pp}
                 /\ hw'.start = hw.start \union CtlsOf(e, s)
                 /\ live' = live \union CtlsOf(e, s)
                 /\ vsync' = vsync + 1
                 /\ on' = [on EXCEPT ![e] = TRUE]
              \/ /\ hw'.tear = hw.tear /\ hw'.start = hw.start
                 /\ UNCHANGED <<on, vsync, live>>
<1> DEFINE route == mdp5_crtc_set_pipeline(s)
           o == mdp5_crtc_mode_set_nofb(s)
           sel == route.sel
           op == route.op
           set == [hw EXCEPT !.out = o, !.sel = sel, !.op = op]
           pp == pingpong_tearcheck_setup(s)
           te == set.tear \union {Chip.lm[s.mixer].pp}
           st == set.start \union send_start_signal(e, s)
<1>1. \/ /\ hw' = [set EXCEPT !.pp = pp, !.tear = te, !.start = st]
         /\ live' = live \union CtlsOf(e, s) /\ vsync' = vsync + 1
         /\ on' = [on EXCEPT ![e] = TRUE]
      \/ hw' \in {set, [set EXCEPT !.pp = pp]} /\ UNCHANGED <<on, vsync, live>>
    BY DEF mdp5_encoder_enable, mdp5_ctl_set_encoder_state
<1> HIDE DEF route, o, sel, op
<1>2. /\ DOMAIN set = HwFields /\ set.timing = hw.timing /\ set.split = hw.split
      /\ set.tear = hw.tear /\ set.start = hw.start
    BY DEF HwFields
<1>3. te = hw.tear \union {Chip.lm[s.mixer].pp} /\ st = hw.start \union CtlsOf(e, s)
    BY <1>2 DEF send_start_signal
<1> HIDE DEF set, pp, te, st
<1>4. CASE /\ hw' = [set EXCEPT !.pp = pp, !.tear = te, !.start = st]
           /\ live' = live \union CtlsOf(e, s) /\ vsync' = vsync + 1
           /\ on' = [on EXCEPT ![e] = TRUE]
    <2>1. /\ DOMAIN hw' = HwFields /\ hw'.timing = set.timing /\ hw'.split = set.split
          /\ hw'.tear = te /\ hw'.start = st
        BY <1>2, <1>4 DEF HwFields
    <2> QED BY <1>2, <1>3, <1>4, <2>1
<1>5. CASE hw' \in {set, [set EXCEPT !.pp = pp]} /\ UNCHANGED <<on, vsync, live>>
    <2>1. /\ DOMAIN hw' = HwFields /\ hw'.timing = set.timing /\ hw'.split = set.split
          /\ hw'.tear = set.tear /\ hw'.start = set.start
        BY <1>2, <1>5 DEF HwFields
    <2> QED BY <1>2, <1>5, <2>1
<1> QED BY <1>1, <1>4, <1>5

(* The state of a CRTC says what its encoder takes.                          *)
LEMMA EnableTaken ==
    ASSUME CInv, NEW c \in Crtcs, Enable(c), cs[c].enc # 0
    PROVE  /\ kms.phase = "up" /\ Standing /\ cs' = cs /\ cs[c].enc \in Displays
           /\ mdp5_encoder_enable(cs[c].enc, cs[c])
           /\ cs[c].intf = cs[c].enc
           /\ CtlsOf(cs[c].enc, cs[c]) = TakenCtls(cs[c].enc)
           /\ IsSplit(cs[c]) <=> Slave(cs[c].enc) # 0
<1>1. /\ kms.phase = "up" /\ Standing /\ cs' = cs /\ cs[c].enc \in Displays
    BY UpWithCrtcs, EnableShape DEF CInv
<1>2. RoutedState(cs[c])
    BY <1>1 DEF CInv, Routed
<1>3. cs[c].intf = cs[c].enc
    BY <1>2 DEF RoutedState
<1>4. Undoes(cs[c], cs[c].enc)
    BY <1>3 DEF Undoes
<1>5. mdp5_encoder_enable(cs[c].enc, cs[c])
    BY DEF Enable
<1> QED BY <1>1, <1>2, <1>3, <1>4, <1>5, UndoneCtls DEF CInv

LEMMA EnableVideo ==
    ASSUME CInv, DOMAIN hw = HwFields, Driven, NEW c \in Crtcs, Enable(c),
           cs[c].enc # 0, ~IsCmd(cs[c].enc)
    PROVE  /\ DOMAIN hw' = HwFields /\ Driven'
           /\ vsync' = vsync /\ CmdRunning' = CmdRunning /\ TearBlocks' = TearBlocks
<1> DEFINE e == cs[c].enc
           s == cs[c]
<1>1. /\ kms.phase = "up" /\ Standing /\ cs' = cs /\ e \in Displays
      /\ mdp5_encoder_enable(e, s)
      /\ CtlsOf(e, s) = TakenCtls(e)
      /\ IsSplit(s) <=> Slave(e) # 0
    BY EnableTaken
<1>2. /\ DOMAIN hw' = HwFields
      /\ hw'.timing = hw.timing \union {Num(e)}
      /\ hw'.split = (hw.split \/ IsSplit(s))
      /\ hw'.tear = hw.tear /\ hw'.start = hw.start
      /\ live' = live \union CtlsOf(e, s) /\ vsync' = vsync
      /\ on' = [on EXCEPT ![e] = TRUE]
    BY <1>1, EnableVideoHw
<1>3. Running' = Running \union {e}
    <2>1. on \in [Encoders -> BOOLEAN] /\ e \in Encoders /\ Encoders' = Encoders
        BY <1>1, StandingKeeps DEF CInv, TInv, OnForOne, Displays
    <2> HIDE DEF e
    <2> QED BY <1>2, <2>1 DEF Running
<1>4. ~IsCmd(e)
    OBVIOUS
<1> HIDE DEF e, s
<1>5. /\ VideoNums' = VideoNums \union {Num(e)} /\ CmdRunning' = CmdRunning
      /\ SplitOn' <=> SplitOn \/ Slave(e) # 0
      /\ LiveCtls' = LiveCtls \union TakenCtls(e)
      /\ CmdCtls' = CmdCtls
      /\ \A f : CtlOf(f)' = CtlOf(f)
    BY <1>1, <1>3, <1>4, RunningMore, RunningSets, StandingKeeps
<1>6. TearBlocks' = TearBlocks
    <2>1. Beating' = Beating
        BY <1>4, EnableBeating DEF e
    <2> QED BY <1>1, <2>1, TearSets DEF TearBlocks
<1>7. /\ hw.timing = VideoNums /\ hw.split \in BOOLEAN /\ (hw.split <=> SplitOn)
      /\ live = LiveCtls /\ hw.tear = TearBlocks /\ hw.start \subseteq CmdCtls
      /\ \A f \in CmdRunning : CtlOf(f) \in hw.start
    BY <1>1 DEF Driven
<1>8. hw'.split \in BOOLEAN /\ (hw'.split <=> hw.split \/ IsSplit(s))
    BY <1>2
<1>9. hw'.split <=> SplitOn'
    BY <1>1, <1>5, <1>7, <1>8
<1>10. live' = LiveCtls'
    BY <1>1, <1>2, <1>5, <1>7
<1> QED BY <1>2, <1>5, <1>6, <1>7, <1>8, <1>9, <1>10 DEF Driven

LEMMA EnableCommand ==
    ASSUME CInv, DOMAIN hw = HwFields, Driven, NEW c \in Crtcs, Enable(c),
           cs[c].enc # 0, IsCmd(cs[c].enc)
    PROVE  /\ DOMAIN hw' = HwFields /\ Driven'
           /\ \/ /\ vsync' = vsync /\ CmdRunning' = CmdRunning /\ TearBlocks' = TearBlocks
              \/ /\ vsync' = vsync + 1
                 /\ cs[c].enc \notin CmdRunning
                 /\ CmdRunning' = CmdRunning \union {cs[c].enc}
                 /\ PingPong(c) \notin TearBlocks
                 /\ TearBlocks' = TearBlocks \union {PingPong(c)}
<1> DEFINE e == cs[c].enc
           s == cs[c]
<1>1. /\ kms.phase = "up" /\ Standing /\ cs' = cs /\ e \in Displays
      /\ mdp5_encoder_enable(e, s)
      /\ CtlsOf(e, s) = TakenCtls(e)
      /\ s.intf = e
    BY EnableTaken
<1>2. /\ DOMAIN hw' = HwFields
      /\ hw'.timing = hw.timing /\ hw'.split = hw.split
      /\ \/ /\ hw'.tear = hw.tear \union {PingPong(c)}
            /\ hw'.start = hw.start \union CtlsOf(e, s)
            /\ live' = live \union CtlsOf(e, s)
            /\ vsync' = vsync + 1
            /\ on' = [on EXCEPT ![e] = TRUE]
         \/ /\ hw'.tear = hw.tear /\ hw'.start = hw.start
            /\ UNCHANGED <<on, vsync, live>>
    BY <1>1, EnableCommandHw DEF PingPong
<1>3. on \in [Encoders -> BOOLEAN] /\ e \in Encoders /\ Encoders' = Encoders /\ e # 0
    BY <1>1, StandingKeeps DEF CInv, TInv, OnForOne, Displays
<1>4. e \notin Running /\ ~on[e]
    BY <1>3, EnableOn DEF Running
<1>5. IsCmd(e) /\ Command(s.intf)
    BY <1>1, <1>3 DEF Command
<1>6. /\ hw.timing = VideoNums /\ hw.split \in BOOLEAN /\ (hw.split <=> SplitOn)
      /\ live = LiveCtls /\ hw.tear = TearBlocks /\ hw.start \subseteq CmdCtls
      /\ \A f \in CmdRunning : CtlOf(f) \in hw.start
    BY <1>1 DEF Driven
<1>7. c \notin Beating /\ Beating' = IF on'[e] THEN Beating \union {c} ELSE Beating
    BY <1>3, <1>5, EnableBeating
<1>8. CmdCtls' = CmdCtls /\ \A f : CtlOf(f)' = CtlOf(f)
    BY <1>1, RunningSets, StandingKeeps
<1>9. CtlsOf(e, s) = {CtlOf(e)} /\ CtlOf(e) \in CmdCtls /\ Slave(e) = 0
    <2>1. Slave(e) = 0
        BY <1>1, <1>3, <1>5, SlaveFacts DEF CInv
    <2> HIDE DEF e, s
    <2> QED BY <1>1, <1>3, <1>5, <2>1 DEF TakenCtls, CmdCtls
<1>10. Command(cs[c].intf)
    BY <1>5
<1> HIDE DEF e, s
<1>11. CASE /\ hw'.tear = hw.tear \union {PingPong(c)}
            /\ hw'.start = hw.start \union CtlsOf(e, s)
            /\ live' = live \union CtlsOf(e, s)
            /\ vsync' = vsync + 1
            /\ on' = [on EXCEPT ![e] = TRUE]
    <2>1. Running' = Running \union {e} /\ on'[e]
        BY <1>3, <1>11 DEF Running
    <2>2. /\ VideoNums' = VideoNums /\ CmdRunning' = CmdRunning \union {e}
          /\ SplitOn' <=> SplitOn \/ Slave(e) # 0
          /\ LiveCtls' = LiveCtls \union TakenCtls(e)
        BY <1>1, <1>5, <2>1, RunningMore
    <2>3. PingPong(c) \notin TearBlocks /\ TearBlocks' = TearBlocks \union {PingPong(c)}
        <3>1. c \in Crtcs \ Beating /\ Beating' = Beating \union {c}
            BY <1>7, <2>1
        <3> QED BY <1>1, <1>10, <3>1, TearMore DEF CInv, TInv
    <2>4. e \notin CmdRunning
        BY <1>4 DEF CmdRunning
    <2>5. hw'.split \in BOOLEAN /\ (hw'.split <=> SplitOn')
        BY <1>2, <1>6, <1>9, <2>2
    <2>6. live' = LiveCtls'
        BY <1>1, <1>6, <1>11, <2>2
    <2>7. hw'.start \subseteq CmdCtls' /\ \A f \in CmdRunning' : CtlOf(f)' \in hw'.start
        BY <1>6, <1>8, <1>9, <1>11, <2>2
    <2>8. hw'.timing = VideoNums' /\ hw'.tear = TearBlocks'
        BY <1>2, <1>6, <1>11, <2>2, <2>3
    <2>9. Driven'
        BY <2>5, <2>6, <2>7, <2>8 DEF Driven
    <2> QED BY <1>2, <1>11, <2>2, <2>3, <2>4, <2>9 DEF e
<1>12. CASE hw'.tear = hw.tear /\ hw'.start = hw.start /\ UNCHANGED <<on, vsync, live>>
    <2>1. Running' = Running /\ Beating' = Beating
        BY <1>3, <1>4, <1>7, <1>12 DEF Running
    <2>2. /\ VideoNums' = VideoNums /\ CmdRunning' = CmdRunning /\ (SplitOn' <=> SplitOn)
          /\ LiveCtls' = LiveCtls
        BY <1>1, <2>1, SameRunning
    <2>3. TearBlocks' = TearBlocks
        BY <1>1, <2>1, TearSets DEF TearBlocks
    <2>4. Driven'
        BY <1>2, <1>6, <1>8, <1>12, <2>2, <2>3 DEF Driven
    <2> QED BY <1>2, <1>12, <2>2, <2>3, <2>4
<1> QED BY <1>2, <1>11, <1>12

LEMMA EnableCounted ==
    ASSUME CInv, DOMAIN hw = HwFields, Driven, Counted, NEW c \in Crtcs, Enable(c)
    PROVE  DOMAIN hw' = HwFields /\ Driven' /\ Counted'
<1> DEFINE e == cs[c].enc
<1>1. /\ kms.phase = "up" /\ Standing /\ tail[c].step = "enable"
      /\ tail'[c] = Idle
      /\ irqs[c] = {} /\ irqs'[c] = IF e = 0 THEN {} ELSE Handlers(cs[c])
      /\ \A d \in Crtcs \ {c} : tail'[d] = tail[d] /\ irqs'[d] = irqs[d]
    BY UpWithCrtcs, EnableShape DEF CInv
<1>2. Crtcs' = Crtcs
    BY <1>1, StandingKeeps
<1>3. /\ vsync = Cardinality(CmdRunning)
      /\ IsFiniteSet(TearBlocks) /\ vsync = Cardinality(TearBlocks)
      /\ users = Cardinality(Enabling) + Cardinality(Handling)
    BY <1>1 DEF Counted
<1>4. /\ IsFiniteSet(Enabling) /\ IsFiniteSet(Handling) /\ IsFiniteSet(CmdRunning)
      /\ Cardinality(Enabling) \in Nat /\ Cardinality(Handling) \in Nat
    BY <1>1, CrtcsFinite, RunningFinite DEF CInv
<1>5. users' = Cardinality(Enabling') + Cardinality(Handling')
    <2>1. Enabling' = Enabling \ {c} /\ c \in Enabling
        BY <1>1, <1>2 DEF Enabling, Idle
    <2>2. Cardinality(Enabling') = Cardinality(Enabling) - 1
        BY <1>4, <2>1, FS_RemoveElement
    <2>3. CASE e = 0
        <3>1. users' = users - 1
            BY <2>3 DEF Enable
        <3>2. Handling' = Handling
            BY <1>1, <1>2, <2>3 DEF Handling
        <3> QED BY <1>3, <1>4, <2>2, <3>1, <3>2
    <2>4. CASE e # 0
        <3>1. users' = users
            BY <2>4 DEF Enable
        <3>2. Handling' = Handling \union {c} /\ c \notin Handling
            BY <1>1, <1>2, <2>4 DEF Handling, Handlers
        <3>3. Cardinality(Handling') = Cardinality(Handling) + 1
            BY <1>4, <3>2, FS_AddElement
        <3> QED BY <1>3, <1>4, <2>2, <3>1, <3>3
    <2> QED BY <2>3, <2>4
<1>6. CASE /\ DOMAIN hw' = HwFields /\ Driven'
           /\ vsync' = vsync /\ CmdRunning' = CmdRunning /\ TearBlocks' = TearBlocks
    BY <1>3, <1>5, <1>6 DEF Counted
<1>7. CASE /\ DOMAIN hw' = HwFields /\ Driven'
           /\ vsync' = vsync + 1
           /\ e \notin CmdRunning /\ CmdRunning' = CmdRunning \union {e}
           /\ PingPong(c) \notin TearBlocks /\ TearBlocks' = TearBlocks \union {PingPong(c)}
    <2>1. Cardinality(CmdRunning') = Cardinality(CmdRunning) + 1
        BY <1>4, <1>7, FS_AddElement
    <2>2. IsFiniteSet(TearBlocks') /\ Cardinality(TearBlocks') = Cardinality(TearBlocks) + 1
        BY <1>3, <1>7, FS_AddElement
    <2> QED BY <1>3, <1>5, <1>7, <2>1, <2>2 DEF Counted
<1> QED BY <1>6, <1>7, EnableNothing, EnableVideo, EnableCommand

-------------------------------------------------------------------------------
(* Before the driver is up nothing of it is in use.                          *)
Fresh ==
    /\ kms.phase \in {"none", "up", "failed"}
    /\ kms.phase # "up" =>
         /\ kms.crtcs = 0 /\ kms.encoders = <<>>
         /\ cs = <<>> /\ tail = <<>> /\ irqs = <<>> /\ on = <<>> /\ owner = <<>>
         /\ vsync = 0 /\ live = {} /\ users \in Nat
         /\ kms.phase = "none" => users = 0
         /\ hw.split = FALSE /\ hw.tear = {} /\ hw.start = {}

RInv == CInv /\ Fresh /\ DOMAIN hw = HwFields /\ Driven /\ Counted

LEMMA CommitDriven ==
    ASSUME RInv, "mixers" \notin Switches, NEW c \in Crtcs, Commit(c)
    PROVE  Driven' /\ Counted' /\ hw' = hw
<1>1. /\ kms.phase = "up" /\ Standing /\ UNCHANGED <<users, on, irqs, vsync, live, hw>>
      /\ \A d \in Crtcs \ {c} : cs'[d] = cs[d] /\ tail'[d] = tail[d]
      /\ tail[c].step = "idle" /\ tail'[c].step \in {"idle", "disable"}
      /\ \A d \in Crtcs : Active(d)' = Active(d)
      /\ \A d \in Crtcs : Active(d) # 0 => cs'[d].mixer = cs[d].mixer
    BY CommitActive DEF RInv, CInv
<1>2. Crtcs' = Crtcs /\ Encoders' = Encoders /\ \A e : CtlOf(e)' = CtlOf(e)
    BY <1>1, StandingKeeps
<1>3. Running' = Running
    BY <1>1, <1>2 DEF Running
<1>4. Beating' = Beating
    <2>1. \A d \in Crtcs : IsCmd(Active(d))' <=> IsCmd(Active(d))
        BY <1>1 DEF IsCmd, Standing
    <2> QED BY <1>1, <1>2, <2>1 DEF Beating
<1>5. TearBlocks' = TearBlocks
    <2>1. \A d \in Beating' : cs'[d].mixer = cs[d].mixer
        BY <1>1, <1>4 DEF Beating
    <2> QED BY <1>1, <1>4, <2>1, TearSets DEF TearBlocks
<1>6. /\ VideoNums' = VideoNums /\ CmdRunning' = CmdRunning /\ (SplitOn' <=> SplitOn)
      /\ LiveCtls' = LiveCtls /\ CmdCtls' = CmdCtls
    BY <1>1, <1>3, SameRunning, RunningSets
<1>7. Enabling' = Enabling /\ Handling' = Handling
    BY <1>1, <1>2 DEF Enabling, Handling
<1>8. Driven'
    BY <1>1, <1>2, <1>5, <1>6 DEF RInv, Driven
<1>9. Counted'
    BY <1>1, <1>5, <1>6, <1>7 DEF RInv, Counted
<1> QED BY <1>1, <1>8, <1>9

(* Nothing is on when the driver has come up.                                *)
LEMMA KmsInitDriven ==
    ASSUME Fresh, DOMAIN hw = HwFields, KmsInit
    PROVE  TInv' /\ Fresh' /\ DOMAIN hw' = HwFields /\ Driven' /\ Counted'
<1>1. PICK h \in mdp5_cfg_init(board.major, board.minor) :
        LET ms == modeset_init_intfs(board, h, FALSE)
            up == modeset_init(h, ms)
        IN  /\ kms' = up
            /\ cs' = [c \in 1..up.crtcs |-> OffState]
            /\ tail' = [c \in 1..up.crtcs |-> Idle]
            /\ irqs' = [c \in 1..up.crtcs |-> {}]
            /\ on' = [e \in DOMAIN ms.encoders |-> FALSE]
            /\ hw' = [hw EXCEPT !.timing = {}, !.sel = <<>>, !.op = <<>>]
    BY DEF KmsInit
<1>2. /\ kms.phase = "none" /\ UNCHANGED <<users, vsync, live>>
      /\ users = 0 /\ vsync = 0 /\ live = {}
      /\ hw.split = FALSE /\ hw.tear = {} /\ hw.start = {}
    BY DEF KmsInit, Fresh
<1> DEFINE es == modeset_init_intfs(board, h, FALSE).encoders
           n == kms'.crtcs
<1>3. kms'.phase = "up" /\ kms'.encoders = es
    BY <1>1 DEF modeset_init
<1>4. /\ cs' = [c \in 1..n |-> OffState] /\ tail' = [c \in 1..n |-> Idle]
      /\ irqs' = [c \in 1..n |-> {}] /\ on' = [e \in DOMAIN es |-> FALSE]
    BY <1>1
<1>5. Crtcs' = 1..n /\ Encoders' = DOMAIN es
    BY <1>3 DEF Crtcs, Encoders
<1> HIDE DEF es, n
<1>6. /\ DOMAIN hw' = HwFields /\ hw'.timing = {} /\ hw'.split = FALSE
      /\ hw'.tear = {} /\ hw'.start = {}
    BY <1>1, <1>2 DEF HwFields
<1>7. \A c \in Crtcs' :
        /\ cs'[c].enc = 0 /\ tail'[c].step = "idle" /\ tail'[c].enc = 0 /\ irqs'[c] = {}
        /\ tail'[c] \in [step : {"idle", "disable", "enable"}, enc : {0} \union Displays']
    BY <1>4, <1>5 DEF OffState, Idle
<1>8. \A c \in Crtcs' : Active(c)' = 0
    BY <1>7 DEF Active
<1>9. Tails'
    <2>1. DOMAIN tail' = Crtcs' /\ DOMAIN irqs' = Crtcs'
        BY <1>4, <1>5
    <2> QED BY <1>7, <1>8, <2>1 DEF Tails, TailShape
<1>10. HoldersApart'
    <2>1. \A c \in Crtcs' : Holds(c)' = {}
        BY <1>7 DEF Holds
    <2> QED BY <2>1 DEF HoldersApart
<1>11. OnForOne' /\ Running' = {}
    BY <1>4, <1>5 DEF OnForOne, Running
<1>12. Beating' = {} /\ TearBlocks' = {}
    <2>1. Beating' = {}
        BY <1>8 DEF Beating
    <2> QED BY <2>1 DEF TearBlocks
<1>13. VideoNums' = {} /\ ~SplitOn' /\ CmdRunning' = {} /\ LiveCtls' = {}
    BY <1>11 DEF VideoNums, SplitOn, CmdRunning, LiveCtls
<1>14. Enabling' = {} /\ Handling' = {}
    BY <1>7 DEF Enabling, Handling
<1>15. Driven'
    BY <1>2, <1>6, <1>12, <1>13 DEF Driven
<1>16. Counted'
    <2>1. IsFiniteSet({}) /\ Cardinality({}) = 0
        BY FS_EmptySet
    <2> QED BY <1>2, <1>12, <1>13, <1>14, <2>1 DEF Counted
<1>17. Fresh'
    BY <1>3 DEF Fresh
<1> QED BY <1>6, <1>9, <1>10, <1>11, <1>15, <1>16, <1>17 DEF TInv

LEMMA KmsInitFailsDriven ==
    ASSUME Fresh, DOMAIN hw = HwFields, KmsInitFails
    PROVE  TInv' /\ Fresh' /\ DOMAIN hw' = HwFields /\ Driven' /\ Counted'
<1>1. kms' = NoKms("failed") /\ UNCHANGED <<owner, cs, tail, on, irqs, vsync, live>>
      /\ users' \in {users, users + 1}
      /\ hw' \in {hw, [hw EXCEPT !.timing = {}]}
    BY DEF KmsInitFails
<1>2. kms'.phase = "failed" /\ kms'.crtcs = 0 /\ kms'.encoders = <<>>
    BY <1>1 DEF NoKms
<1>3. kms.phase = "none"
    BY DEF KmsInitFails
<1>4. DOMAIN hw' = HwFields /\ hw'.split = hw.split /\ hw'.tear = hw.tear
      /\ hw'.start = hw.start
    BY <1>1 DEF HwFields
<1>5. Fresh'
    BY <1>1, <1>2, <1>3, <1>4 DEF Fresh
<1> QED BY <1>2, <1>4, <1>5 DEF TInv, Tails, HoldersApart, OnForOne, Driven, Counted

LEMMA RInvNext ==
    ASSUME RInv, "mixers" \notin Switches, "display" \notin Switches, [Next]_vars
    PROVE  RInv'
<1>1. IInv' /\ SInv' /\ Routed' /\ AllJoined'
    BY NextInv, KnownNext, RoutedNext, JoinedNext DEF RInv, CInv
<1>2. CASE KmsInit
    BY <1>1, <1>2, KmsInitDriven DEF RInv, CInv
<1>3. CASE KmsInitFails
    BY <1>1, <1>3, KmsInitFailsDriven DEF RInv, CInv
<1>4. ASSUME Standing, kms.phase = "up" PROVE Fresh'
    BY <1>4 DEF Standing, Fresh
<1>5. ASSUME NEW c \in Crtcs PROVE kms.phase = "up"
    BY UpWithCrtcs DEF RInv, CInv
<1>6. ASSUME NEW c \in Crtcs, Commit(c) PROVE RInv'
    <2>1. TInv'
        BY <1>6, CommitTails DEF RInv, CInv
    <2>2. Driven' /\ Counted' /\ hw' = hw
        BY <1>6, CommitDriven
    <2>3. Fresh'
        BY <1>4, <1>5, <1>6 DEF Commit, Standing
    <2> QED BY <1>1, <2>1, <2>2, <2>3 DEF RInv, CInv
<1>7. ASSUME NEW c \in Crtcs, Disable(c) PROVE RInv'
    <2>1. TInv' /\ DOMAIN hw' = HwFields /\ Driven' /\ Counted'
        BY <1>7, DisableTails, DisableCounted DEF RInv
    <2>2. Fresh'
        BY <1>4, <1>5, <1>7 DEF Disable, Standing
    <2> QED BY <1>1, <2>1, <2>2 DEF RInv, CInv
<1>8. ASSUME NEW c \in Crtcs, Enable(c) PROVE RInv'
    <2>1. TInv' /\ DOMAIN hw' = HwFields /\ Driven' /\ Counted'
        BY <1>8, EnableTails, EnableCounted DEF RInv
    <2>2. Fresh'
        BY <1>4, <1>5, <1>8 DEF Enable, Standing
    <2> QED BY <1>1, <2>1, <2>2 DEF RInv, CInv
<1>9. CASE UNCHANGED vars
    <2>1. Standing /\ Running' = Running /\ Beating' = Beating /\ Crtcs' = Crtcs
          /\ Displays' = Displays /\ cs' = cs /\ Encoders' = Encoders
          /\ \A e : CtlOf(e)' = CtlOf(e)
        <3>1. Standing
            BY <1>9 DEF vars, Standing
        <3>2. Running' = Running
            BY <1>9 DEF vars, Running, Encoders
        <3>3. Beating' = Beating
            BY <1>9 DEF vars, Beating, Crtcs, Active, IsCmd
        <3> QED BY <1>9, <3>1, <3>2, <3>3, StandingKeeps DEF vars
    <2>2. /\ VideoNums' = VideoNums /\ CmdRunning' = CmdRunning /\ (SplitOn' <=> SplitOn)
          /\ LiveCtls' = LiveCtls /\ CmdCtls' = CmdCtls /\ TearBlocks' = TearBlocks
          /\ Enabling' = Enabling /\ Handling' = Handling
        <3>1. TearBlocks' = TearBlocks
            BY <2>1, TearSets DEF TearBlocks
        <3>2. Enabling' = Enabling /\ Handling' = Handling
            BY <1>9, <2>1 DEF vars, Enabling, Handling
        <3> QED BY <2>1, <3>1, <3>2, SameRunning, RunningSets
    <2>3. Driven' /\ Counted'
        BY <1>9, <2>1, <2>2 DEF vars, RInv, Driven, Counted
    <2>4. Fresh' /\ DOMAIN hw' = HwFields
        BY <1>9 DEF vars, RInv, Fresh
    <2>5. \A d : TailShape(d) => TailShape(d)'
        BY <1>9, SMTT(30) DEF vars, TailShape, Undoes, Slave, Command, IsCmd, Encoders, Displays,
           Connected, Chip, mdp5_encoder_is_split_master, mdp5_encoder_find_intf, Active,
           Handlers
    <2>6. Tails'
        BY <1>9, <2>1, <2>5 DEF vars, RInv, CInv, TInv, Tails
    <2>7. HoldersApart' /\ OnForOne'
        BY <1>9, <2>1 DEF vars, RInv, CInv, TInv, HoldersApart, OnForOne, Holds, Active
    <2> QED BY <1>1, <2>3, <2>4, <2>6, <2>7 DEF RInv, CInv, TInv
<1> QED BY <1>2, <1>3, <1>6, <1>7, <1>8, <1>9 DEF Next

-------------------------------------------------------------------------------
(* The invariant holds from the start, and says what the runs check.         *)
LEMMA InitRouted == ASSUME Init PROVE RInv
<1>1. kms = NoKms("none") /\ kms.phase = "none" /\ kms.crtcs = 0 /\ kms.encoders = <<>>
    BY DEF Init, NoKms
<1>2. /\ board \in Boards /\ users = 0 /\ owner = <<>> /\ cs = <<>> /\ tail = <<>>
      /\ on = <<>> /\ irqs = <<>> /\ vsync = 0 /\ live = {}
    BY DEF Init
<1>8. DOMAIN hw = HwFields /\ hw.split = FALSE /\ hw.tear = {} /\ hw.start = {}
    <2> DEFINE sel == (1 :> "DSI")
               op == (1 :> [intf |-> 1, cmd |-> FALSE, pack |-> FALSE])
    <2>1. hw \in {NoRegisters, [NoRegisters EXCEPT !.timing = {1}, !.sel = sel, !.op = op]}
        BY DEF Init
    <2> HIDE DEF sel, op
    <2>2. /\ DOMAIN NoRegisters = HwFields /\ NoRegisters.split = FALSE
          /\ NoRegisters.tear = {} /\ NoRegisters.start = {}
        BY DEF NoRegisters, HwFields
    <2>3. CASE hw = NoRegisters
        BY <2>2, <2>3
    <2>4. CASE hw = [NoRegisters EXCEPT !.timing = {1}, !.sel = sel, !.op = op]
        BY <2>2, <2>4 DEF HwFields
    <2> QED BY <2>1, <2>3, <2>4
<1>3. Crtcs = {}
    BY <1>1 DEF Crtcs
<1>4. IInv
    BY <1>1, <1>2, <1>3, NoCrtcs
<1>5. SInv /\ Routed /\ AllJoined
    BY <1>1, <1>2, <1>3 DEF SInv, EncodersKnown, Routed, AllJoined
<1>6. TInv /\ Driven /\ Counted
    BY <1>1 DEF TInv, Tails, HoldersApart, OnForOne, Driven, Counted
<1>7. Fresh
    BY <1>1, <1>2, <1>8 DEF Fresh
<1> QED BY <1>4, <1>5, <1>6, <1>7, <1>8 DEF RInv, CInv

LEMMA RoutedTypes == ASSUME RInv PROVE TypeOK
<1>1. board \in Boards /\ kms.phase \in {"none", "up", "failed"}
    BY DEF RInv, CInv, SInv, Fresh
<1>2. CASE kms.phase # "up"
    <2>1. /\ kms.crtcs = 0 /\ kms.encoders = <<>>
          /\ cs = <<>> /\ tail = <<>> /\ irqs = <<>> /\ on = <<>> /\ owner = <<>>
          /\ vsync = 0 /\ users \in Nat
        BY <1>2 DEF RInv, Fresh
    <2>2. Crtcs = {} /\ Encoders = {}
        BY <2>1 DEF Crtcs, Encoders
    <2> QED BY <1>1, <2>1, <2>2 DEF TypeOK
<1>3. CASE kms.phase = "up"
    <2>1. users \in Nat /\ vsync \in Nat
        BY <1>3, CrtcsFinite, RunningFinite DEF RInv, CInv, Counted
    <2>2. DOMAIN tail = Crtcs /\ DOMAIN irqs = Crtcs /\ \A c \in Crtcs : TailShape(c)
        BY <1>3 DEF RInv, CInv, TInv, Tails
    <2>3. on \in [Encoders -> BOOLEAN]
        BY <1>3 DEF RInv, CInv, TInv, OnForOne
    <2>4. /\ DOMAIN cs = Crtcs
          /\ \A m \in DOMAIN owner : owner[m] \in {0} \union Crtcs
          /\ \A c \in Crtcs : {cs[c].mixer, cs[c].r_mixer} \subseteq {0} \union DOMAIN owner
        BY <1>3 DEF RInv, CInv, IInv, OwnerShape, HalvesApart
    <2>5. ASSUME NEW c \in Crtcs
          PROVE  /\ cs[c].enc \in {0} \union Encoders
                 /\ cs[c].mode \in ModeType
                 /\ tail[c] \in [step : {"idle", "disable", "enable"},
                                 enc : {0} \union Encoders]
                 /\ irqs[c] \subseteq {"err", "pp_done"}
        <3>1. RoutedState(cs[c])
            BY <1>3 DEF RInv, CInv, Routed
        <3>2. tail[c] \in [step : {"idle", "disable", "enable"}, enc : {0} \union Displays]
            BY <2>2 DEF TailShape
        <3>3. Displays \subseteq Encoders
            BY DEF Displays
        <3>4. tail[c] \in [step : {"idle", "disable", "enable"}, enc : {0} \union Encoders]
            BY <3>2, <3>3
        <3>5. irqs[c] \subseteq {"err", "pp_done"}
            BY <2>2 DEF TailShape, Handlers
        <3> QED BY <3>1, <3>4, <3>5 DEF RoutedState
    <2> QED BY <1>1, <2>1, <2>2, <2>3, <2>4, <2>5 DEF TypeOK
<1> QED BY <1>2, <1>3

LEMMA ShownApart == ASSUME RInv PROVE RoutesExclusive
<1> SUFFICES ASSUME NEW c \in Shown, NEW d \in Shown, c # d
             PROVE  /\ Intfs(cs[c]) \intersect Intfs(cs[d]) = {}
                    /\ Ctls(cs[c]) \intersect Ctls(cs[d]) = {}
                    /\ cs[c].vblank # cs[d].vblank
                    /\ cs[c].err \intersect cs[d].err = {}
    BY DEF RoutesExclusive
<1>1. c \in Crtcs /\ d \in Crtcs /\ kms.phase = "up"
    BY UpWithCrtcs DEF Shown, RInv, CInv
<1> DEFINE e == cs[c].enc
           f == cs[d].enc
<1>2. ASSUME NEW b \in Shown
      PROVE  /\ b \in Crtcs /\ RoutedState(cs[b])
             /\ cs[b].intf = cs[b].enc /\ cs[b].enc # 0 /\ cs[b].enc \in Displays
             /\ cs[b].r_intf = Slave(cs[b].enc)
             /\ Intfs(cs[b]) = TakenIntfs(cs[b].enc)
             /\ Ctls(cs[b]) \subseteq TakenCtls(cs[b].enc)
             /\ cs[b].err = TakenIntfs(cs[b].enc)
             /\ cs[b].vblank = intf2vblank(cs[b].mixer, cs[b].enc)
    <2>1. RoutedState(cs[b]) /\ cs[b].enc # 0 /\ b \in Crtcs
        BY <1>1 DEF Shown, RInv, CInv, Routed
    <2>2. /\ cs[b].intf = cs[b].enc /\ cs[b].enc \in Displays
          /\ cs[b].r_intf = Slave(cs[b].enc)
          /\ cs[b].ctl = CtlOf(cs[b].enc) /\ cs[b].r_ctl = CtlOf(cs[b].r_intf)
          /\ Borne(cs[b])
        BY <2>1 DEF RoutedState
    <2>3. cs[b].err = TakenIntfs(cs[b].enc) /\ cs[b].vblank = intf2vblank(cs[b].mixer, cs[b].enc)
        BY <2>1, <2>2 DEF Borne, TakenIntfs
    <2>4. Intfs(cs[b]) = TakenIntfs(cs[b].enc)
        BY <2>2 DEF Intfs, TakenIntfs
    <2>5. Ctls(cs[b]) \subseteq TakenCtls(cs[b].enc)
        BY <2>1, <2>2 DEF Ctls, TakenCtls, CtlOf
    <2> QED BY <2>1, <2>2, <2>3, <2>4, <2>5
<1>3. e # f /\ e \in Displays /\ f \in Displays
    <2>1. Holds(c) \intersect Holds(d) = {}
        BY <1>1 DEF RInv, CInv, TInv, HoldersApart
    <2> QED BY <1>2, <2>1 DEF Holds
<1>4. /\ TakenIntfs(e) \intersect TakenIntfs(f) = {}
      /\ TakenCtls(e) \intersect TakenCtls(f) = {}
    BY <1>1, <1>3, TakenApart DEF RInv, CInv
<1>5. cs[c].vblank # cs[d].vblank
    <2>1. Num(e) # Num(f)
        BY <1>1, <1>3, EncoderFacts DEF RInv, CInv, Displays
    <2>2. ASSUME IsCmd(e), IsCmd(f) PROVE PingPong(c) # PingPong(d)
        BY <1>1, <1>2, <2>2, PingPongApart DEF RInv, CInv, Command
    <2>3. /\ cs[c].vblank = IF IsCmd(e) THEN <<"rd_ptr", PingPong(c)>> ELSE <<"vsync", Num(e)>>
          /\ cs[d].vblank = IF IsCmd(f) THEN <<"rd_ptr", PingPong(d)>> ELSE <<"vsync", Num(f)>>
        BY <1>2 DEF intf2vblank, PingPong, Num
    <2>4. \A x, y : /\ <<"rd_ptr", x>> # <<"vsync", y>>
                    /\ x # y => <<"rd_ptr", x>> # <<"rd_ptr", y>>
                    /\ x # y => <<"vsync", x>> # <<"vsync", y>>
        OBVIOUS
    <2> HIDE DEF e, f
    <2> QED BY <2>1, <2>2, <2>3, <2>4
<1>6. /\ Intfs(cs[c]) = TakenIntfs(e) /\ Intfs(cs[d]) = TakenIntfs(f)
      /\ Ctls(cs[c]) \subseteq TakenCtls(e) /\ Ctls(cs[d]) \subseteq TakenCtls(f)
      /\ cs[c].err = TakenIntfs(e) /\ cs[d].err = TakenIntfs(f)
    BY <1>2
<1> HIDE DEF e, f
<1> QED BY <1>4, <1>5, <1>6

(* What is on is on for a CRTC that says where its pictures go.              *)
LEMMA RunningFor ==
    ASSUME RInv, kms.phase = "up", NEW e \in Running
    PROVE  /\ e \in Displays /\ e # 0
           /\ \E c \in Crtcs : /\ RoutedState(cs[c]) /\ irqs[c] # {}
                               /\ cs[c].intf = e \/ Slave(e) = 0
<1>1. e \in Displays /\ e # 0
    BY RunningDisplays, EncodersCount DEF RInv, CInv, Running
<1>2. PICK c \in Crtcs : Active(c) = e
    BY DEF Running, RInv, CInv, TInv, OnForOne
<1>3. RoutedState(cs[c]) /\ TailShape(c)
    BY DEF RInv, CInv, TInv, Tails, Routed
<1>4. irqs[c] # {}
    BY <1>1, <1>2, <1>3 DEF TailShape, Handlers
<1>5. cs[c].intf = e \/ Slave(e) = 0
    <2>1. CASE tail[c].step = "idle"
        BY <1>1, <1>2, <1>3, <2>1 DEF Active, RoutedState
    <2>2. CASE tail[c].step = "disable"
        BY <1>1, <1>2, <1>3, <2>2 DEF Active, TailShape, Undoes
    <2>3. CASE tail[c].step = "enable"
        BY <1>1, <1>2, <2>3 DEF Active
    <2> QED BY <1>3, <2>1, <2>2, <2>3 DEF TailShape
<1> QED BY <1>1, <1>3, <1>4, <1>5

LEMMA SplitMatches == ASSUME RInv PROVE SplitArmed
<1> SUFFICES ASSUME kms.phase = "up"
             PROVE  /\ hw.timing = {Num(e) : e \in {x \in Encoders : on[x] /\ ~IsCmd(x)}}
                    /\ hw.split = \E c \in Crtcs : \E e \in Encoders :
                           on[e] /\ e = cs[c].intf /\ IsSplit(cs[c])
                    /\ hw.timing \union hw.tear # {} => users > 0
    BY DEF SplitArmed
<1> DEFINE Armed == \E c \in Crtcs : \E e \in Encoders :
                      on[e] /\ e = cs[c].intf /\ IsSplit(cs[c])
<1>1. /\ hw.timing = VideoNums /\ hw.split \in BOOLEAN /\ (hw.split <=> SplitOn)
      /\ hw.tear = TearBlocks
    BY DEF RInv, Driven
<1>2. hw.timing = {Num(e) : e \in {x \in Encoders : on[x] /\ ~IsCmd(x)}}
    BY <1>1 DEF VideoNums, Running
<1>3. \A c \in Crtcs : RoutedState(cs[c])
    BY DEF RInv, CInv, Routed
<1>4. Armed => SplitOn
    BY <1>3 DEF RoutedState, IsSplit, SplitOn, Running
<1>5. SplitOn => Armed
    <2> SUFFICES ASSUME NEW e \in Running, Slave(e) # 0 PROVE Armed
        BY DEF SplitOn
    <2>1. PICK c \in Crtcs : RoutedState(cs[c]) /\ cs[c].intf = e
        BY RunningFor
    <2>2. IsSplit(cs[c])
        BY <2>1 DEF RoutedState, IsSplit
    <2> QED BY <2>1, <2>2 DEF Running
<1>6. hw.split = Armed
    <2>1. hw.split \in BOOLEAN /\ (hw.split <=> Armed)
        BY <1>1, <1>4, <1>5
    <2> QED BY <2>1
<1>7. hw.timing \union hw.tear # {} => users > 0
    <2> SUFFICES ASSUME hw.timing \union hw.tear # {} PROVE users > 0
        OBVIOUS
    <2>1. \A c \in Beating : Active(c) \in Running
        <3>1. \A c \in Crtcs : Active(c) \in {0} \union Displays
            BY ActiveHeld DEF RInv, CInv, TInv
        <3> QED BY <3>1 DEF Beating, Running, Displays
    <2>2. PICK e \in Running : TRUE
        BY <1>1, <2>1 DEF VideoNums, TearBlocks
    <2>3. Handling # {}
        BY RunningFor DEF Handling
    <2>4. /\ IsFiniteSet(Handling) /\ Cardinality(Handling) \in Nat
          /\ Cardinality(Enabling) \in Nat
        BY CrtcsFinite DEF RInv, CInv
    <2>5. Cardinality(Handling) # 0
        BY <2>3, <2>4, FS_EmptySet
    <2>6. users = Cardinality(Enabling) + Cardinality(Handling)
        BY DEF RInv, Counted
    <2> QED BY <2>4, <2>5, <2>6
<1> QED BY <1>2, <1>6, <1>7

LEMMA CountsMatch == ASSUME RInv PROVE PowerBalanced
<1> SUFFICES ASSUME kms.phase = "up" PROVE PowerBalanced
    BY DEF PowerBalanced
<1>1. /\ vsync = Cardinality(CmdRunning) /\ vsync = Cardinality(TearBlocks)
      /\ users = Cardinality(Enabling) + Cardinality(Handling)
    BY DEF RInv, Counted
<1>2. hw.tear = TearBlocks
    BY DEF RInv, Driven
<1>3. CmdRunning = {e \in Encoders : on[e] /\ IsCmd(e)}
    BY DEF CmdRunning, Running
<1>4. \A c \in Crtcs : tail[c] = Idle =>
        irqs[c] = IF cs[c].enc = 0 THEN {} ELSE Handlers(cs[c])
    BY DEF RInv, CInv, TInv, Tails, TailShape, Active, Idle
<1> QED BY <1>1, <1>2, <1>3, <1>4 DEF PowerBalanced, Enabling, Handling

LEMMA LiveMatches == ASSUME RInv PROVE LiveTrue
<1> SUFFICES ASSUME kms.phase = "up" PROVE LiveTrue
    BY DEF LiveTrue
<1> DEFINE Left == {kms.encoders[e].ctl : e \in Running}
           Right == {cs[c].r_ctl : c \in {d \in Crtcs : IsSplit(cs[d]) /\ on[cs[d].intf]}}
<1>1. /\ live = LiveCtls /\ hw.start \subseteq CmdCtls
      /\ \A e \in CmdRunning : CtlOf(e) \in hw.start
    BY DEF RInv, Driven
<1>2. \A e \in Encoders : e # 0 /\ CtlOf(e) = kms.encoders[e].ctl
    BY EncoderFacts DEF RInv, CInv
<1>3. \A c \in Crtcs : RoutedState(cs[c])
    BY DEF RInv, CInv, Routed
<1>4. Left \subseteq LiveCtls
    BY <1>2 DEF LiveCtls, TakenCtls, Running
<1>5. Right \subseteq LiveCtls
    <2> SUFFICES ASSUME NEW c \in Crtcs, IsSplit(cs[c]), on[cs[c].intf]
                 PROVE  cs[c].r_ctl \in LiveCtls
        OBVIOUS
    <2>1. cs[c].r_ctl = CtlOf(Slave(cs[c].intf)) /\ Slave(cs[c].intf) # 0
        BY <1>3 DEF RoutedState, IsSplit
    <2>2. cs[c].intf # 0
        BY <2>1 DEF Slave
    <2>3. cs[c].intf \in Running
        BY <1>3, <2>2 DEF RoutedState, Displays, Running
    <2> QED BY <2>1, <2>3 DEF LiveCtls, TakenCtls
<1>6. LiveCtls \subseteq Left \union Right
    <2> SUFFICES ASSUME NEW e \in Running, NEW x \in {e, Slave(e)} \ {0}
                 PROVE  CtlOf(x) \in Left \union Right
        BY DEF LiveCtls, TakenCtls
    <2>1. CASE x = e
        BY <1>2, <2>1 DEF Running
    <2>2. CASE x = Slave(e)
        <3>1. PICK c \in Crtcs : RoutedState(cs[c]) /\ cs[c].intf = e
            BY <2>2, RunningFor
        <3>2. IsSplit(cs[c]) /\ cs[c].r_ctl = CtlOf(x) /\ on[cs[c].intf]
            BY <2>2, <3>1 DEF RoutedState, IsSplit, Running
        <3> QED BY <3>1, <3>2
    <2> QED BY <2>1, <2>2
<1>7. live = Left \union Right
    <2> HIDE DEF Left, Right
    <2> QED BY <1>1, <1>4, <1>5, <1>6
<1>8. CmdCtls = {kms.encoders[e].ctl : e \in {x \in Encoders : IsCmd(x)}}
    BY <1>2 DEF CmdCtls
<1>9. \A e \in Encoders : on[e] /\ IsCmd(e) => kms.encoders[e].ctl \in hw.start
    BY <1>1, <1>2 DEF CmdRunning, Running
<1> QED BY <1>1, <1>7, <1>8, <1>9 DEF LiveTrue, Running

(* While no CRTC trades its mixers or its display in one commit, no two      *)
(* pictures meet on their way from CRTC to interface, through the tails of   *)
(* all CRTCs and whatever fails: interfaces, CTLs and vblank sources apart   *)
(* (mdp5_encoder_atomic_check, mdp5_crtc_setup_pipeline), timing engines,    *)
(* split block, tear checks, power and clock on exactly as long as needed    *)
(* (mdp5_encoder_enable, mdp5_encoder_disable and the calls below them).     *)
THEOREM RoutesCorrect ==
    ASSUME "mixers" \notin Switches, "display" \notin Switches
    PROVE  Spec => []RoutesSound
<1>1. Init => RInv
    BY InitRouted
<1>2. RInv /\ [Next]_vars => RInv'
    BY RInvNext
<1>3. RInv => RoutesSound
    BY RoutedTypes, ShownApart, SplitMatches, CountsMatch, LiveMatches DEF RoutesSound
<1> QED BY <1>1, <1>2, <1>3, PTL DEF Spec

-------------------------------------------------------------------------------
(* The pictures: what a commit enabled stays in the registers for as long as *)
(* it is shown, and that is what the properties compare with the mode.       *)

(* What a register bank f has at x.                                          *)
Holding(f, x, v) == x \in DOMAIN f /\ f[x] = v

LEMMA PutHolds ==
    ASSUME NEW f, NEW x, NEW v
    PROVE  Holding(Put(f, x, v), x, v)
    BY DEF Holding, Put

LEMMA PutKeeps ==
    ASSUME NEW f, NEW x, NEW v, NEW y, NEW w, Holding(f, y, w), x # y
    PROVE  Holding(Put(f, x, v), y, w)
    BY DEF Holding, Put

MixerWidth(s) == IF s.r_mixer # 0 THEN s.mode.hdisplay \div 2 ELSE s.mode.hdisplay

Packed(s) == s.r_mixer # 0 /\ ~IsSplit(s)

(* What pingpong_tearcheck_setup() enters for a mode.                        *)
TearOf(mode) ==
    [vsync_count |-> VSYNC_CLK_RATE \div (mode.vtotal * mode.vrefresh),
     height |-> 2 * mode.vtotal, start_pos |-> mode.vdisplay,
     rd_ptr_irq |-> mode.vdisplay + 1]

(* Mixers, routes, timing engines and tear checks have what the state s of a *)
(* CRTC asks for.                                                            *)
MixersProgrammed(s, out) ==
    /\ Holding(out, s.mixer, [width |-> MixerWidth(s), right |-> FALSE])
    /\ s.r_mixer # 0 =>
           Holding(out, s.r_mixer, [width |-> MixerWidth(s), right |-> ~IsSplit(s)])

RouteProgrammed(s, sel, op) ==
    /\ Holding(sel, Num(s.intf), kms.encoders[s.intf].type)
    /\ Holding(op, s.ctl, CtlOp(s.intf, Packed(s)))
    /\ IsSplit(s) => /\ Holding(sel, Num(s.r_intf), kms.encoders[s.r_intf].type)
                     /\ Holding(op, s.r_ctl, CtlOp(s.r_intf, FALSE))

TimingProgrammed(s, program) ==
    ~IsCmd(s.intf) =>
        /\ Holding(program, Num(s.intf), TimingOf(s))
        /\ IsSplit(s) => Holding(program, Num(s.r_intf), TimingOf(s))

TearProgrammed(s, pp) ==
    IsCmd(s.intf) => Holding(pp, Chip.lm[s.mixer].pp, TearOf(s.mode))

Programmed(s, reg) ==
    /\ MixersProgrammed(s, reg.out)
    /\ RouteProgrammed(s, reg.sel, reg.op)
    /\ TimingProgrammed(s, reg.program)
    /\ TearProgrammed(s, reg.pp)

(* What the check of DRM (drm_mode_validate_basic()) leaves of the order of  *)
(* the numbers of a mode, and two things this driver takes for granted: an   *)
(* even number of columns, because mdp5_crtc_mode_set_nofb() and             *)
(* mdp5_vid_encoder_mode_set() halve them, and two lines of front porch,     *)
(* because mdp5_crtc_get_scanout_position() counts one more line of picture. *)
Sane(mode) ==
    /\ mode.hdisplay > 0 /\ mode.hdisplay % 2 = 0 /\ mode.hdisplay <= mode.htotal
    /\ mode.vdisplay + 2 <= mode.vsync_start /\ mode.vsync_start <= mode.vtotal
    /\ mode.vrefresh > 0

ModesSane == \A type \in {"DSI", "HDMI"} : \A m \in Modes[type] : Sane(m)

(* The state of a CRTC that is on: a split display has two mixers.           *)
Wanted(s) ==
    /\ Sane(s.mode) /\ s.cmd_mode \in BOOLEAN
    /\ IsSplit(s) => s.r_mixer # 0

AllWanted == \A c \in Crtcs : cs[c].enc # 0 => Wanted(cs[c])

(* What a settled display asked for stands in the registers while it is on.  *)
AllProgrammed == \A c \in Settled : on[cs[c].enc] => Programmed(cs[c], hw)

PInv == RInv /\ AllWanted /\ AllProgrammed

(* The check gives a split display two mixers.                               *)
LEMMA MasksWanted ==
    ASSUME NEW s, DOMAIN s = StateFields
    PROVE  /\ Masks(s).cmd_mode \in BOOLEAN
           /\ Masks(s).r_mixer = s.r_mixer /\ Masks(s).r_intf = s.r_intf
<1> DEFINE er == {kms.encoders[e].num : e \in {s.intf, s.r_intf} \ {0}}
           vb == intf2vblank(s.mixer, s.intf)
           cm == IsCmd(s.intf)
           n == [s EXCEPT !.err = er, !.vblank = vb, !.cmd_mode = cm]
<1>1. Masks(s) = n
    BY DEF Masks
<1>2. cm \in BOOLEAN
    BY DEF IsCmd
<1> HIDE DEF er, vb, cm
<1> QED BY <1>1, <1>2 DEF StateFields

LEMMA SetupWanted ==
    ASSUME NEW c, NEW s, DOMAIN s = StateFields, NEW need \in BOOLEAN, IsSplit(s) => need,
           mdp5_crtc_setup_pipeline(c, s, need).ok
    PROVE  /\ mdp5_crtc_setup_pipeline(c, s, need).state.cmd_mode \in BOOLEAN
           /\ IsSplit(mdp5_crtc_setup_pipeline(c, s, need).state) =>
                 mdp5_crtc_setup_pipeline(c, s, need).state.r_mixer # 0
<1> DEFINE new == mdp5_crtc_setup_pipeline(c, s, need)
           a == mdp5_mixer_assign(c, s.mixer, need)
           New == s.mixer = 0 \/ need # (s.r_mixer # 0)
           t == [s EXCEPT !.mixer = a.mixer, !.r_mixer = a.r_mixer]
<1>1. CASE ~New
    <2>1. new.state = Masks(s) /\ (need => s.r_mixer # 0)
        BY <1>1 DEF mdp5_crtc_setup_pipeline
    <2> HIDE DEF new
    <2>2. new.state.cmd_mode \in BOOLEAN /\ (IsSplit(new.state) => new.state.r_mixer # 0)
        BY <2>1, MasksWanted DEF IsSplit
    <2> QED BY <2>2 DEF new
<1>2. CASE New
    <2>1. a.ok /\ new.state = Masks(t)
        BY <1>2 DEF mdp5_crtc_setup_pipeline
    <2>2. need => a.r_mixer # 0
        <3> DEFINE Reach == InReach(c, IF need THEN Paired ELSE Display)
                   Free == {m \in Reach : need => owner[get_right_pair_idx(m)] = 0}
                   Pairable == {m \in Free : "PAIR" \in Chip.lm[m].caps}
                   left == CASE Pairable # {} -> SetMax(Pairable)
                             [] Pairable = {} /\ s.mixer # 0 -> s.mixer
                             [] Pairable = {} /\ s.mixer = 0 /\ Free # {} -> SetMin(Free)
                             [] OTHER -> 0
                   right == IF need /\ Free # {} THEN get_right_pair_idx(SetMax(Free)) ELSE 0
        <3>1. ~(need /\ right = 0) /\ a.r_mixer = right
            BY <2>1 DEF mdp5_mixer_assign
        <3> HIDE DEF right, a
        <3> QED BY <3>1
    <2> HIDE DEF a
    <2>3. DOMAIN t = StateFields /\ t.r_mixer = a.r_mixer /\ t.r_intf = s.r_intf
        BY DEF StateFields
    <2> HIDE DEF t, new
    <2>4. /\ Masks(t).cmd_mode \in BOOLEAN
          /\ Masks(t).r_mixer = t.r_mixer /\ Masks(t).r_intf = t.r_intf
        BY <2>3, MasksWanted
    <2>5. new.state.cmd_mode \in BOOLEAN /\ (IsSplit(new.state) => new.state.r_mixer # 0)
        BY <2>1, <2>2, <2>3, <2>4 DEF IsSplit
    <2> QED BY <2>5 DEF new
<1> QED BY <1>1, <1>2

LEMMA CheckWanted ==
    ASSUME NEW c, DOMAIN cs[c] = StateFields, NEW r, r.enc # 0, AtomicCheck(c, r).ok
    PROVE  /\ AtomicCheck(c, r).state.cmd_mode \in BOOLEAN
           /\ IsSplit(AtomicCheck(c, r).state) => AtomicCheck(c, r).state.r_mixer # 0
<1> DEFINE new == AtomicCheck(c, r)
           asked == [cs[c] EXCEPT !.enc = r.enc, !.mode = r.mode]
           encoder == IF Modeset(c, r) THEN EncoderCheck(asked, r.enc)
                      ELSE [ok |-> TRUE, state |-> asked]
           s == encoder.state
           need == need_right_mixer(s, r)
           crtc == mdp5_crtc_setup_pipeline(c, s, need)
<1>1. DOMAIN asked = StateFields
    BY DEF StateFields
<1>2. DOMAIN s = StateFields
    <2> HIDE DEF asked
    <2>1. CASE Modeset(c, r)
        <3>1. s = EncoderCheck(asked, r.enc).state
            BY <2>1
        <3> HIDE DEF s
        <3> QED BY <1>1, <3>1, EncoderCheckRoutes
    <2>2. CASE ~Modeset(c, r)
        BY <1>1, <2>2
    <2> QED BY <2>1, <2>2
<1>3. need \in BOOLEAN /\ (IsSplit(s) => need)
    BY DEF need_right_mixer
<1>4. crtc.ok /\ new = crtc
    BY DEF AtomicCheck
<1> HIDE DEF s, need, new
<1>5. /\ crtc.state.cmd_mode \in BOOLEAN
      /\ IsSplit(crtc.state) => crtc.state.r_mixer # 0
    BY <1>2, <1>3, <1>4, SetupWanted
<1>6. new.state.cmd_mode \in BOOLEAN /\ (IsSplit(new.state) => new.state.r_mixer # 0)
    BY <1>4, <1>5
<1> QED BY <1>6 DEF new

(* User space asks for modes of the panel or the monitor.                    *)
LEMMA RequestSane ==
    ASSUME ModesSane, SInv, kms.phase = "up", NEW c, NEW r \in Requests(c), r.enc # 0
    PROVE  Sane(r.mode)
<1>1. r # Off
    BY DEF Off
<1>2. PICK e \in Encoders :
        \E m \in Modes[kms.encoders[e].type] : \E w \in BOOLEAN :
            r = [enc |-> e, mode |-> m, wide |-> w]
    BY <1>1 DEF Requests
<1>3. r.mode \in Modes[kms.encoders[e].type]
    BY <1>2
<1>4. kms.encoders[e].type \in {"DSI", "HDMI"}
    BY DEF SInv, EncodersKnown, Encoder
<1> QED BY <1>3, <1>4 DEF ModesSane

(* Programmed goes by the pipeline and the mode of a state, and by what      *)
(* stands once the driver is up.                                             *)
LEMMA ProgrammedSame ==
    ASSUME NEW s, NEW t, NEW reg, Programmed(s, reg), SameRoute(t, s), SameMixers(t, s),
           t.mode = s.mode
    PROVE  Programmed(t, reg)
<1>1. /\ MixerWidth(t) = MixerWidth(s) /\ (Packed(t) <=> Packed(s))
      /\ IsSplit(t) <=> IsSplit(s)
    BY DEF MixerWidth, Packed, SameRoute, SameMixers, IsSplit
<1>2. TimingOf(t) = TimingOf(s)
    BY DEF TimingOf, IsSplit, SameRoute
<1>3. MixersProgrammed(t, reg.out)
    BY <1>1 DEF Programmed, MixersProgrammed, SameMixers, IsSplit, SameRoute
<1>4. RouteProgrammed(t, reg.sel, reg.op)
    BY <1>1 DEF Programmed, RouteProgrammed, SameRoute, CtlOp, Packed, SameMixers, IsSplit
<1>5. TimingProgrammed(t, reg.program)
    BY <1>1, <1>2 DEF Programmed, TimingProgrammed, SameRoute
<1>6. TearProgrammed(t, reg.pp)
    BY DEF Programmed, TearProgrammed, SameRoute, SameMixers
<1> QED BY <1>3, <1>4, <1>5, <1>6 DEF Programmed

LEMMA ProgrammedStands ==
    ASSUME Standing, NEW c, Programmed(cs'[c], hw')
    PROVE  Programmed(cs[c], hw)'
    BY DEF Programmed, MixersProgrammed, RouteProgrammed, TimingProgrammed, TearProgrammed,
           Standing, Chip, CtlOp, Num, IsCmd

(* Nothing of a display that stays on is touched.                            *)
LEMMA SettledKept ==
    ASSUME AllProgrammed, Standing, hw' = hw, NEW c \in Settled, on[cs[c].enc],
           SameRoute(cs'[c], cs[c]), SameMixers(cs'[c], cs[c]), cs'[c].mode = cs[c].mode
    PROVE  Programmed(cs[c], hw)'
<1>1. Programmed(cs[c], hw)
    BY DEF AllProgrammed
<1>2. Programmed(cs'[c], hw)
    BY <1>1, ProgrammedSame
<1> QED BY <1>2, ProgrammedStands

(* A CRTC whose tail is done, in terms of the invariant.                     *)
LEMMA SettledParts ==
    ASSUME RInv, NEW c \in Crtcs
    PROVE  /\ kms.phase = "up" /\ DOMAIN cs[c] = StateFields
           /\ c \in Settled <=> cs[c].enc # 0 /\ tail[c].step = "idle"
           /\ c \in Settled => /\ cs[c].enc \in Displays /\ cs[c].intf = cs[c].enc
                               /\ cs[c].mixer # 0 /\ RoutedState(cs[c])
<1>1. kms.phase = "up"
    BY UpWithCrtcs DEF RInv, CInv
<1>2. TailShape(c) /\ RoutedState(cs[c]) /\ DOMAIN cs[c] = StateFields
    BY <1>1 DEF RInv, CInv, TInv, Tails, Routed, IInv, OwnerShape
<1>3. tail[c] = Idle <=> tail[c].step = "idle"
    <2>1. tail[c] \in [step : {"idle", "disable", "enable"}, enc : {0} \union Displays]
          /\ (tail[c].step = "idle" => tail[c].enc = 0)
        BY <1>2 DEF TailShape
    <2> QED BY <2>1 DEF Idle
<1>4. cs[c].enc # 0 => /\ cs[c].enc \in Displays /\ cs[c].intf = cs[c].enc
                       /\ cs[c].mixer # 0
    BY <1>2 DEF RoutedState, Borne
<1> QED BY <1>1, <1>2, <1>3, <1>4 DEF Settled, Shown

(* A commit without a modeset leaves the pipeline as the registers have it;  *)
(* with one, the CRTC is not settled any more.                               *)
LEMMA CommitPictures ==
    ASSUME PInv, RInv', ModesSane, "mixers" \notin Switches, NEW c \in Crtcs, Commit(c)
    PROVE  AllWanted' /\ AllProgrammed'
<1>1. /\ kms.phase = "up" /\ Standing /\ UNCHANGED <<users, on, irqs, vsync, live, hw>>
      /\ \A d \in Crtcs \ {c} : cs'[d] = cs[d] /\ tail'[d] = tail[d]
    BY CommitActive DEF PInv, RInv, CInv
<1>2. PICK r \in Requests(c) :
        /\ AtomicCheck(c, r).ok
        /\ cs' = [cs EXCEPT ![c] = AtomicCheck(c, r).state]
        /\ tail' = [tail EXCEPT ![c] = IF Modeset(c, r)
                                       THEN [step |-> "disable", enc |-> cs[c].enc]
                                       ELSE Idle]
    BY DEF Commit
<1>3. DOMAIN cs = Crtcs /\ DOMAIN tail = Crtcs /\ DOMAIN cs[c] = StateFields /\ tail[c] = Idle
    BY <1>1 DEF PInv, RInv, CInv, IInv, OwnerShape, TInv, Tails, Commit
<1>4. Checked(cs'[c], c, r)
    BY <1>2, <1>3, CheckRoutes
<1>5. r.enc # 0 => Wanted(cs'[c])
    <2> SUFFICES ASSUME r.enc # 0 PROVE Wanted(cs'[c])
        OBVIOUS
    <2>1. Sane(r.mode)
        BY <1>1, RequestSane DEF PInv, RInv, CInv
    <2>2. cs'[c].mode = r.mode
        BY <1>4 DEF Checked
    <2>3. cs'[c].cmd_mode \in BOOLEAN /\ (IsSplit(cs'[c]) => cs'[c].r_mixer # 0)
        BY <1>2, <1>3, CheckWanted
    <2> QED BY <2>1, <2>2, <2>3 DEF Wanted
<1>6. Crtcs' = Crtcs /\ cs'[c].enc = r.enc
    BY <1>1, <1>4, StandingKeeps DEF Checked
<1>7. AllWanted'
    <2>1. \A d \in Crtcs : cs'[d].enc # 0 => Wanted(cs'[d])
        BY <1>1, <1>5, <1>6 DEF PInv, AllWanted
    <2> QED BY <1>6, <2>1 DEF AllWanted, Wanted, Sane, IsSplit
<1>8. ASSUME NEW d \in Settled', on'[cs'[d].enc]
      PROVE  Programmed(cs[d], hw)'
    <2>1. d \in Crtcs
        BY <1>6 DEF Settled, Shown
    <2>2. CASE d # c
        <3>1. d \in Settled /\ on[cs[d].enc] /\ cs'[d] = cs[d] /\ DOMAIN cs[d] = StateFields
            BY <1>1, <1>8, <2>1, <2>2 DEF Settled, Shown, PInv, RInv, CInv, IInv, OwnerShape
        <3>2. SameRoute(cs'[d], cs[d]) /\ SameMixers(cs'[d], cs[d])
            BY <3>1 DEF SameRoute, SameMixers
        <3> QED BY <1>1, <3>1, <3>2, SettledKept DEF PInv
    <2>3. CASE d = c
        <3>1. ~Modeset(c, r)
            <4>1. tail'[c] = Idle
                BY <1>8, <2>3 DEF Settled
            <4> QED BY <1>2, <1>3, <4>1 DEF Idle
        <3>2. cs'[c].enc = cs[c].enc /\ cs'[c].mode = cs[c].mode /\ r.enc = cs[c].enc
            BY <1>4, <3>1 DEF Checked, Modeset
        <3>3. cs[c].enc # 0
            BY <1>6, <1>8, <2>3, <3>2 DEF Settled, Shown
        <3>4. c \in Settled /\ on[cs[c].enc]
            BY <1>1, <1>3, <1>8, <2>3, <3>2, <3>3 DEF Settled, Shown
        <3>5. SameRoute(cs'[c], cs[c])
            BY <1>4, <3>1, <3>2, <3>3 DEF Checked
        <3>6. cs[c].mixer # 0
            BY <3>4, SettledParts DEF PInv
        <3>7. SameMixers(cs'[c], cs[c])
            BY <3>6, CommitMixers DEF PInv, RInv, CInv
        <3> QED BY <1>1, <2>3, <3>2, <3>4, <3>5, <3>7, SettledKept DEF PInv
    <2> QED BY <2>2, <2>3
<1> QED BY <1>7, <1>8 DEF AllProgrammed

LEMMA WantedKept ==
    ASSUME AllWanted, Standing, cs' = cs
    PROVE  AllWanted'
    BY StandingKeeps DEF AllWanted, Wanted, Sane, IsSplit

(* What is disabled leaves the pipeline of the others as it is.              *)
LEMMA DisablePictures ==
    ASSUME PInv, RInv', NEW c \in Crtcs, Disable(c)
    PROVE  AllWanted' /\ AllProgrammed'
<1>1. /\ kms.phase = "up" /\ Standing /\ cs' = cs /\ tail[c].step = "disable"
      /\ tail'[c].step = "enable" /\ \A d \in Crtcs \ {c} : tail'[d] = tail[d]
    BY UpWithCrtcs, DisableShape DEF PInv, RInv, CInv
<1>2. Crtcs' = Crtcs /\ Encoders' = Encoders
    BY <1>1, StandingKeeps
<1>3. AllWanted'
    BY <1>1, WantedKept DEF PInv
<1>4. DOMAIN hw = HwFields
    BY DEF PInv, RInv
<1>5. /\ hw'.out = hw.out /\ hw'.sel = hw.sel /\ hw'.op = hw.op
      /\ hw'.program = hw.program /\ hw'.pp = hw.pp
    <2> DEFINE e == tail[c].enc
               less == hw.timing \ {Num(e)}
               keep == hw.split /\ ~IsSplit(cs[c])
               tear == hw.tear \ {Chip.lm[cs[c].mixer].pp}
    <2>1. \/ hw' = hw
          \/ hw' = [hw EXCEPT !.timing = less, !.split = keep]
          \/ hw' = [hw EXCEPT !.tear = tear]
        BY DEF Disable, mdp5_encoder_disable, mdp5_vid_encoder_disable, mdp5_cmd_encoder_disable
    <2> HIDE DEF less, keep, tear
    <2> QED BY <1>4, <2>1 DEF HwFields
<1>6. ASSUME NEW d \in Settled', on'[cs'[d].enc]
      PROVE  Programmed(cs[d], hw)'
    <2>1. d \in Crtcs /\ d # c
        BY <1>1, <1>2, <1>6 DEF Settled, Shown, Idle
    <2>2. d \in Settled
        BY <1>1, <1>2, <1>6, <2>1 DEF Settled, Shown
    <2>3. cs[d].enc \in Encoders
        BY <2>1, <2>2, SettledParts DEF PInv, Displays
    <2>4. on[cs[d].enc]
        <3>1. cs[d].enc \in Running'
            BY <1>1, <1>2, <1>6, <2>3 DEF Running
        <3>2. Running' = Running \ {tail[c].enc}
            BY DisableOn DEF PInv, RInv
        <3> QED BY <3>1, <3>2 DEF Running
    <2>5. Programmed(cs[d], hw)
        BY <2>2, <2>4 DEF PInv, AllProgrammed
    <2>6. Programmed(cs[d], hw')
        BY <1>5, <2>5 DEF Programmed
    <2> QED BY <1>1, <2>6, ProgrammedStands
<1> QED BY <1>3, <1>6 DEF AllProgrammed

(* The second half of a tail writes mixers, routes and either the timing     *)
(* engines or the tear check.                                                *)
LEMMA EnableWrites ==
    ASSUME DOMAIN hw = HwFields, NEW e, NEW s, mdp5_encoder_enable(e, s)
    PROVE  /\ hw'.out = mdp5_crtc_mode_set_nofb(s)
           /\ hw'.sel = mdp5_crtc_set_pipeline(s).sel
           /\ hw'.op = mdp5_crtc_set_pipeline(s).op
           /\ ~IsCmd(e) => hw'.program = mdp5_vid_encoder_mode_set(s) /\ hw'.pp = hw.pp
           /\ IsCmd(e) => /\ hw'.program = hw.program
                          /\ \/ hw'.pp = pingpong_tearcheck_setup(s)
                             \/ hw'.pp = hw.pp /\ UNCHANGED on
<1> DEFINE route == mdp5_crtc_set_pipeline(s)
           o == mdp5_crtc_mode_set_nofb(s)
           sel == route.sel
           op == route.op
           set == [hw EXCEPT !.out = o, !.sel = sel, !.op = op]
           pr == mdp5_vid_encoder_mode_set(s)
           sp == set.split \/ IsSplit(s)
           ti == set.timing \union {Num(e)}
           pp == pingpong_tearcheck_setup(s)
           te == set.tear \union {Chip.lm[s.mixer].pp}
           st == set.start \union send_start_signal(e, s)
<1>1. \/ ~IsCmd(e) /\ hw' = [set EXCEPT !.program = pr, !.split = sp, !.timing = ti]
      \/ IsCmd(e) /\ hw' = [set EXCEPT !.pp = pp, !.tear = te, !.start = st]
      \/ IsCmd(e) /\ hw' = set /\ UNCHANGED on
      \/ IsCmd(e) /\ hw' = [set EXCEPT !.pp = pp]
    BY DEF mdp5_encoder_enable
<1> HIDE DEF o, sel, op
<1>2. /\ DOMAIN set = HwFields /\ set.out = o /\ set.sel = sel /\ set.op = op
      /\ set.program = hw.program /\ set.pp = hw.pp
    BY DEF HwFields
<1> HIDE DEF set, pr, sp, ti, pp, te, st
<1>3. hw'.out = o /\ hw'.sel = sel /\ hw'.op = op
    BY <1>1, <1>2 DEF HwFields
<1>4. ~IsCmd(e) => hw'.program = pr /\ hw'.pp = hw.pp
    BY <1>1, <1>2 DEF HwFields
<1>5. IsCmd(e) => hw'.program = hw.program /\ (hw'.pp = pp \/ (hw'.pp = hw.pp /\ UNCHANGED on))
    BY <1>1, <1>2 DEF HwFields
<1> QED BY <1>3, <1>4, <1>5 DEF o, sel, op, pr, pp

(* Mixers of a CRTC, its interfaces and its CTLs are of its own.             *)
LEMMA OwnKeys ==
    ASSUME RInv, NEW c \in Crtcs, cs[c].enc # 0
    PROVE  /\ cs[c].mixer # 0 /\ cs[c].r_mixer # cs[c].mixer
           /\ cs[c].intf = cs[c].enc /\ cs[c].enc \in Displays /\ cs[c].intf # 0
           /\ cs[c].ctl = CtlOf(cs[c].intf) /\ cs[c].ctl # 0
           /\ IsSplit(cs[c]) => /\ cs[c].r_ctl # 0 /\ cs[c].r_ctl # cs[c].ctl
                                /\ Num(cs[c].r_intf) # Num(cs[c].intf)
                                /\ ~IsCmd(cs[c].intf) /\ ~IsCmd(cs[c].r_intf)
                                /\ cs[c].r_intf \in Encoders
                                /\ kms.encoders[cs[c].r_intf].type = kms.encoders[cs[c].intf].type
<1>1. kms.phase = "up" /\ SInv
    BY UpWithCrtcs DEF RInv, CInv
<1> DEFINE s == cs[c]
<1>2. RoutedState(s)
    BY <1>1 DEF RInv, CInv, Routed
<1>3. /\ s.intf = s.enc /\ s.enc \in Displays /\ s.mixer # 0
      /\ s.ctl = CtlOf(s.intf) /\ s.r_intf = Slave(s.intf) /\ s.r_ctl = CtlOf(s.r_intf)
    BY <1>2 DEF RoutedState, Borne
<1>4. s.r_mixer # s.mixer
    BY <1>3 DEF RInv, CInv, IInv, HalvesApart
<1>5. s.intf \in Encoders /\ CtlOf(s.intf) # 0
    BY <1>1, <1>3, EncoderFacts DEF Displays
<1>6. ASSUME IsSplit(s)
      PROVE  /\ s.r_ctl # 0 /\ s.r_ctl # s.ctl /\ Num(s.r_intf) # Num(s.intf)
             /\ ~IsCmd(s.intf) /\ ~IsCmd(s.r_intf) /\ s.r_intf \in Encoders
             /\ kms.encoders[s.r_intf].type = kms.encoders[s.intf].type
    <2>1. /\ s.r_intf \in Encoders /\ Num(s.intf) = 1 /\ Num(s.r_intf) = 2
          /\ ~IsCmd(s.intf)
        BY <1>1, <1>3, <1>5, <1>6, SlaveFacts DEF IsSplit
    <2>2. CtlOf(s.r_intf) # 0 /\ CtlOf(s.r_intf) # CtlOf(s.intf)
        BY <1>1, <1>5, <2>1, EncoderFacts
    <2>3. mdp5_encoder_is_split_master(s.intf) /\ board.bonded /\ ~board.cmd
        <3>1. mdp5_encoder_is_split_master(s.intf)
            BY <1>3, <1>6 DEF Slave, IsSplit
        <3> QED BY <1>1, <3>1, BoardsAssumption DEF mdp5_encoder_is_split_master, SInv
    <2>4. ~IsCmd(s.r_intf)
        BY <1>1, <2>1, <2>3, EncoderFacts
    <2>5. kms.encoders[s.intf].type = "DSI"
        BY <2>3 DEF mdp5_encoder_is_split_master
    <2>6. kms.encoders[s.r_intf].type = "DSI"
        BY <1>1, <2>1, EncoderFacts DEF SInv, EncodersKnown, ChipWires
    <2> QED BY <1>3, <2>1, <2>2, <2>4, <2>5, <2>6
<1> QED BY <1>3, <1>4, <1>5, <1>6

(* What two CRTCs write is apart.                                            *)
LEMMA KeysApart ==
    ASSUME RInv, NEW c \in Crtcs, NEW d \in Crtcs, c # d, cs[c].enc # 0, cs[d].enc # 0
    PROVE  /\ MixersOf(cs[c]) \intersect MixersOf(cs[d]) = {}
           /\ Intfs(cs[c]) \intersect Intfs(cs[d]) = {}
           /\ Ctls(cs[c]) \intersect Ctls(cs[d]) = {}
           /\ IsCmd(cs[c].intf) /\ IsCmd(cs[d].intf) => PingPong(c) # PingPong(d)
<1>1. c \in Shown /\ d \in Shown
    BY DEF Shown
<1>2. /\ Intfs(cs[c]) \intersect Intfs(cs[d]) = {}
      /\ Ctls(cs[c]) \intersect Ctls(cs[d]) = {}
    BY <1>1, ShownApart DEF RoutesExclusive
<1>3. MixersOf(cs[c]) \intersect MixersOf(cs[d]) = {}
    BY DEF RInv, CInv, IInv, TableAgrees
<1>4. IsCmd(cs[c].intf) /\ IsCmd(cs[d].intf) => PingPong(c) # PingPong(d)
    BY OwnKeys, PingPongApart DEF RInv, CInv, Command
<1> QED BY <1>2, <1>3, <1>4

(* The mixers of s and nothing else of out.                                  *)
LEMMA WritesMixers ==
    ASSUME NEW s, s.mixer # 0, s.r_mixer # s.mixer
    PROVE  /\ MixersProgrammed(s, mdp5_crtc_mode_set_nofb(s))
           /\ \A m, v : m \notin MixersOf(s) /\ m # 0 /\ Holding(hw.out, m, v) =>
                  Holding(mdp5_crtc_mode_set_nofb(s), m, v)
<1> DEFINE w == MixerWidth(s)
           left == Put(hw.out, s.mixer, [width |-> w, right |-> FALSE])
           both == Put(left, s.r_mixer, [width |-> w, right |-> ~IsSplit(s)])
           o == mdp5_crtc_mode_set_nofb(s)
<1>1. o = IF s.r_mixer = 0 THEN left ELSE both
    BY DEF mdp5_crtc_mode_set_nofb, MixerWidth
<1> HIDE DEF w, o
<1>2. Holding(left, s.mixer, [width |-> w, right |-> FALSE])
    BY PutHolds
<1>3. \A m, v : m \notin MixersOf(s) /\ m # 0 /\ Holding(hw.out, m, v) => Holding(left, m, v)
    BY PutKeeps DEF MixersOf
<1> HIDE DEF left
<1>4. Holding(both, s.r_mixer, [width |-> w, right |-> ~IsSplit(s)])
    BY PutHolds
<1>5. \A m, v : m # s.r_mixer /\ Holding(left, m, v) => Holding(both, m, v)
    BY PutKeeps
<1> HIDE DEF both
<1>6. /\ Holding(o, s.mixer, [width |-> w, right |-> FALSE])
      /\ s.r_mixer # 0 => Holding(o, s.r_mixer, [width |-> w, right |-> ~IsSplit(s)])
    BY <1>1, <1>2, <1>4, <1>5
<1>7. \A m, v : m \notin MixersOf(s) /\ m # 0 /\ Holding(hw.out, m, v) => Holding(o, m, v)
    BY <1>1, <1>3, <1>5 DEF MixersOf
<1> QED BY <1>6, <1>7 DEF MixersProgrammed, o, w

(* Its routes.                                                               *)
LEMMA WritesRoute ==
    ASSUME NEW s, s.intf # 0, s.ctl # 0,
           IsSplit(s) => s.r_ctl # 0 /\ s.r_ctl # s.ctl /\ Num(s.r_intf) # Num(s.intf)
    PROVE  /\ RouteProgrammed(s, mdp5_crtc_set_pipeline(s).sel, mdp5_crtc_set_pipeline(s).op)
           /\ \A i, v : i \notin Intfs(s) /\ Holding(hw.sel, i, v) =>
                  Holding(mdp5_crtc_set_pipeline(s).sel, i, v)
           /\ \A m, v : m \notin Ctls(s) /\ m # 0 /\ Holding(hw.op, m, v) =>
                  Holding(mdp5_crtc_set_pipeline(s).op, m, v)
<1> DEFINE p == Packed(s)
           t == kms.encoders[s.intf].type
           rt == kms.encoders[s.r_intf].type
           x == CtlOp(s.intf, p)
           rx == CtlOp(s.r_intf, FALSE)
           i == Num(s.intf)
           ri == Num(s.r_intf)
           sel1 == Put(hw.sel, i, t)
           op1 == Put(hw.op, s.ctl, x)
           sel2 == Put(sel1, ri, rt)
           op2 == Put(op1, s.r_ctl, rx)
           sel == mdp5_crtc_set_pipeline(s).sel
           op == mdp5_crtc_set_pipeline(s).op
<1>1. /\ sel = IF IsSplit(s) THEN sel2 ELSE sel1
      /\ op = IF IsSplit(s) THEN op2 ELSE op1
    BY DEF mdp5_crtc_set_pipeline, Packed
<1>2. i \in Intfs(s) /\ (IsSplit(s) => ri \in Intfs(s))
    BY DEF Intfs, IsSplit
<1>3. s.ctl \in Ctls(s) /\ (IsSplit(s) => s.r_ctl \in Ctls(s))
    BY DEF Ctls
<1> HIDE DEF x, rx, t, rt, i, ri, sel, op
<1>4. /\ Holding(sel1, i, t) /\ Holding(op1, s.ctl, x)
      /\ \A k, v : k # i /\ Holding(hw.sel, k, v) => Holding(sel1, k, v)
      /\ \A k, v : k # s.ctl /\ Holding(hw.op, k, v) => Holding(op1, k, v)
    BY PutHolds, PutKeeps
<1> HIDE DEF sel1, op1
<1>5. /\ Holding(sel2, ri, rt) /\ Holding(op2, s.r_ctl, rx)
      /\ \A k, v : k # ri /\ Holding(sel1, k, v) => Holding(sel2, k, v)
      /\ \A k, v : k # s.r_ctl /\ Holding(op1, k, v) => Holding(op2, k, v)
    BY PutHolds, PutKeeps
<1> HIDE DEF sel2, op2
<1>6. /\ Holding(sel, i, t) /\ Holding(op, s.ctl, x)
      /\ IsSplit(s) => Holding(sel, ri, rt) /\ Holding(op, s.r_ctl, rx)
    <2>1. IsSplit(s) => i # ri
        BY DEF i, ri
    <2> QED BY <1>1, <1>4, <1>5, <2>1
<1>7. /\ \A k, v : k \notin Intfs(s) /\ Holding(hw.sel, k, v) => Holding(sel, k, v)
      /\ \A k, v : k \notin Ctls(s) /\ k # 0 /\ Holding(hw.op, k, v) => Holding(op, k, v)
    BY <1>1, <1>2, <1>3, <1>4, <1>5
<1> QED BY <1>6, <1>7 DEF RouteProgrammed, sel, op, x, rx, t, rt, i, ri

(* Its timing engines.                                                       *)
LEMMA WritesTiming ==
    ASSUME NEW s, s.intf # 0
    PROVE  /\ TimingProgrammed(s, mdp5_vid_encoder_mode_set(s))
           /\ \A i, v : i \notin Intfs(s) /\ Holding(hw.program, i, v) =>
                  Holding(mdp5_vid_encoder_mode_set(s), i, v)
<1> DEFINE i == Num(s.intf)
           ri == Num(s.r_intf)
           t == TimingOf(s)
           left == Put(hw.program, i, t)
           both == Put(left, ri, t)
           p == mdp5_vid_encoder_mode_set(s)
<1>1. p = IF IsSplit(s) THEN both ELSE left
    BY DEF mdp5_vid_encoder_mode_set
<1>2. i \in Intfs(s) /\ (IsSplit(s) => ri \in Intfs(s))
    BY DEF Intfs, IsSplit
<1> HIDE DEF i, ri, t, p
<1>3. /\ Holding(left, i, t)
      /\ \A k, v : k # i /\ Holding(hw.program, k, v) => Holding(left, k, v)
    BY PutHolds, PutKeeps
<1> HIDE DEF left
<1>4. /\ Holding(both, ri, t)
      /\ \A k, v : k # ri /\ Holding(left, k, v) => Holding(both, k, v)
    BY PutHolds, PutKeeps
<1> HIDE DEF both
<1>5. Holding(p, i, t) /\ (IsSplit(s) => Holding(p, ri, t))
    BY <1>1, <1>3, <1>4
<1>6. \A k, v : k \notin Intfs(s) /\ Holding(hw.program, k, v) => Holding(p, k, v)
    BY <1>1, <1>2, <1>3, <1>4
<1> QED BY <1>5, <1>6 DEF TimingProgrammed, p, i, ri, t

(* Its ping-pong block.                                                      *)
LEMMA WritesTear ==
    ASSUME NEW s, Sane(s.mode), s.mode \in ModeType
    PROVE  /\ TearProgrammed(s, pingpong_tearcheck_setup(s))
           /\ \A k, v : k # Chip.lm[s.mixer].pp /\ Holding(hw.pp, k, v) =>
                  Holding(pingpong_tearcheck_setup(s), k, v)
<1> DEFINE l == s.mode.vtotal * s.mode.vrefresh
<1>1. s.mode.vtotal \in Nat /\ s.mode.vrefresh \in Nat /\ s.mode.vdisplay \in Nat
      /\ s.mode.vsync_start \in Nat
    BY DEF ModeType
<1>2. s.mode.vtotal # 0 /\ s.mode.vrefresh # 0
    BY <1>1 DEF Sane
<1>3. l # 0
    BY <1>1, <1>2
<1>4. pingpong_tearcheck_setup(s) = Put(hw.pp, Chip.lm[s.mixer].pp, TearOf(s.mode))
    BY <1>3 DEF pingpong_tearcheck_setup, TearOf
<1> QED BY <1>4, PutHolds, PutKeeps DEF TearProgrammed

(* What is enabled is programmed, and what was programmed stays.             *)
LEMMA EnablePictures ==
    ASSUME PInv, RInv', NEW c \in Crtcs, Enable(c)
    PROVE  AllWanted' /\ AllProgrammed'
<1>1. /\ kms.phase = "up" /\ Standing /\ cs' = cs /\ tail[c].step = "enable"
      /\ \A d \in Crtcs \ {c} : tail'[d] = tail[d]
    BY UpWithCrtcs, EnableShape DEF PInv, RInv, CInv
<1>2. Crtcs' = Crtcs /\ Encoders' = Encoders
    BY <1>1, StandingKeeps
<1>3. AllWanted'
    BY <1>1, WantedKept DEF PInv
<1>4. DOMAIN hw = HwFields
    BY DEF PInv, RInv
<1>5. /\ cs[c].enc \notin Running
      /\ \A e \in Encoders \ {cs[c].enc} : on'[e] = on[e]
    BY EnableOn DEF PInv, RInv
<1>6. ASSUME NEW d \in Settled', on'[cs'[d].enc], d # c
      PROVE  /\ d \in Crtcs /\ cs[d].enc # 0 /\ cs[d].enc \in Running
             /\ Programmed(cs[d], hw)
    <2>1. d \in Settled /\ d \in Crtcs
        BY <1>1, <1>2, <1>6 DEF Settled, Shown
    <2>2. cs[d].enc # 0 /\ cs[d].enc \in Encoders
        BY <2>1, SettledParts DEF PInv, Displays
    <2>3. cs[d].enc # cs[c].enc
        <3>1. Holds(c) \intersect Holds(d) = {}
            BY <1>1, <1>6, <2>1 DEF PInv, RInv, CInv, TInv, HoldersApart
        <3> QED BY <2>2, <3>1 DEF Holds
    <2>4. on[cs[d].enc]
        BY <1>1, <1>5, <1>6, <2>2, <2>3
    <2> QED BY <2>1, <2>2, <2>4 DEF Running, PInv, AllProgrammed
<1>7. CASE cs[c].enc = 0
    <2>1. ASSUME NEW d \in Settled', on'[cs'[d].enc]
          PROVE  Programmed(cs[d], hw)'
        <3>1. d # c
            BY <1>1, <1>7, <2>1 DEF Settled, Shown
        <3>2. cs[d].enc \in Running /\ Programmed(cs[d], hw)
            BY <1>6, <2>1, <3>1
        <3>3. users # 1
            BY <1>1, <3>2, LastUser DEF PInv, RInv
        <3>4. hw' = hw
            BY <1>7, <3>3 DEF Enable
        <3> QED BY <1>1, <3>2, <3>4, ProgrammedStands
    <2> QED BY <1>3, <2>1 DEF AllProgrammed
<1>8. CASE cs[c].enc # 0
    <2> DEFINE s == cs[c]
               e == cs[c].enc
    <2>1. mdp5_encoder_enable(e, s)
        BY <1>8 DEF Enable
    <2>2. /\ s.mixer # 0 /\ s.r_mixer # s.mixer /\ s.intf = e /\ s.intf # 0 /\ s.ctl # 0
          /\ IsSplit(s) => /\ s.r_ctl # 0 /\ s.r_ctl # s.ctl /\ Num(s.r_intf) # Num(s.intf)
        BY <1>8, OwnKeys DEF PInv
    <2>3. Sane(s.mode) /\ s.mode \in ModeType
        BY <1>1, <1>8 DEF PInv, AllWanted, Wanted, RInv, CInv, Routed, RoutedState
    <2>4. /\ hw'.out = mdp5_crtc_mode_set_nofb(s)
          /\ hw'.sel = mdp5_crtc_set_pipeline(s).sel
          /\ hw'.op = mdp5_crtc_set_pipeline(s).op
          /\ ~IsCmd(e) => hw'.program = mdp5_vid_encoder_mode_set(s) /\ hw'.pp = hw.pp
          /\ IsCmd(e) => /\ hw'.program = hw.program
                         /\ \/ hw'.pp = pingpong_tearcheck_setup(s)
                            \/ hw'.pp = hw.pp /\ UNCHANGED on
        BY <1>4, <2>1, EnableWrites
    <2> HIDE DEF s, e
    <2>5. /\ MixersProgrammed(s, hw'.out)
          /\ \A m, v : m \notin MixersOf(s) /\ m # 0 /\ Holding(hw.out, m, v) =>
                 Holding(hw'.out, m, v)
        BY <2>2, <2>4, WritesMixers
    <2>6. /\ RouteProgrammed(s, hw'.sel, hw'.op)
          /\ \A i, v : i \notin Intfs(s) /\ Holding(hw.sel, i, v) => Holding(hw'.sel, i, v)
          /\ \A m, v : m \notin Ctls(s) /\ m # 0 /\ Holding(hw.op, m, v) =>
                 Holding(hw'.op, m, v)
        BY <2>2, <2>4, WritesRoute
    <2>7. /\ ~IsCmd(e) => TimingProgrammed(s, hw'.program)
          /\ \A i, v : i \notin Intfs(s) /\ Holding(hw.program, i, v) =>
                 Holding(hw'.program, i, v)
        BY <2>2, <2>4, WritesTiming
    <2>8. /\ hw'.pp # hw.pp => TearProgrammed(s, hw'.pp)
          /\ IsCmd(e) => TearProgrammed(s, hw'.pp) \/ UNCHANGED on
          /\ \A k, v : ~(IsCmd(e) /\ k = Chip.lm[s.mixer].pp) /\ Holding(hw.pp, k, v) =>
                 Holding(hw'.pp, k, v)
        BY <2>3, <2>4, WritesTear
    <2>9. ASSUME on'[e] PROVE Programmed(s, hw')
        <3>1. on' # on
            <4>1. e \in Encoders
                BY <1>8, OwnKeys DEF PInv, Displays, e
            <4> QED BY <1>5, <2>9, <4>1 DEF Running, e
        <3>2. TimingProgrammed(s, hw'.program)
            BY <2>2, <2>7 DEF TimingProgrammed
        <3>3. TearProgrammed(s, hw'.pp)
            BY <2>2, <2>8, <3>1 DEF TearProgrammed
        <3> QED BY <2>5, <2>6, <3>2, <3>3 DEF Programmed
    <2>10. ASSUME NEW d \in Settled', on'[cs'[d].enc], d # c
           PROVE  Programmed(cs[d], hw')
        <3> DEFINE t == cs[d]
        <3>1. d \in Crtcs /\ t.enc # 0 /\ Programmed(t, hw)
            BY <1>6, <2>10
        <3>2. /\ t.mixer # 0 /\ t.intf # 0 /\ t.ctl # 0
              /\ IsSplit(t) => t.r_ctl # 0 /\ t.r_intf # 0
            BY <3>1, OwnKeys DEF PInv, IsSplit
        <3>3. /\ MixersOf(s) \intersect MixersOf(t) = {}
              /\ Intfs(s) \intersect Intfs(t) = {}
              /\ Ctls(s) \intersect Ctls(t) = {}
              /\ IsCmd(s.intf) /\ IsCmd(t.intf) => Chip.lm[s.mixer].pp # Chip.lm[t.mixer].pp
            BY <1>8, <2>10, <3>1, KeysApart DEF PInv, s, PingPong
        <3> HIDE DEF t
        <3>4. MixersProgrammed(t, hw'.out)
            <4>1. t.mixer \notin MixersOf(s) /\ (t.r_mixer # 0 => t.r_mixer \notin MixersOf(s))
                BY <3>2, <3>3 DEF MixersOf
            <4> QED BY <2>5, <3>1, <3>2, <4>1 DEF Programmed, MixersProgrammed
        <3>5. Num(t.intf) \notin Intfs(s) /\ (IsSplit(t) => Num(t.r_intf) \notin Intfs(s))
            BY <3>2, <3>3 DEF Intfs
        <3>6. t.ctl \notin Ctls(s) /\ (IsSplit(t) => t.r_ctl \notin Ctls(s))
            BY <3>2, <3>3 DEF Ctls
        <3>7. RouteProgrammed(t, hw'.sel, hw'.op)
            BY <2>6, <3>1, <3>2, <3>5, <3>6 DEF Programmed, RouteProgrammed
        <3>8. TimingProgrammed(t, hw'.program)
            BY <2>7, <3>1, <3>5 DEF Programmed, TimingProgrammed
        <3>9. TearProgrammed(t, hw'.pp)
            BY <2>2, <2>8, <3>1, <3>3 DEF Programmed, TearProgrammed
        <3> QED BY <3>4, <3>7, <3>8, <3>9 DEF Programmed, t
    <2>11. ASSUME NEW d \in Settled', on'[cs'[d].enc]
           PROVE  Programmed(cs[d], hw)'
        <3>1. Programmed(cs'[d], hw')
            BY <1>1, <2>9, <2>10, <2>11 DEF s, e
        <3> QED BY <1>1, <3>1, ProgrammedStands
    <2> QED BY <1>3, <2>11 DEF AllProgrammed
<1> QED BY <1>7, <1>8

LEMMA PInvNext ==
    ASSUME PInv, ModesSane, "mixers" \notin Switches, "display" \notin Switches, [Next]_vars
    PROVE  PInv'
<1>1. RInv'
    BY RInvNext DEF PInv
<1>2. CASE KmsInit
    <2>1. PICK n : cs' = [c \in 1..n |-> OffState] /\ kms'.crtcs = n
        BY <1>2 DEF KmsInit, modeset_init
    <2>2. \A c \in Crtcs' : cs'[c].enc = 0
        BY <2>1 DEF Crtcs, OffState
    <2> QED BY <1>1, <2>2 DEF PInv, AllWanted, AllProgrammed, Settled, Shown
<1>3. CASE KmsInitFails
    <2>1. kms' = NoKms("failed")
        BY <1>3 DEF KmsInitFails
    <2>2. kms'.crtcs = 0
        BY <2>1 DEF NoKms
    <2>3. Crtcs' = {}
        BY <2>2 DEF Crtcs
    <2> QED BY <1>1, <2>3 DEF PInv, AllWanted, AllProgrammed, Settled, Shown
<1>4. CASE \E c \in Crtcs : Commit(c) \/ Disable(c) \/ Enable(c)
    BY <1>1, <1>4, CommitPictures, DisablePictures, EnablePictures DEF PInv
<1>5. CASE UNCHANGED vars
    <2>1. Standing /\ hw' = hw /\ cs' = cs /\ tail' = tail /\ on' = on
        BY <1>5 DEF vars, Standing
    <2>2. Crtcs' = Crtcs
        BY <2>1, StandingKeeps
    <2>3. AllWanted'
        BY <2>1, WantedKept DEF PInv
    <2>4. Settled' = Settled
        BY <2>1, <2>2 DEF Settled, Shown
    <2>5. ASSUME NEW d \in Settled, on[cs[d].enc] PROVE Programmed(cs[d], hw)'
        BY <2>1, <2>5, ProgrammedStands DEF PInv, AllProgrammed
    <2> QED BY <1>1, <2>1, <2>3, <2>4, <2>5 DEF PInv, AllProgrammed
<1> QED BY <1>2, <1>3, <1>4, <1>5 DEF Next

LEMMA InitPictures == ASSUME Init PROVE PInv
<1>1. kms.crtcs = 0
    BY DEF Init, NoKms
<1>2. Crtcs = {}
    BY <1>1 DEF Crtcs
<1> QED BY <1>2, InitRouted DEF PInv, AllWanted, AllProgrammed, Settled, Shown

-------------------------------------------------------------------------------
(* A number of whole lines, and the dot before them.                         *)
LEMMA WholeLines ==
    ASSUME NEW h \in Nat, h > 0, NEW k \in Nat
    PROVE  /\ (k * h) \div h = k
           /\ (k * h - 1) \div h = k - 1
<1>1. k * h \in Nat
    OBVIOUS
<1>2. (k * h) \div h = k
    <2> DEFINE q == (k * h) \div h
    <2>1. q \in Int /\ q * h <= k * h /\ k * h < (q + 1) * h
        BY <1>1
    <2> HIDE DEF q
    <2>2. ~(q < k)
        <3> SUFFICES ASSUME q + 1 <= k PROVE FALSE
            BY <2>1
        <3>1. (q + 1) * h <= k * h
            BY <2>1
        <3> QED BY <2>1, <3>1
    <2>3. ~(q > k)
        <3> SUFFICES ASSUME k + 1 <= q PROVE FALSE
            BY <2>1
        <3>1. (k + 1) * h <= q * h
            BY <2>1
        <3> QED BY <2>1, <3>1
    <2> QED BY <2>1, <2>2, <2>3 DEF q
<1>3. (k * h - 1) \div h = k - 1
    <2> DEFINE q == (k * h - 1) \div h
    <2>1. q \in Int /\ q * h <= k * h - 1 /\ k * h - 1 < (q + 1) * h
        BY <1>1
    <2> HIDE DEF q
    <2>2. ~(q < k - 1)
        <3> SUFFICES ASSUME q + 1 <= k - 1 PROVE FALSE
            BY <2>1
        <3>1. (q + 1) * h <= (k - 1) * h
            BY <2>1
        <3>2. (k - 1) * h = k * h - h
            OBVIOUS
        <3> QED BY <2>1, <3>1, <3>2
    <2>3. ~(q > k - 1)
        <3> SUFFICES ASSUME k <= q PROVE FALSE
            BY <2>1
        <3>1. k * h <= q * h
            BY <2>1
        <3> QED BY <2>1, <3>1
    <2> QED BY <2>1, <2>2, <2>3 DEF q
<1> QED BY <1>2, <1>3

(* Where line l + 1 begins compared to line k + 1.                           *)
LEMMA LinesOrdered ==
    ASSUME NEW h \in Nat, h > 0, NEW k \in Int, NEW l \in Int
    PROVE  /\ k <= l <=> k * h <= l * h
           /\ l < k <=> l * h <= k * h - 1
<1>1. k <= l => k * h <= l * h
    OBVIOUS
<1>2. l < k => l * h <= k * h - 1
    <2> SUFFICES ASSUME l + 1 <= k PROVE l * h <= k * h - 1
        OBVIOUS
    <2>1. (l + 1) * h <= k * h
        OBVIOUS
    <2>2. (l + 1) * h = l * h + h
        OBVIOUS
    <2> QED BY <2>1, <2>2
<1>3. k * h \in Int /\ l * h \in Int
    OBVIOUS
<1> QED BY <1>1, <1>2, <1>3

(* What mdp5_vid_encoder_mode_set() enters for a mode.                       *)
LEMMA TimingFacts ==
    ASSUME NEW s, s.mode \in ModeType, Sane(s.mode)
    PROVE  LET t == TimingOf(s)
               h == IF IsSplit(s) THEN s.mode.htotal \div 2 ELSE s.mode.htotal
               width == IF IsSplit(s) THEN s.mode.hdisplay \div 2 ELSE s.mode.hdisplay
               start == s.mode.vtotal - s.mode.vsync_start
           IN  /\ t.htotal = h /\ h \in Nat /\ h > 0
               /\ Columns(t) = width
               /\ t.display_v_start = start * h
               /\ t.display_v_end = (start + s.mode.vdisplay) * h - 1
<1> DEFINE hd == s.mode.hdisplay
           hs == s.mode.hsync_start
           ht == s.mode.htotal
           vd == s.mode.vdisplay
           vs == s.mode.vsync_start
           vt == s.mode.vtotal
           mode == IF IsSplit(s) THEN Halved(s.mode) ELSE s.mode
           h == IF IsSplit(s) THEN ht \div 2 ELSE ht
           hsync == IF IsSplit(s) THEN hs \div 2 ELSE hs
           width == IF IsSplit(s) THEN hd \div 2 ELSE hd
           t == TimingOf(s)
<1>1. /\ hd \in Nat /\ hs \in Nat /\ ht \in Nat /\ vd \in Nat /\ vs \in Nat /\ vt \in Nat
      /\ hd > 0 /\ hd % 2 = 0 /\ hd <= ht
    BY DEF ModeType, Sane
<1>2. /\ mode.hdisplay = width /\ mode.hsync_start = hsync /\ mode.htotal = h
      /\ mode.vdisplay = vd /\ mode.vsync_start = vs /\ mode.vtotal = vt
    <2>1. DOMAIN s.mode = {"hdisplay", "hsync_start", "htotal", "vdisplay", "vsync_start",
                           "vtotal", "vrefresh"}
        BY DEF ModeType
    <2> QED BY <2>1 DEF Halved
<1>3. /\ t.hsync_start_x = mode.htotal - mode.hsync_start
      /\ t.hsync_end_x = mode.htotal - (mode.hsync_start - mode.hdisplay) - 1
      /\ t.htotal = mode.htotal
      /\ t.display_v_start = (mode.vtotal - mode.vsync_start) * mode.htotal
      /\ t.display_v_end = mode.vtotal * mode.htotal
                           - (mode.vsync_start - mode.vdisplay) * mode.htotal - 1
    BY DEF TimingOf
<1> HIDE DEF mode, t
<1>4. h \in Nat /\ h > 0 /\ hsync \in Nat /\ width \in Nat
    BY <1>1
<1> HIDE DEF hd, hs, ht, vd, vs, vt, h, hsync, width
<1>5. Columns(t) = width
    BY <1>2, <1>3, <1>4 DEF Columns
<1>6. vt * h - (vs - vd) * h = (vt - vs + vd) * h
    BY <1>1, <1>4
<1>7. t.display_v_end = (vt - vs + vd) * h - 1
    BY <1>2, <1>3, <1>6
<1>8. t.htotal = h /\ t.display_v_start = (vt - vs) * h
    BY <1>2, <1>3
<1> QED BY <1>4, <1>5, <1>7, <1>8 DEF t, hd, hs, ht, vd, vs, vt, h, hsync, width

(* What is known of a display that is on and settled.                        *)
LEMMA SettledFacts ==
    ASSUME PInv, NEW c \in Settled, on[cs[c].enc]
    PROVE  LET s == cs[c]
           IN  /\ s.mode \in ModeType /\ Sane(s.mode)
               /\ s.cmd_mode \in BOOLEAN /\ (s.cmd_mode <=> IsCmd(s.intf))
               /\ IsSplit(s) => s.r_mixer # 0
               /\ s.mixer # 0 /\ s.r_mixer # s.mixer /\ s.intf # 0
               /\ Programmed(s, hw)
               /\ Intfs(s) = IF IsSplit(s) THEN {Num(s.intf), Num(s.r_intf)}
                             ELSE {Num(s.intf)}
               /\ kms.encoders[s.intf].type = Chip.connect[Num(s.intf) + 1]
               /\ IsSplit(s) =>
                     kms.encoders[s.r_intf].type = Chip.connect[Num(s.r_intf) + 1]
<1> DEFINE s == cs[c]
<1>1. c \in Crtcs /\ s.enc # 0
    BY DEF Settled, Shown
<1>2. kms.phase = "up" /\ RoutedState(s) /\ SInv
    BY <1>1, SettledParts DEF PInv, RInv, CInv
<1>3. Wanted(s) /\ Programmed(s, hw)
    BY <1>1 DEF PInv, AllWanted, AllProgrammed
<1>4. /\ s.mixer # 0 /\ s.r_mixer # s.mixer /\ s.intf # 0 /\ s.intf \in Displays
      /\ IsSplit(s) => s.r_intf \in Encoders
    BY <1>1, OwnKeys DEF PInv
<1>5. s.cmd_mode <=> IsCmd(s.intf)
    BY <1>2, <1>4 DEF RoutedState, Command
<1>6. Intfs(s) = IF IsSplit(s) THEN {Num(s.intf), Num(s.r_intf)} ELSE {Num(s.intf)}
    BY <1>4 DEF Intfs, IsSplit
<1>7. /\ kms.encoders[s.intf].type = Chip.connect[Num(s.intf) + 1]
      /\ IsSplit(s) => kms.encoders[s.r_intf].type = Chip.connect[Num(s.r_intf) + 1]
    BY <1>2, <1>4, EncoderFacts DEF Displays
<1> HIDE DEF s
<1>8. s.mode \in ModeType
    BY <1>2 DEF RoutedState
<1> QED BY <1>3, <1>4, <1>5, <1>6, <1>7, <1>8 DEF Wanted, s

(* Mixers, CTLs and timing engines agree on columns and lines.               *)
LEMMA PicturesFit == ASSUME PInv PROVE PictureFits
<1> SUFFICES ASSUME NEW c \in Settled, on[cs[c].enc]
             PROVE  LET s == cs[c]
                        width(m) == IF m = 0 THEN 0 ELSE hw.out[m].width
                        packed == s.r_mixer # 0 /\ ~IsSplit(s)
                    IN  /\ width(s.mixer) + width(s.r_mixer) = s.mode.hdisplay
                        /\ s.r_mixer # 0 => hw.out[s.r_mixer].right = packed
                        /\ hw.op[s.ctl] = [intf |-> Num(s.intf), cmd |-> s.cmd_mode,
                                           pack |-> packed]
                        /\ \A i \in Intfs(s) : hw.sel[i] = Chip.connect[i + 1]
                        /\ IsSplit(s) => hw.op[s.r_ctl].intf = Num(s.r_intf)
                                         /\ ~hw.op[s.r_ctl].pack
                        /\ ~s.cmd_mode => \A i \in Intfs(s) :
                             /\ i \in DOMAIN hw.program
                             /\ Columns(hw.program[i]) = IF IsSplit(s) THEN width(s.mixer)
                                                         ELSE s.mode.hdisplay
                             /\ Lines(hw.program[i]) = s.mode.vdisplay
    BY DEF PictureFits
<1> DEFINE s == cs[c]
           width(m) == IF m = 0 THEN 0 ELSE hw.out[m].width
           packed == s.r_mixer # 0 /\ ~IsSplit(s)
<1>1. /\ s.mode \in ModeType /\ Sane(s.mode)
      /\ s.cmd_mode \in BOOLEAN /\ (s.cmd_mode <=> IsCmd(s.intf))
      /\ IsSplit(s) => s.r_mixer # 0
      /\ s.mixer # 0 /\ s.r_mixer # s.mixer /\ s.intf # 0
      /\ Programmed(s, hw)
      /\ Intfs(s) = IF IsSplit(s) THEN {Num(s.intf), Num(s.r_intf)} ELSE {Num(s.intf)}
      /\ kms.encoders[s.intf].type = Chip.connect[Num(s.intf) + 1]
      /\ IsSplit(s) => kms.encoders[s.r_intf].type = Chip.connect[Num(s.r_intf) + 1]
    BY SettledFacts
<1> HIDE DEF s
<1>2. /\ s.mode.hdisplay \in Nat /\ s.mode.hdisplay % 2 = 0 /\ s.mode.vdisplay \in Nat
      /\ s.mode.vtotal \in Nat /\ s.mode.vsync_start \in Nat
      /\ s.mode.vsync_start <= s.mode.vtotal
    BY <1>1 DEF ModeType, Sane
<1>3. /\ width(s.mixer) = MixerWidth(s)
      /\ s.r_mixer # 0 => width(s.r_mixer) = MixerWidth(s)
      /\ s.r_mixer # 0 => hw.out[s.r_mixer].right = ~IsSplit(s)
    BY <1>1 DEF Programmed, MixersProgrammed, Holding
<1>4. width(s.mixer) + width(s.r_mixer) = s.mode.hdisplay
    <2>1. width(0) = 0
        OBVIOUS
    <2> DEFINE n == s.mode.hdisplay
    <2>2. n \div 2 + n \div 2 = n
        BY <1>2
    <2>3. n \in Nat /\ n = s.mode.hdisplay
        BY <1>2
    <2> HIDE DEF width
    <2>4. MixerWidth(s) = IF s.r_mixer # 0 THEN n \div 2 ELSE n
        BY DEF MixerWidth
    <2> HIDE DEF n
    <2>5. CASE s.r_mixer # 0
        BY <1>3, <2>2, <2>3, <2>4, <2>5
    <2>6. CASE s.r_mixer = 0
        BY <1>3, <2>1, <2>3, <2>4, <2>6
    <2> QED BY <2>5, <2>6
<1>5. s.r_mixer # 0 => hw.out[s.r_mixer].right = packed
    BY <1>3
<1>6. hw.op[s.ctl] = [intf |-> Num(s.intf), cmd |-> s.cmd_mode, pack |-> packed]
    <2>1. hw.op[s.ctl] = [intf |-> Num(s.intf), cmd |-> IsCmd(s.intf), pack |-> packed]
        BY <1>1 DEF Programmed, RouteProgrammed, Holding, CtlOp, Packed
    <2>2. IsCmd(s.intf) \in BOOLEAN
        BY DEF IsCmd
    <2>3. s.cmd_mode = IsCmd(s.intf)
        BY <1>1, <2>2
    <2> QED BY <2>1, <2>3
<1>7. \A i \in Intfs(s) : hw.sel[i] = Chip.connect[i + 1]
    <2>1. hw.sel[Num(s.intf)] = Chip.connect[Num(s.intf) + 1]
        BY <1>1 DEF Programmed, RouteProgrammed, Holding
    <2>2. IsSplit(s) => hw.sel[Num(s.r_intf)] = Chip.connect[Num(s.r_intf) + 1]
        BY <1>1 DEF Programmed, RouteProgrammed, Holding
    <2>3. \A i \in Intfs(s) : i = Num(s.intf) \/ (IsSplit(s) /\ i = Num(s.r_intf))
        BY <1>1
    <2> QED BY <2>1, <2>2, <2>3
<1>8. IsSplit(s) => hw.op[s.r_ctl].intf = Num(s.r_intf) /\ ~hw.op[s.r_ctl].pack
    BY <1>1 DEF Programmed, RouteProgrammed, Holding, CtlOp
<1>9. ASSUME ~s.cmd_mode, NEW i \in Intfs(s)
      PROVE  /\ i \in DOMAIN hw.program
             /\ Columns(hw.program[i]) = IF IsSplit(s) THEN width(s.mixer) ELSE s.mode.hdisplay
             /\ Lines(hw.program[i]) = s.mode.vdisplay
    <2> DEFINE h == IF IsSplit(s) THEN s.mode.htotal \div 2 ELSE s.mode.htotal
               start == s.mode.vtotal - s.mode.vsync_start
               t == TimingOf(s)
    <2>1. i \in DOMAIN hw.program /\ hw.program[i] = t
        BY <1>1, <1>9 DEF Programmed, TimingProgrammed, Holding
    <2>2. /\ t.htotal = h /\ h \in Nat /\ h > 0
          /\ Columns(t) = IF IsSplit(s) THEN s.mode.hdisplay \div 2 ELSE s.mode.hdisplay
          /\ t.display_v_start = start * h
          /\ t.display_v_end = (start + s.mode.vdisplay) * h - 1
        BY <1>1, TimingFacts
    <2>3. Columns(t) = IF IsSplit(s) THEN width(s.mixer) ELSE s.mode.hdisplay
        BY <1>1, <1>3, <2>2 DEF MixerWidth
    <2> HIDE DEF h, t
    <2>4. start \in Int
        BY <1>2
    <2> HIDE DEF start
    <2>5. t.display_v_end - t.display_v_start + 1 = s.mode.vdisplay * h
        BY <1>2, <2>2, <2>4
    <2>6. Lines(t) = s.mode.vdisplay
        <3>1. (s.mode.vdisplay * h) \div h = s.mode.vdisplay
            BY <1>2, <2>2, WholeLines
        <3> QED BY <2>2, <2>5, <3>1 DEF Lines
    <2> QED BY <2>1, <2>3, <2>6
<1> HIDE DEF width
<1> QED BY <1>4, <1>5, <1>6, <1>7, <1>8, <1>9 DEF s, width

(* The line user space is told, by arithmetic alone.                         *)
LEMMA ScanoutLine ==
    ASSUME NEW mode, mode \in ModeType, Sane(mode), NEW line \in Nat,
           line # mode.vtotal - mode.vsync_start + mode.vdisplay + 1,
           line <= mode.vtotal - mode.vsync_start + mode.vdisplay + 2 \/ line = mode.vtotal
    PROVE  LET first == mode.vtotal - mode.vsync_start + 1
               At == get_scanout_position(mode, line)
           IN  /\ line >= first /\ line < first + mode.vdisplay => At = line - first
               /\ ~(line >= first /\ line < first + mode.vdisplay) => At < 0
<1>1. /\ mode.vtotal \in Nat /\ mode.vsync_start \in Nat /\ mode.vdisplay \in Nat
      /\ mode.vdisplay + 2 <= mode.vsync_start /\ mode.vsync_start <= mode.vtotal
    BY DEF ModeType, Sane
<1> QED BY <1>1 DEF get_scanout_position


(* Dots and lines are counted alike at both edges of the picture.            *)
LEMMA ScanoutsTrue == ASSUME PInv PROVE ScanoutTrue
<1> SUFFICES ASSUME NEW c \in Settled, on[cs[c].enc], ~cs[c].cmd_mode,
                    NEW i \in Intfs(cs[c])
             PROVE  LET mode == cs[c].mode
                        t == hw.program[i]
                        first == t.display_v_start \div t.htotal + 1
                        last == t.display_v_end \div t.htotal + 1
                        At(line) == get_scanout_position(mode, line)
                    IN  /\ \A line \in {1, first - 1, first, last, last + 1, last + 2,
                                        mode.vtotal} :
                             LET dot == (line - 1) * t.htotal
                             IN  IF dot \in t.display_v_start..t.display_v_end
                                 THEN At(line) * t.htotal = dot - t.display_v_start
                                 ELSE At(line) < 0 \/ line = last + 1
                        /\ At(mode.vtotal) + 1 = At(1)
    BY DEF ScanoutTrue
<1> DEFINE s == cs[c]
           mode == s.mode
           vd == mode.vdisplay
           vt == mode.vtotal
           h == IF IsSplit(s) THEN mode.htotal \div 2 ELSE mode.htotal
           start == vt - mode.vsync_start
           t == hw.program[i]
           At(line) == get_scanout_position(mode, line)
<1>1. /\ mode \in ModeType /\ Sane(mode)
      /\ ~IsCmd(s.intf) /\ Programmed(s, hw)
      /\ Intfs(s) = IF IsSplit(s) THEN {Num(s.intf), Num(s.r_intf)} ELSE {Num(s.intf)}
    BY SettledFacts
<1>2. t = TimingOf(s)
    BY <1>1 DEF Programmed, TimingProgrammed, Holding
<1>3. /\ t.htotal = h /\ h \in Nat /\ h > 0
      /\ t.display_v_start = start * h
      /\ t.display_v_end = (start + vd) * h - 1
    BY <1>1, <1>2, TimingFacts
<1>4. /\ vt \in Nat /\ vd \in Nat /\ start \in Nat /\ mode.vsync_start \in Nat
      /\ vd + 2 <= mode.vsync_start
    BY <1>1 DEF ModeType, Sane
<1> HIDE DEF s, t, h
<1>5. t.display_v_start \div t.htotal + 1 = start + 1
    <2> HIDE DEF start
    <2> QED BY <1>3, <1>4, WholeLines
<1>6. t.display_v_end \div t.htotal + 1 = start + vd
    <2>1. start + vd \in Nat
        BY <1>4
    <2> HIDE DEF start, vd
    <2> QED BY <1>3, <1>4, <2>1, WholeLines
<1>7. ASSUME NEW line \in {1, start, start + 1, start + vd, start + vd + 1, start + vd + 2, vt}
      PROVE  LET dot == (line - 1) * t.htotal
             IN  IF dot \in t.display_v_start..t.display_v_end
                 THEN At(line) * t.htotal = dot - t.display_v_start
                 ELSE At(line) < 0 \/ line = start + vd + 1
    <2> DEFINE dot == (line - 1) * h
    <2>1. line \in Nat
        BY <1>4, <1>7
    <2>2. dot \in start * h .. (start + vd) * h - 1 <=> line >= start + 1 /\ line < start + 1 + vd
        <3>1. start <= line - 1 <=> start * h <= dot
            BY <1>3, <1>4, <2>1, LinesOrdered
        <3>2. line - 1 < start + vd <=> dot <= (start + vd) * h - 1
            <4>1. start + vd \in Int /\ line - 1 \in Int
                BY <1>4, <2>1
            <4> HIDE DEF start, vd
            <4> QED BY <1>3, <4>1, LinesOrdered
        <3>3. dot \in Int /\ start * h \in Int /\ (start + vd) * h - 1 \in Int
            BY <1>3, <1>4, <2>1
        <3> HIDE DEF dot, start, vd
        <3> QED BY <1>4, <2>1, <3>1, <3>2, <3>3
    <2>3. CASE line = start + vd + 1
        <3>1. ~(line < start + 1 + vd)
            BY <1>4, <2>3
        <3>2. dot \notin start * h .. (start + vd) * h - 1
            BY <2>2, <3>1
        <3> HIDE DEF dot, start, vd, At
        <3> QED BY <1>3, <2>3, <3>2 DEF dot
    <2>4. CASE line # start + vd + 1
        <3>1. /\ line >= start + 1 /\ line < start + 1 + vd => At(line) = line - (start + 1)
              /\ ~(line >= start + 1 /\ line < start + 1 + vd) => At(line) < 0
            BY <1>1, <1>4, <1>7, <2>1, <2>4, ScanoutLine
        <3> HIDE DEF start, vd, At
        <3>2. (line - (start + 1)) * h = dot - start * h
            BY <1>3, <1>4, <2>1
        <3> HIDE DEF dot
        <3>3. IF dot \in start * h .. (start + vd) * h - 1
              THEN At(line) * h = dot - start * h ELSE At(line) < 0
            BY <2>2, <3>1, <3>2
        <3> QED BY <1>3, <3>3 DEF dot
    <2> QED BY <2>3, <2>4
<1>8. At(vt) + 1 = At(1)
    BY <1>4 DEF get_scanout_position
<1>9. \A line \in {1, start + 1 - 1, start + 1, start + vd, start + vd + 1, start + vd + 2, vt} :
        LET dot == (line - 1) * t.htotal
        IN  IF dot \in t.display_v_start..t.display_v_end
            THEN At(line) * t.htotal = dot - t.display_v_start
            ELSE At(line) < 0 \/ line = start + vd + 1
    <2>1. start + 1 - 1 = start
        BY <1>4
    <2> HIDE DEF start, vd, vt, At
    <2> QED BY <1>7, <2>1
<1> DEFINE first == t.display_v_start \div t.htotal + 1
           last == t.display_v_end \div t.htotal + 1
<1>10. \A line \in {1, first - 1, first, last, last + 1, last + 2, mode.vtotal} :
         LET dot == (line - 1) * t.htotal
         IN  IF dot \in t.display_v_start..t.display_v_end
             THEN At(line) * t.htotal = dot - t.display_v_start
             ELSE At(line) < 0 \/ line = last + 1
    <2> HIDE DEF start, At
    <2>1. first = start + 1 /\ last = start + vd /\ vt = mode.vtotal
        BY <1>5, <1>6
    <2>2. first - 1 = start + 1 - 1 /\ last + 1 = start + vd + 1 /\ last + 2 = start + vd + 2
        <3>1. start \in Nat /\ vd \in Nat
            BY <1>4
        <3> HIDE DEF first, last, vd
        <3> QED BY <2>1, <3>1
    <2> TAKE line \in {1, first - 1, first, last, last + 1, last + 2, mode.vtotal}
    <2> HIDE DEF vd, vt, mode, first, last, t
    <2>3. \/ line = 1 \/ line = first - 1 \/ line = first \/ line = last
          \/ line = last + 1 \/ line = last + 2 \/ line = mode.vtotal
        OBVIOUS
    <2>4. line \in {1, start + 1 - 1, start + 1, start + vd, start + vd + 1, start + vd + 2, vt}
        BY <2>1, <2>2, <2>3
    <2> QED BY <1>9, <2>2, <2>4, Zenon
<1> QED BY <1>8, <1>10, Zenon DEF s, t

(* The ticks of a line are rounded down by less than one.                    *)
LEMMA TearsTrue == ASSUME PInv PROVE TearTrue
<1> SUFFICES ASSUME NEW c \in Settled, on[cs[c].enc], cs[c].cmd_mode
             PROVE  LET mode == cs[c].mode
                        t == hw.pp[Chip.lm[cs[c].mixer].pp]
                    IN  /\ t.vsync_count * t.height * mode.vrefresh <= 2 * VSYNC_CLK_RATE
                        /\ 2 * VSYNC_CLK_RATE < (t.vsync_count + 1) * t.height * mode.vrefresh
                        /\ t.start_pos >= mode.vdisplay /\ t.rd_ptr_irq > t.start_pos
                        /\ t.rd_ptr_irq < t.height
    BY DEF TearTrue
<1> DEFINE mode == cs[c].mode
           t == hw.pp[Chip.lm[cs[c].mixer].pp]
           v == VSYNC_CLK_RATE
           n == mode.vtotal
           r == mode.vrefresh
           q == v \div (n * r)
<1>1. /\ mode \in ModeType /\ Sane(mode)
      /\ t = TearOf(mode)
    BY SettledFacts DEF Programmed, TearProgrammed, Holding
<1>2. /\ n \in Nat /\ r \in Nat /\ mode.vdisplay \in Nat /\ mode.vsync_start \in Nat
      /\ mode.vdisplay + 2 <= n /\ r > 0 /\ n > 0
    BY <1>1 DEF ModeType, Sane
<1>3. /\ t.vsync_count = q /\ t.height = 2 * n /\ t.start_pos = mode.vdisplay
      /\ t.rd_ptr_irq = mode.vdisplay + 1
    BY <1>1 DEF TearOf
<1>4. v \in Nat
    BY DEF VSYNC_CLK_RATE
<1> HIDE DEF t, v, mode, n, r
<1>5. n * r \in Nat /\ n * r > 0
    BY <1>2
<1>6. q \in Int /\ q * (n * r) <= v /\ v < (q + 1) * (n * r)
    BY <1>4, <1>5
<1> HIDE DEF q
<1>7. q * (2 * n) * r = 2 * (q * (n * r)) /\ (q + 1) * (2 * n) * r = 2 * ((q + 1) * (n * r))
    BY <1>2, <1>6
<1>8. q * (2 * n) * r <= 2 * v /\ 2 * v < (q + 1) * (2 * n) * r
    BY <1>4, <1>5, <1>6, <1>7
<1>9. mode.vdisplay + 1 < 2 * n
    BY <1>2
<1> QED BY <1>2, <1>3, <1>8, <1>9, SMTT(30) DEF t, v, mode, r, n

(* While no CRTC changes the number of its mixers and no split or            *)
(* command-mode display makes way for another in one commit, what            *)
(* mdp5_crtc_mode_set_nofb(), mdp5_ctl_set_pipeline(),                       *)
(* mdp5_vid_encoder_mode_set() and pingpong_tearcheck_setup() have written   *)
(* for a display is still so when it is shown, whatever the tails of other   *)
(* CRTCs write and undo in between, and for every sane mode it makes one     *)
(* picture, counted as mdp5_crtc_get_scanout_position() tells user space.    *)
THEOREM PicturesCorrect ==
    ASSUME "mixers" \notin Switches, "display" \notin Switches, ModesSane
    PROVE  Spec => []PictureTrue
<1>1. Init => PInv
    BY InitPictures
<1>2. PInv /\ [Next]_vars => PInv'
    BY PInvNext
<1>3. PInv => PictureTrue
    BY PicturesFit, ScanoutsTrue, TearsTrue DEF PictureTrue
<1> QED BY <1>1, <1>2, <1>3, PTL DEF Spec

-------------------------------------------------------------------------------
(* What comes up.  Each table is taken apart into the few facts the checks   *)
(* of BringUpSound need: where the flush bits are that do not fit into the   *)
(* first half, where the ports of each kind start, what the tied blocks come *)
(* to, and how many blocks a line takes.                                     *)

(* Powers of two, as far as the masks need them.                             *)
LEMMA Powers ==
    /\ 2 ^ 0 = 1 /\ 2 ^ 1 = 2 /\ 2 ^ 2 = 4 /\ 2 ^ 3 = 8 /\ 2 ^ 4 = 16 /\ 2 ^ 5 = 32
    /\ 2 ^ 6 = 64 /\ 2 ^ 7 = 128 /\ 2 ^ 8 = 256 /\ 2 ^ 9 = 512 /\ 2 ^ 10 = 1024
    /\ 2 ^ 11 = 2048 /\ 2 ^ 12 = 4096 /\ 2 ^ 13 = 8192 /\ 2 ^ 14 = 16384 /\ 2 ^ 15 = 32768
OBVIOUS

Has(mask, bit) == (mask \div 2 ^ bit) % 2 = 1

(* A mask of all ones lets every bit of its half pass.                       *)
LEMMA FullMask == \A bit \in 0..15 : Has(\hffff, bit)
<1>1. Has(\hffff, 0) /\ Has(\hffff, 1) /\ Has(\hffff, 2) /\ Has(\hffff, 3)
    BY Powers DEF Has
<1>2. Has(\hffff, 4) /\ Has(\hffff, 5) /\ Has(\hffff, 6) /\ Has(\hffff, 7)
    BY Powers DEF Has
<1>3. Has(\hffff, 8) /\ Has(\hffff, 9) /\ Has(\hffff, 10) /\ Has(\hffff, 11)
    BY Powers DEF Has
<1>4. Has(\hffff, 12) /\ Has(\hffff, 13) /\ Has(\hffff, 14) /\ Has(\hffff, 15)
    BY Powers DEF Has
<1>5. \A bit \in 0..15 : bit \in {0, 1, 2, 3, 4, 5, 6, 7, 8, 9, 10, 11, 12, 13, 14, 15}
    OBVIOUS
<1> QED BY <1>1, <1>2, <1>3, <1>4, <1>5

(* The bits of the other half that the tables set.                           *)
LEMMA HighMasks ==
    /\ \A mask \in {\h0003, \h003f, \h4003, \hf0ff, \hf4ff, \hf7ff, \hffff} : Has(mask, 1)
    /\ \A mask \in {\h003f, \hf0ff, \hf4ff, \hf7ff} :
            Has(mask, 2) /\ Has(mask, 3) /\ Has(mask, 4)
    /\ \A mask \in {\hf4ff, \hf7ff, \hffff} : Has(mask, 6) /\ Has(mask, 7)
BY Powers DEF Has

(* What the flush masks of a table have to leave for its blocks.             *)
MaskFits(chip) ==
    /\ chip.flush_hw_mask[2] = \hffff /\ Has(chip.flush_hw_mask[1], 1)
    /\ DOMAIN chip.pipes = {"VIG", "RGB", "DMA", "CURSOR"}
    /\ \/ chip.pipes.VIG \in 0..3
       \/ chip.pipes.VIG = 4 /\ Has(chip.flush_hw_mask[1], 2)
    /\ \/ chip.pipes.RGB \in 0..3
       \/ chip.pipes.RGB = 4 /\ Has(chip.flush_hw_mask[1], 3)
    /\ chip.pipes.DMA \in 0..2
    /\ \/ chip.pipes.CURSOR = 0
       \/ /\ chip.pipes.CURSOR \in 1..2
          /\ Has(chip.flush_hw_mask[1], 6) /\ Has(chip.flush_hw_mask[1], 7)
    /\ \A i \in DOMAIN chip.lm :
         \/ chip.lm[i].id \in 0..4
         \/ chip.lm[i].id = 5 /\ Has(chip.flush_hw_mask[1], 4)

(* With these bits the mask lets each block of the chip pass.                *)
LEMMA MaskedFlushes == ASSUME NEW chip, MaskFits(chip) PROVE FlushesAll(chip)
<1>1. \A bit \in 0..15 : InMask(chip, bit)
    <2>1. \A bit \in 0..15 : Has(chip.flush_hw_mask[2], bit)
        BY FullMask DEF MaskFits
    <2> TAKE bit \in 0..15
    <2>2. bit < 16 /\ Has(chip.flush_hw_mask[2], bit)
        BY <2>1
    <2> QED BY <2>2, Zenon DEF InMask, Has
<1>2. \A bit \in 16..31 : Has(chip.flush_hw_mask[1], bit - 16) => InMask(chip, bit)
    BY DEF InMask, Has
<1>3. \A i \in 0..(chip.pipes.VIG - 1) : InMask(chip, FlushBit("VIG", i))
    <2> TAKE i \in 0..(chip.pipes.VIG - 1)
    <2>1. CASE i \in 0..2
        <3>1. FlushBit("VIG", i) \in 0..15
            BY <2>1 DEF FlushBit
        <3> QED BY <3>1, <1>1
    <2>2. CASE i = 3
        <3>1. FlushBit("VIG", i) = 18 /\ Has(chip.flush_hw_mask[1], 2)
            BY <2>2 DEF FlushBit, MaskFits
        <3> QED BY <3>1, <1>2
    <2> QED BY <2>1, <2>2 DEF MaskFits
<1>4. \A i \in 0..(chip.pipes.RGB - 1) : InMask(chip, FlushBit("RGB", i))
    <2> TAKE i \in 0..(chip.pipes.RGB - 1)
    <2>1. CASE i \in 0..2
        <3>1. FlushBit("RGB", i) \in 0..15
            BY <2>1 DEF FlushBit
        <3> QED BY <3>1, <1>1
    <2>2. CASE i = 3
        <3>1. FlushBit("RGB", i) = 19 /\ Has(chip.flush_hw_mask[1], 3)
            BY <2>2 DEF FlushBit, MaskFits
        <3> QED BY <3>1, <1>2
    <2> QED BY <2>1, <2>2 DEF MaskFits
<1>5. \A i \in 0..(chip.pipes.DMA - 1) : InMask(chip, FlushBit("DMA", i))
    <2> TAKE i \in 0..(chip.pipes.DMA - 1)
    <2>1. FlushBit("DMA", i) \in 0..15
        BY DEF FlushBit, MaskFits
    <2> QED BY <2>1, <1>1
<1>6. \A i \in 0..(chip.pipes.CURSOR - 1) : InMask(chip, FlushBit("CURSOR", i))
    <2> TAKE i \in 0..(chip.pipes.CURSOR - 1)
    <2>1. /\ FlushBit("CURSOR", i) \in {22, 23}
          /\ Has(chip.flush_hw_mask[1], 6) /\ Has(chip.flush_hw_mask[1], 7)
        BY DEF FlushBit, MaskFits
    <2> QED BY <2>1, <1>2
<1>7. \A i \in DOMAIN chip.lm : InMask(chip, FlushBit("LM", chip.lm[i].id))
    <2> TAKE i \in DOMAIN chip.lm
    <2>1. CASE chip.lm[i].id \in 0..4
        <3>1. FlushBit("LM", chip.lm[i].id) \in 0..15
            BY <2>1 DEF FlushBit
        <3> QED BY <3>1, <1>1
    <2>2. CASE chip.lm[i].id = 5 /\ Has(chip.flush_hw_mask[1], 4)
        <3>1. FlushBit("LM", chip.lm[i].id) = 20
            BY <2>2 DEF FlushBit
        <3> QED BY <3>1, <2>2, <1>2
    <2> QED BY <2>1, <2>2 DEF MaskFits
<1>8. InMask(chip, FlushBit("CTL", 0))
    <2>1. FlushBit("CTL", 0) = 17 /\ Has(chip.flush_hw_mask[1], 1)
        BY DEF FlushBit, MaskFits
    <2> QED BY <2>1, <1>2
<1>9. \A k \in DOMAIN chip.pipes : k \in {"VIG", "RGB", "DMA", "CURSOR"}
    BY DEF MaskFits
<1>10. \A k \in DOMAIN chip.pipes : \A i \in 0..(chip.pipes[k] - 1) :
        InMask(chip, FlushBit(k, i))
    BY <1>3, <1>4, <1>5, <1>6, <1>9
<1> QED BY <1>7, <1>8, <1>10 DEF FlushesAll

(* All fifteen tables have them.                                             *)
LEMMA TablesMasked == \A chip \in Tables : MaskFits(chip)
<1>1. MaskFits(msm8x74v1) /\ MaskFits(msm8x74v2) /\ MaskFits(msm8x26)
    BY HighMasks, FullMask, SMTT(30) DEF MaskFits, msm8x74v1, msm8x74v2, msm8x26, Pipes, LM
<1>2. MaskFits(apq8084)
    BY HighMasks, FullMask DEF MaskFits, apq8084, Pipes, LM
<1>3. MaskFits(msm8x94)
    BY HighMasks, FullMask DEF MaskFits, msm8x94, Pipes, LM
<1>4. MaskFits(msm8x96)
    BY HighMasks, FullMask DEF MaskFits, msm8x96, Pipes, LM
<1>5. MaskFits(msm8998)
    BY HighMasks, FullMask DEF MaskFits, msm8998, Pipes, LM
<1>6. MaskFits(sdm660) /\ MaskFits(sdm630)
    BY HighMasks, FullMask DEF MaskFits, sdm660, sdm630, Pipes, LM
<1>7. MaskFits(msm8x16) /\ MaskFits(msm8x36) /\ MaskFits(msm8x76)
    BY HighMasks, FullMask DEF MaskFits, msm8x16, msm8x36, msm8x76, Pipes, LM
<1>8. MaskFits(msm8x53) /\ MaskFits(msm8937) /\ MaskFits(msm8917)
    BY HighMasks, FullMask DEF MaskFits, msm8x53, msm8937, msm8917, Pipes, LM
<1> QED BY <1>1, <1>2, <1>3, <1>4, <1>5, <1>6, <1>7, <1>8 DEF Tables

LEMMA TablesFlush == \A chip \in Tables : FlushesAll(chip)
BY TablesMasked, MaskedFlushes

-------------------------------------------------------------------------------

(* The memory ports of a table, pipe by pipe: the first of each, in rising   *)
(* order within a kind, and the ranges of two kinds apart.                   *)
Kinds == {"VIG", "RGB", "DMA"}

Listed(chip) ==
    \A k \in Kinds : /\ chip.pipes[k] \in 1..4 /\ Len(chip.smp.clients[k]) = chip.pipes[k]
                     /\ \A i \in 1..chip.pipes[k] : chip.smp.clients[k][i] \in 1..22

Wide(k) == IF k = "RGB" THEN 0 ELSE 2

Clear(chip, k, i, l, j) ==
    \/ chip.smp.clients[k][i] + Wide(k) < chip.smp.clients[l][j]
    \/ chip.smp.clients[l][j] + Wide(l) < chip.smp.clients[k][i]

Ported(chip) ==
    /\ Listed(chip)
    /\ \A k \in Kinds : \A i, j \in 1..chip.pipes[k] : i # j => Clear(chip, k, i, k, j)
    /\ \A i \in 1..chip.pipes.VIG : \A j \in 1..chip.pipes.DMA : Clear(chip, "VIG", i, "DMA", j)
    /\ \A i \in 1..chip.pipes.VIG : \A j \in 1..chip.pipes.RGB : Clear(chip, "VIG", i, "RGB", j)
    /\ \A i \in 1..chip.pipes.DMA : \A j \in 1..chip.pipes.RGB : Clear(chip, "DMA", i, "RGB", j)

(* Ranges that are clear of each other share no port.                        *)
LEMMA PortedApart ==
    ASSUME NEW chip, Ported(chip), NEW k \in Kinds, NEW i \in 1..chip.pipes[k],
           NEW l \in Kinds, NEW j \in 1..chip.pipes[l],
           k # l \/ i # j
    PROVE  Ports(chip, k, i) \intersect Ports(chip, l, j) = {}
<1>1. Clear(chip, k, i, l, j)
    <2>1. CASE k = l
        BY <2>1 DEF Ported
    <2>2. CASE k = "VIG" /\ l = "DMA"
        BY <2>2 DEF Ported
    <2>3. CASE k = "VIG" /\ l = "RGB"
        BY <2>3 DEF Ported
    <2>4. CASE k = "DMA" /\ l = "RGB"
        BY <2>4 DEF Ported
    <2>5. \A x, y, p, q : Clear(chip, x, p, y, q) => Clear(chip, y, q, x, p)
        BY DEF Clear
    <2>6. CASE k = "DMA" /\ l = "VIG"
        BY <2>5, <2>6 DEF Ported
    <2>7. CASE k = "RGB" /\ l = "VIG"
        BY <2>5, <2>7 DEF Ported
    <2>8. CASE k = "RGB" /\ l = "DMA"
        BY <2>5, <2>8 DEF Ported
    <2> QED BY <2>1, <2>2, <2>3, <2>4, <2>6, <2>7, <2>8 DEF Kinds
<1>2. chip.smp.clients[k][i] \in Nat /\ chip.smp.clients[l][j] \in Nat
    <2>1. chip.smp.clients[k][i] \in 1..22 /\ chip.smp.clients[l][j] \in 1..22
        BY DEF Ported, Listed
    <2> QED BY <2>1
<1>3. /\ Ports(chip, k, i) = chip.smp.clients[k][i]..(chip.smp.clients[k][i] + Wide(k))
      /\ Ports(chip, l, j) = chip.smp.clients[l][j]..(chip.smp.clients[l][j] + Wide(l))
    BY DEF Ports, Wide
<1>4. Wide(k) \in Nat /\ Wide(l) \in Nat
    BY DEF Wide
<1> DEFINE a == chip.smp.clients[k][i]
           b == chip.smp.clients[l][j]
           v == Wide(k)
           w == Wide(l)
<1>5. a + v < b \/ b + w < a
    BY <1>1 DEF Clear
<1> HIDE DEF a, b, v, w
<1>6. (a..(a + v)) \intersect (b..(b + w)) = {}
    BY <1>2, <1>4, <1>5 DEF a, b, v, w
<1> QED BY <1>3, <1>6 DEF a, b, v, w

(* The blocks tied to ports, counted up.                                     *)
TiedUp(reserved, f) ==
    f = [i \in 0..Len(reserved) |-> IF i = 0 THEN 0 ELSE f[i - 1] + reserved[i][2]]

PooledTables == {msm8x74v1, msm8x26, msm8x74v2, apq8084, msm8x16, msm8x36, msm8x94, msm8x76}

Pooled(chip) ==
    \A f : TiedUp(chip.smp.reserved, f) => f[Len(chip.smp.reserved)] = chip.smp.reserved_state

(* Without tied blocks the count is zero.                                    *)
LEMMA NoneTied ==
    ASSUME NEW chip, chip.smp.reserved = <<>>, chip.smp.reserved_state = 0
    PROVE  Pooled(chip) /\ \E f : TiedUp(chip.smp.reserved, f)
<1>1. TiedUp(<<>>, [i \in 0..0 |-> 0])
    BY DEF TiedUp
<1>2. ASSUME NEW f, TiedUp(<<>>, f)
      PROVE  f[0] = 0
    <2>1. f = [i \in 0..0 |-> IF i = 0 THEN 0 ELSE f[i - 1] + <<>>[i][2]]
        BY <1>2 DEF TiedUp
    <2> QED BY <2>1
<1> QED BY <1>1, <1>2 DEF Pooled

(* Four ports with two blocks each.                                          *)
LEMMA TwoEach ==
    /\ Pooled(apq8084)
    /\ \E f : TiedUp(apq8084.smp.reserved, f)
<1> DEFINE r == apq8084.smp.reserved
<1>1. /\ Len(r) = 4 /\ apq8084.smp.reserved_state = 8
      /\ r[1][2] = 2 /\ r[2][2] = 2 /\ r[3][2] = 2 /\ r[4][2] = 2
    BY DEF apq8084, SmpPool
<1> HIDE DEF r
<1>2. \A i \in 1..4 : r[i][2] = 2
    BY <1>1
<1> DEFINE g == [i \in 0..4 |-> 2 * i]
<1>3. TiedUp(r, g)
    <2>1. \A i \in 0..4 : g[i] = IF i = 0 THEN 0 ELSE g[i - 1] + r[i][2]
        BY <1>2
    <2> HIDE DEF g
    <2>2. g = [i \in 0..4 |-> g[i]]
        BY DEF g
    <2>3. [i \in 0..4 |-> g[i]] = [i \in 0..4 |-> IF i = 0 THEN 0 ELSE g[i - 1] + r[i][2]]
        BY <2>1
    <2> QED BY <1>1, <2>2, <2>3 DEF TiedUp
<1>4. ASSUME NEW f, TiedUp(r, f)
      PROVE  f[4] = 8
    <2>1. f = [i \in 0..4 |-> IF i = 0 THEN 0 ELSE f[i - 1] + r[i][2]]
        BY <1>1, <1>4 DEF TiedUp
    <2>2. f[0] = 0 /\ \A i \in 1..4 : f[i] = f[i - 1] + 2
        BY <2>1, <1>2
    <2>3. f[1] = 2
        BY <2>2
    <2>4. f[2] = 4
        BY <2>2, <2>3
    <2>5. f[3] = 6
        BY <2>2, <2>4
    <2> QED BY <2>2, <2>5
<1> QED BY <1>1, <1>3, <1>4 DEF Pooled, r

(* Four ports with one block and four with five.                             *)
LEMMA OneOrFiveEach ==
    /\ Pooled(msm8x94)
    /\ \E f : TiedUp(msm8x94.smp.reserved, f)
<1> DEFINE r == msm8x94.smp.reserved
<1>1. /\ Len(r) = 8 /\ msm8x94.smp.reserved_state = 24
      /\ r[1][2] = 1 /\ r[2][2] = 1 /\ r[3][2] = 1 /\ r[4][2] = 1
      /\ r[5][2] = 5 /\ r[6][2] = 5 /\ r[7][2] = 5 /\ r[8][2] = 5
    BY DEF msm8x94, SmpPool
<1> HIDE DEF r
<1>2. \A i \in 1..8 : r[i][2] = IF i <= 4 THEN 1 ELSE 5
    BY <1>1
<1> DEFINE g == [i \in 0..8 |-> IF i <= 4 THEN i ELSE 5 * i - 16]
<1>3. TiedUp(r, g)
    <2>1. \A i \in 0..8 : g[i] = IF i = 0 THEN 0 ELSE g[i - 1] + r[i][2]
        BY <1>2
    <2> HIDE DEF g
    <2>2. g = [i \in 0..8 |-> g[i]]
        BY DEF g
    <2>3. [i \in 0..8 |-> g[i]] = [i \in 0..8 |-> IF i = 0 THEN 0 ELSE g[i - 1] + r[i][2]]
        BY <2>1
    <2> QED BY <1>1, <2>2, <2>3 DEF TiedUp
<1>4. ASSUME NEW f, TiedUp(r, f)
      PROVE  f[8] = 24
    <2>1. f = [i \in 0..8 |-> IF i = 0 THEN 0 ELSE f[i - 1] + r[i][2]]
        BY <1>1, <1>4 DEF TiedUp
    <2>2. f[0] = 0 /\ \A i \in 1..8 : f[i] = f[i - 1] + IF i <= 4 THEN 1 ELSE 5
        BY <2>1, <1>2
    <2>3. f[1] = 1
        BY <2>2
    <2>4. f[2] = 2
        BY <2>2, <2>3
    <2>5. f[3] = 3
        BY <2>2, <2>4
    <2>6. f[4] = 4
        BY <2>2, <2>5
    <2>7. f[5] = 9
        BY <2>2, <2>6
    <2>8. f[6] = 14
        BY <2>2, <2>7
    <2>9. f[7] = 19
        BY <2>2, <2>8
    <2> QED BY <2>2, <2>9
<1> QED BY <1>1, <1>3, <1>4 DEF Pooled, r

(* The four facts about a table that make its ports apart.                   *)
LEMMA PortsOf ==
    ASSUME NEW chip, Ported(chip), Pooled(chip), \E f : TiedUp(chip.smp.reserved, f)
    PROVE  PortsApart(chip)
<1> DEFINE All == UNION {{<<k, i>> : i \in 1..chip.pipes[k]} : k \in Kinds}
           Tied[i \in 0..Len(chip.smp.reserved)] ==
               IF i = 0 THEN 0 ELSE Tied[i - 1] + chip.smp.reserved[i][2]
<1>1. TiedUp(chip.smp.reserved, Tied)
    BY DEF TiedUp
<1>2. Tied[Len(chip.smp.reserved)] = chip.smp.reserved_state
    BY <1>1 DEF Pooled
<1>3. \A p \in All : \E k \in Kinds : \E i \in 1..chip.pipes[k] : p = <<k, i>>
    OBVIOUS
<1>4. \A p, q \in All : p # q => Ports(chip, p[1], p[2]) \intersect Ports(chip, q[1], q[2]) = {}
    <2> SUFFICES ASSUME NEW p \in All, NEW q \in All, p # q
                 PROVE  Ports(chip, p[1], p[2]) \intersect Ports(chip, q[1], q[2]) = {}
        OBVIOUS
    <2>1. PICK k \in Kinds : \E i \in 1..chip.pipes[k] : p = <<k, i>>
        BY <1>3
    <2>2. PICK i \in 1..chip.pipes[k] : p = <<k, i>>
        BY <2>1
    <2>3. PICK l \in Kinds : \E j \in 1..chip.pipes[l] : q = <<l, j>>
        BY <1>3
    <2>4. PICK j \in 1..chip.pipes[l] : q = <<l, j>>
        BY <2>3
    <2>5. k # l \/ i # j
        BY <2>2, <2>4
    <2>6. Ports(chip, k, i) \intersect Ports(chip, l, j) = {}
        BY <2>5, PortedApart
    <2> QED BY <2>2, <2>4, <2>6
<1>5. \A p \in All : 0 \notin Ports(chip, p[1], p[2])
    <2> SUFFICES ASSUME NEW p \in All
                 PROVE  0 \notin Ports(chip, p[1], p[2])
        OBVIOUS
    <2>1. PICK k \in Kinds : \E i \in 1..chip.pipes[k] : p = <<k, i>>
        BY <1>3
    <2>2. PICK i \in 1..chip.pipes[k] : p = <<k, i>>
        BY <2>1
    <2>3. chip.smp.clients[k][i] \in 1..22
        BY DEF Ported, Listed
    <2> QED BY <2>2, <2>3 DEF Ports
<1>6. \A k \in Kinds : Len(chip.smp.clients[k]) = chip.pipes[k]
    BY DEF Ported, Listed
<1> HIDE DEF All
<1> QED BY <1>2, <1>4, <1>5, <1>6 DEF PortsApart, All, Kinds

(* The ports of the chips with three pipes of a kind or more.                *)
BigStart(k, i) ==
    CASE k = "VIG" -> IF i = 4 THEN 19 ELSE 3 * i - 2
      [] k = "DMA" -> 7 + 3 * i
      [] k = "RGB" -> IF i = 4 THEN 22 ELSE 15 + i

LEMMA BigPorted ==
    ASSUME NEW chip,
           /\ chip.pipes["VIG"] \in 1..4 /\ Len(chip.smp.clients["VIG"]) = chip.pipes["VIG"]
           /\ chip.pipes["DMA"] \in 1..2 /\ Len(chip.smp.clients["DMA"]) = chip.pipes["DMA"]
           /\ chip.pipes["RGB"] \in 1..4 /\ Len(chip.smp.clients["RGB"]) = chip.pipes["RGB"],
           \A i \in 1..chip.pipes["VIG"] : chip.smp.clients["VIG"][i] = BigStart("VIG", i),
           \A i \in 1..chip.pipes["DMA"] : chip.smp.clients["DMA"][i] = BigStart("DMA", i),
           \A i \in 1..chip.pipes["RGB"] : chip.smp.clients["RGB"][i] = BigStart("RGB", i)
    PROVE  Ported(chip)
<1>1. /\ \A i \in 1..chip.pipes["VIG"] : chip.smp.clients["VIG"][i] = BigStart("VIG", i) /\ i \in 1..4
      /\ \A i \in 1..chip.pipes["DMA"] : chip.smp.clients["DMA"][i] = BigStart("DMA", i) /\ i \in 1..2
      /\ \A i \in 1..chip.pipes["RGB"] : chip.smp.clients["RGB"][i] = BigStart("RGB", i) /\ i \in 1..4
    OBVIOUS
<1>2. Wide("VIG") = 2 /\ Wide("DMA") = 2 /\ Wide("RGB") = 0
    BY DEF Wide
<1>3. Listed(chip)
    <2>1. \A i \in 1..4 : BigStart("VIG", i) \in 1..22
        BY SMTT(30) DEF BigStart
    <2>2. \A i \in 1..2 : BigStart("DMA", i) \in 1..22
        BY DEF BigStart
    <2>3. \A i \in 1..4 : BigStart("RGB", i) \in 1..22
        BY DEF BigStart
    <2>4. \A i \in 1..chip.pipes["VIG"] : chip.smp.clients["VIG"][i] \in 1..22
        BY <1>1, <2>1
    <2>5. \A i \in 1..chip.pipes["DMA"] : chip.smp.clients["DMA"][i] \in 1..22
        BY <1>1, <2>2
    <2>6. \A i \in 1..chip.pipes["RGB"] : chip.smp.clients["RGB"][i] \in 1..22
        BY <1>1, <2>3
    <2>7. chip.pipes["VIG"] \in 1..4 /\ chip.pipes["DMA"] \in 1..4 /\ chip.pipes["RGB"] \in 1..4
        OBVIOUS
    <2> QED BY <2>4, <2>5, <2>6, <2>7 DEF Listed, Kinds
<1>4. \A i, j \in 1..chip.pipes["VIG"] : i # j => Clear(chip, "VIG", i, "VIG", j)
    <2>1. \A i, j \in 1..4 : i # j => \/ BigStart("VIG", i) + 2 < BigStart("VIG", j)
                                         \/ BigStart("VIG", j) + 2 < BigStart("VIG", i)
        BY DEF BigStart
    <2> TAKE i, j \in 1..chip.pipes["VIG"]
    <2>2. /\ chip.smp.clients["VIG"][i] = BigStart("VIG", i) /\ i \in 1..4
          /\ chip.smp.clients["VIG"][j] = BigStart("VIG", j) /\ j \in 1..4
        BY <1>1
    <2> QED BY <1>2, <2>1, <2>2 DEF Clear
<1>5. \A i, j \in 1..chip.pipes["RGB"] : i # j => Clear(chip, "RGB", i, "RGB", j)
    <2>1. \A i, j \in 1..4 : i # j => \/ BigStart("RGB", i) + 0 < BigStart("RGB", j)
                                         \/ BigStart("RGB", j) + 0 < BigStart("RGB", i)
        BY DEF BigStart
    <2> TAKE i, j \in 1..chip.pipes["RGB"]
    <2>2. /\ chip.smp.clients["RGB"][i] = BigStart("RGB", i) /\ i \in 1..4
          /\ chip.smp.clients["RGB"][j] = BigStart("RGB", j) /\ j \in 1..4
        BY <1>1
    <2> QED BY <1>2, <2>1, <2>2 DEF Clear
<1>6. \A i, j \in 1..chip.pipes["DMA"] : i # j => Clear(chip, "DMA", i, "DMA", j)
    <2>1. \A i, j \in 1..2 : i # j => \/ BigStart("DMA", i) + 2 < BigStart("DMA", j)
                                         \/ BigStart("DMA", j) + 2 < BigStart("DMA", i)
        BY DEF BigStart
    <2> TAKE i, j \in 1..chip.pipes["DMA"]
    <2>2. /\ chip.smp.clients["DMA"][i] = BigStart("DMA", i) /\ i \in 1..2
          /\ chip.smp.clients["DMA"][j] = BigStart("DMA", j) /\ j \in 1..2
        BY <1>1
    <2> QED BY <1>2, <2>1, <2>2 DEF Clear
<1>7. \A i \in 1..chip.pipes["VIG"] : \A j \in 1..chip.pipes["DMA"] : Clear(chip, "VIG", i, "DMA", j)
    <2>1. \A i \in 1..4 : \A j \in 1..2 : \/ BigStart("VIG", i) + 2 < BigStart("DMA", j)
                                             \/ BigStart("DMA", j) + 2 < BigStart("VIG", i)
        BY DEF BigStart
    <2> TAKE i \in 1..chip.pipes["VIG"]
    <2> TAKE j \in 1..chip.pipes["DMA"]
    <2>2. /\ chip.smp.clients["VIG"][i] = BigStart("VIG", i) /\ i \in 1..4
          /\ chip.smp.clients["DMA"][j] = BigStart("DMA", j) /\ j \in 1..2
        BY <1>1
    <2> QED BY <1>2, <2>1, <2>2 DEF Clear
<1>8. \A i \in 1..chip.pipes["VIG"] : \A j \in 1..chip.pipes["RGB"] : Clear(chip, "VIG", i, "RGB", j)
    <2>1. \A i \in 1..4 : \A j \in 1..4 : \/ BigStart("VIG", i) + 2 < BigStart("RGB", j)
                                             \/ BigStart("RGB", j) + 0 < BigStart("VIG", i)
        BY DEF BigStart
    <2> TAKE i \in 1..chip.pipes["VIG"]
    <2> TAKE j \in 1..chip.pipes["RGB"]
    <2>2. /\ chip.smp.clients["VIG"][i] = BigStart("VIG", i) /\ i \in 1..4
          /\ chip.smp.clients["RGB"][j] = BigStart("RGB", j) /\ j \in 1..4
        BY <1>1
    <2> QED BY <1>2, <2>1, <2>2 DEF Clear
<1>9. \A i \in 1..chip.pipes["DMA"] : \A j \in 1..chip.pipes["RGB"] : Clear(chip, "DMA", i, "RGB", j)
    <2>1. \A i \in 1..2 : \A j \in 1..4 : \/ BigStart("DMA", i) + 2 < BigStart("RGB", j)
                                             \/ BigStart("RGB", j) + 0 < BigStart("DMA", i)
        BY DEF BigStart
    <2> TAKE i \in 1..chip.pipes["DMA"]
    <2> TAKE j \in 1..chip.pipes["RGB"]
    <2>2. /\ chip.smp.clients["DMA"][i] = BigStart("DMA", i) /\ i \in 1..2
          /\ chip.smp.clients["RGB"][j] = BigStart("RGB", j) /\ j \in 1..4
        BY <1>1
    <2> QED BY <1>2, <2>1, <2>2 DEF Clear
<1> QED BY <1>3, <1>4, <1>5, <1>6, <1>7, <1>8, <1>9 DEF Ported, Kinds

(* The ports of the small chips.                                             *)
SmallStart(k, i) ==
    CASE k = "VIG" -> 8 * i - 7
      [] k = "DMA" -> 4
      [] k = "RGB" -> 6 + i

LEMMA SmallPorted ==
    ASSUME NEW chip,
           /\ chip.pipes["VIG"] \in 1..2 /\ Len(chip.smp.clients["VIG"]) = chip.pipes["VIG"]
           /\ chip.pipes["DMA"] \in 1..1 /\ Len(chip.smp.clients["DMA"]) = chip.pipes["DMA"]
           /\ chip.pipes["RGB"] \in 1..2 /\ Len(chip.smp.clients["RGB"]) = chip.pipes["RGB"],
           \A i \in 1..chip.pipes["VIG"] : chip.smp.clients["VIG"][i] = SmallStart("VIG", i),
           \A i \in 1..chip.pipes["DMA"] : chip.smp.clients["DMA"][i] = SmallStart("DMA", i),
           \A i \in 1..chip.pipes["RGB"] : chip.smp.clients["RGB"][i] = SmallStart("RGB", i)
    PROVE  Ported(chip)
<1>1. /\ \A i \in 1..chip.pipes["VIG"] : chip.smp.clients["VIG"][i] = SmallStart("VIG", i) /\ i \in 1..2
      /\ \A i \in 1..chip.pipes["DMA"] : chip.smp.clients["DMA"][i] = SmallStart("DMA", i) /\ i \in 1..1
      /\ \A i \in 1..chip.pipes["RGB"] : chip.smp.clients["RGB"][i] = SmallStart("RGB", i) /\ i \in 1..2
    OBVIOUS
<1>2. Wide("VIG") = 2 /\ Wide("DMA") = 2 /\ Wide("RGB") = 0
    BY DEF Wide
<1>3. Listed(chip)
    <2>1. \A i \in 1..2 : SmallStart("VIG", i) \in 1..22
        BY SMTT(30) DEF SmallStart
    <2>2. \A i \in 1..1 : SmallStart("DMA", i) \in 1..22
        BY DEF SmallStart
    <2>3. \A i \in 1..2 : SmallStart("RGB", i) \in 1..22
        BY DEF SmallStart
    <2>4. \A i \in 1..chip.pipes["VIG"] : chip.smp.clients["VIG"][i] \in 1..22
        BY <1>1, <2>1
    <2>5. \A i \in 1..chip.pipes["DMA"] : chip.smp.clients["DMA"][i] \in 1..22
        BY <1>1, <2>2
    <2>6. \A i \in 1..chip.pipes["RGB"] : chip.smp.clients["RGB"][i] \in 1..22
        BY <1>1, <2>3
    <2>7. chip.pipes["VIG"] \in 1..4 /\ chip.pipes["DMA"] \in 1..4 /\ chip.pipes["RGB"] \in 1..4
        OBVIOUS
    <2> QED BY <2>4, <2>5, <2>6, <2>7 DEF Listed, Kinds
<1>4. \A i, j \in 1..chip.pipes["VIG"] : i # j => Clear(chip, "VIG", i, "VIG", j)
    <2>1. \A i, j \in 1..2 : i # j => \/ SmallStart("VIG", i) + 2 < SmallStart("VIG", j)
                                         \/ SmallStart("VIG", j) + 2 < SmallStart("VIG", i)
        BY DEF SmallStart
    <2> TAKE i, j \in 1..chip.pipes["VIG"]
    <2>2. /\ chip.smp.clients["VIG"][i] = SmallStart("VIG", i) /\ i \in 1..2
          /\ chip.smp.clients["VIG"][j] = SmallStart("VIG", j) /\ j \in 1..2
        BY <1>1
    <2> QED BY <1>2, <2>1, <2>2 DEF Clear
<1>5. \A i, j \in 1..chip.pipes["RGB"] : i # j => Clear(chip, "RGB", i, "RGB", j)
    <2>1. \A i, j \in 1..2 : i # j => \/ SmallStart("RGB", i) + 0 < SmallStart("RGB", j)
                                         \/ SmallStart("RGB", j) + 0 < SmallStart("RGB", i)
        BY DEF SmallStart
    <2> TAKE i, j \in 1..chip.pipes["RGB"]
    <2>2. /\ chip.smp.clients["RGB"][i] = SmallStart("RGB", i) /\ i \in 1..2
          /\ chip.smp.clients["RGB"][j] = SmallStart("RGB", j) /\ j \in 1..2
        BY <1>1
    <2> QED BY <1>2, <2>1, <2>2 DEF Clear
<1>6. \A i, j \in 1..chip.pipes["DMA"] : i # j => Clear(chip, "DMA", i, "DMA", j)
    <2>1. \A i, j \in 1..1 : i # j => \/ SmallStart("DMA", i) + 2 < SmallStart("DMA", j)
                                         \/ SmallStart("DMA", j) + 2 < SmallStart("DMA", i)
        BY DEF SmallStart
    <2> TAKE i, j \in 1..chip.pipes["DMA"]
    <2>2. /\ chip.smp.clients["DMA"][i] = SmallStart("DMA", i) /\ i \in 1..1
          /\ chip.smp.clients["DMA"][j] = SmallStart("DMA", j) /\ j \in 1..1
        BY <1>1
    <2> QED BY <1>2, <2>1, <2>2 DEF Clear
<1>7. \A i \in 1..chip.pipes["VIG"] : \A j \in 1..chip.pipes["DMA"] : Clear(chip, "VIG", i, "DMA", j)
    <2>1. \A i \in 1..2 : \A j \in 1..1 : \/ SmallStart("VIG", i) + 2 < SmallStart("DMA", j)
                                             \/ SmallStart("DMA", j) + 2 < SmallStart("VIG", i)
        BY DEF SmallStart
    <2> TAKE i \in 1..chip.pipes["VIG"]
    <2> TAKE j \in 1..chip.pipes["DMA"]
    <2>2. /\ chip.smp.clients["VIG"][i] = SmallStart("VIG", i) /\ i \in 1..2
          /\ chip.smp.clients["DMA"][j] = SmallStart("DMA", j) /\ j \in 1..1
        BY <1>1
    <2> QED BY <1>2, <2>1, <2>2 DEF Clear
<1>8. \A i \in 1..chip.pipes["VIG"] : \A j \in 1..chip.pipes["RGB"] : Clear(chip, "VIG", i, "RGB", j)
    <2>1. \A i \in 1..2 : \A j \in 1..2 : \/ SmallStart("VIG", i) + 2 < SmallStart("RGB", j)
                                             \/ SmallStart("RGB", j) + 0 < SmallStart("VIG", i)
        BY DEF SmallStart
    <2> TAKE i \in 1..chip.pipes["VIG"]
    <2> TAKE j \in 1..chip.pipes["RGB"]
    <2>2. /\ chip.smp.clients["VIG"][i] = SmallStart("VIG", i) /\ i \in 1..2
          /\ chip.smp.clients["RGB"][j] = SmallStart("RGB", j) /\ j \in 1..2
        BY <1>1
    <2> QED BY <1>2, <2>1, <2>2 DEF Clear
<1>9. \A i \in 1..chip.pipes["DMA"] : \A j \in 1..chip.pipes["RGB"] : Clear(chip, "DMA", i, "RGB", j)
    <2>1. \A i \in 1..1 : \A j \in 1..2 : \/ SmallStart("DMA", i) + 2 < SmallStart("RGB", j)
                                             \/ SmallStart("RGB", j) + 0 < SmallStart("DMA", i)
        BY DEF SmallStart
    <2> TAKE i \in 1..chip.pipes["DMA"]
    <2> TAKE j \in 1..chip.pipes["RGB"]
    <2>2. /\ chip.smp.clients["DMA"][i] = SmallStart("DMA", i) /\ i \in 1..1
          /\ chip.smp.clients["RGB"][j] = SmallStart("RGB", j) /\ j \in 1..2
        BY <1>1
    <2> QED BY <1>2, <2>1, <2>2 DEF Clear
<1> QED BY <1>3, <1>4, <1>5, <1>6, <1>7, <1>8, <1>9 DEF Ported, Kinds

(* The tables list the ports of one of the two layouts.                      *)
LEMMA PortedTables == \A chip \in PooledTables : Ported(chip)
<1>1. Ported(msm8x74v1)
    <2>1. /\ msm8x74v1.pipes["VIG"] = 3 /\ Len(msm8x74v1.smp.clients["VIG"]) = 3
          /\ msm8x74v1.smp.clients["VIG"][1] = 1 /\ msm8x74v1.smp.clients["VIG"][2] = 4
          /\ msm8x74v1.smp.clients["VIG"][3] = 7
        BY DEF msm8x74v1, SmpPool, Pipes
    <2>2. \A i \in 1..msm8x74v1.pipes["VIG"] : msm8x74v1.smp.clients["VIG"][i] = BigStart("VIG", i)
        BY <2>1 DEF BigStart
    <2>3. /\ msm8x74v1.pipes["DMA"] = 2 /\ Len(msm8x74v1.smp.clients["DMA"]) = 2
          /\ msm8x74v1.smp.clients["DMA"][1] = 10 /\ msm8x74v1.smp.clients["DMA"][2] = 13
        BY DEF msm8x74v1, SmpPool, Pipes
    <2>4. \A i \in 1..msm8x74v1.pipes["DMA"] : msm8x74v1.smp.clients["DMA"][i] = BigStart("DMA", i)
        BY <2>3 DEF BigStart
    <2>5. /\ msm8x74v1.pipes["RGB"] = 3 /\ Len(msm8x74v1.smp.clients["RGB"]) = 3
          /\ msm8x74v1.smp.clients["RGB"][1] = 16 /\ msm8x74v1.smp.clients["RGB"][2] = 17
          /\ msm8x74v1.smp.clients["RGB"][3] = 18
        BY DEF msm8x74v1, SmpPool, Pipes
    <2>6. \A i \in 1..msm8x74v1.pipes["RGB"] : msm8x74v1.smp.clients["RGB"][i] = BigStart("RGB", i)
        BY <2>5 DEF BigStart
    <2>7. /\ msm8x74v1.pipes["VIG"] \in 1..4 /\ Len(msm8x74v1.smp.clients["VIG"]) = msm8x74v1.pipes["VIG"]
          /\ msm8x74v1.pipes["DMA"] \in 1..2 /\ Len(msm8x74v1.smp.clients["DMA"]) = msm8x74v1.pipes["DMA"]
          /\ msm8x74v1.pipes["RGB"] \in 1..4 /\ Len(msm8x74v1.smp.clients["RGB"]) = msm8x74v1.pipes["RGB"]
        BY <2>1, <2>3, <2>5
    <2> QED BY <2>2, <2>4, <2>6, <2>7, BigPorted
<1>2. Ported(msm8x74v2)
    <2>1. /\ msm8x74v2.pipes["VIG"] = 3 /\ Len(msm8x74v2.smp.clients["VIG"]) = 3
          /\ msm8x74v2.smp.clients["VIG"][1] = 1 /\ msm8x74v2.smp.clients["VIG"][2] = 4
          /\ msm8x74v2.smp.clients["VIG"][3] = 7
        BY DEF msm8x74v2, SmpPool, Pipes
    <2>2. \A i \in 1..msm8x74v2.pipes["VIG"] : msm8x74v2.smp.clients["VIG"][i] = BigStart("VIG", i)
        BY <2>1 DEF BigStart
    <2>3. /\ msm8x74v2.pipes["DMA"] = 2 /\ Len(msm8x74v2.smp.clients["DMA"]) = 2
          /\ msm8x74v2.smp.clients["DMA"][1] = 10 /\ msm8x74v2.smp.clients["DMA"][2] = 13
        BY DEF msm8x74v2, SmpPool, Pipes
    <2>4. \A i \in 1..msm8x74v2.pipes["DMA"] : msm8x74v2.smp.clients["DMA"][i] = BigStart("DMA", i)
        BY <2>3 DEF BigStart
    <2>5. /\ msm8x74v2.pipes["RGB"] = 3 /\ Len(msm8x74v2.smp.clients["RGB"]) = 3
          /\ msm8x74v2.smp.clients["RGB"][1] = 16 /\ msm8x74v2.smp.clients["RGB"][2] = 17
          /\ msm8x74v2.smp.clients["RGB"][3] = 18
        BY DEF msm8x74v2, SmpPool, Pipes
    <2>6. \A i \in 1..msm8x74v2.pipes["RGB"] : msm8x74v2.smp.clients["RGB"][i] = BigStart("RGB", i)
        BY <2>5 DEF BigStart
    <2>7. /\ msm8x74v2.pipes["VIG"] \in 1..4 /\ Len(msm8x74v2.smp.clients["VIG"]) = msm8x74v2.pipes["VIG"]
          /\ msm8x74v2.pipes["DMA"] \in 1..2 /\ Len(msm8x74v2.smp.clients["DMA"]) = msm8x74v2.pipes["DMA"]
          /\ msm8x74v2.pipes["RGB"] \in 1..4 /\ Len(msm8x74v2.smp.clients["RGB"]) = msm8x74v2.pipes["RGB"]
        BY <2>1, <2>3, <2>5
    <2> QED BY <2>2, <2>4, <2>6, <2>7, BigPorted
<1>3. Ported(apq8084)
    <2>1. /\ apq8084.pipes["VIG"] = 4 /\ Len(apq8084.smp.clients["VIG"]) = 4
          /\ apq8084.smp.clients["VIG"][1] = 1 /\ apq8084.smp.clients["VIG"][2] = 4
          /\ apq8084.smp.clients["VIG"][3] = 7 /\ apq8084.smp.clients["VIG"][4] = 19
        BY DEF apq8084, SmpPool, Pipes
    <2>2. \A i \in 1..apq8084.pipes["VIG"] : apq8084.smp.clients["VIG"][i] = BigStart("VIG", i)
        BY <2>1 DEF BigStart
    <2>3. /\ apq8084.pipes["DMA"] = 2 /\ Len(apq8084.smp.clients["DMA"]) = 2
          /\ apq8084.smp.clients["DMA"][1] = 10 /\ apq8084.smp.clients["DMA"][2] = 13
        BY DEF apq8084, SmpPool, Pipes
    <2>4. \A i \in 1..apq8084.pipes["DMA"] : apq8084.smp.clients["DMA"][i] = BigStart("DMA", i)
        BY <2>3 DEF BigStart
    <2>5. /\ apq8084.pipes["RGB"] = 4 /\ Len(apq8084.smp.clients["RGB"]) = 4
          /\ apq8084.smp.clients["RGB"][1] = 16 /\ apq8084.smp.clients["RGB"][2] = 17
          /\ apq8084.smp.clients["RGB"][3] = 18 /\ apq8084.smp.clients["RGB"][4] = 22
        BY DEF apq8084, SmpPool, Pipes
    <2>6. \A i \in 1..apq8084.pipes["RGB"] : apq8084.smp.clients["RGB"][i] = BigStart("RGB", i)
        BY <2>5 DEF BigStart
    <2>7. /\ apq8084.pipes["VIG"] \in 1..4 /\ Len(apq8084.smp.clients["VIG"]) = apq8084.pipes["VIG"]
          /\ apq8084.pipes["DMA"] \in 1..2 /\ Len(apq8084.smp.clients["DMA"]) = apq8084.pipes["DMA"]
          /\ apq8084.pipes["RGB"] \in 1..4 /\ Len(apq8084.smp.clients["RGB"]) = apq8084.pipes["RGB"]
        BY <2>1, <2>3, <2>5
    <2> QED BY <2>2, <2>4, <2>6, <2>7, BigPorted
<1>4. Ported(msm8x94)
    <2>1. /\ msm8x94.pipes["VIG"] = 4 /\ Len(msm8x94.smp.clients["VIG"]) = 4
          /\ msm8x94.smp.clients["VIG"][1] = 1 /\ msm8x94.smp.clients["VIG"][2] = 4
          /\ msm8x94.smp.clients["VIG"][3] = 7 /\ msm8x94.smp.clients["VIG"][4] = 19
        BY DEF msm8x94, SmpPool, Pipes
    <2>2. \A i \in 1..msm8x94.pipes["VIG"] : msm8x94.smp.clients["VIG"][i] = BigStart("VIG", i)
        BY <2>1 DEF BigStart
    <2>3. /\ msm8x94.pipes["DMA"] = 2 /\ Len(msm8x94.smp.clients["DMA"]) = 2
          /\ msm8x94.smp.clients["DMA"][1] = 10 /\ msm8x94.smp.clients["DMA"][2] = 13
        BY DEF msm8x94, SmpPool, Pipes
    <2>4. \A i \in 1..msm8x94.pipes["DMA"] : msm8x94.smp.clients["DMA"][i] = BigStart("DMA", i)
        BY <2>3 DEF BigStart
    <2>5. /\ msm8x94.pipes["RGB"] = 4 /\ Len(msm8x94.smp.clients["RGB"]) = 4
          /\ msm8x94.smp.clients["RGB"][1] = 16 /\ msm8x94.smp.clients["RGB"][2] = 17
          /\ msm8x94.smp.clients["RGB"][3] = 18 /\ msm8x94.smp.clients["RGB"][4] = 22
        BY DEF msm8x94, SmpPool, Pipes
    <2>6. \A i \in 1..msm8x94.pipes["RGB"] : msm8x94.smp.clients["RGB"][i] = BigStart("RGB", i)
        BY <2>5 DEF BigStart
    <2>7. /\ msm8x94.pipes["VIG"] \in 1..4 /\ Len(msm8x94.smp.clients["VIG"]) = msm8x94.pipes["VIG"]
          /\ msm8x94.pipes["DMA"] \in 1..2 /\ Len(msm8x94.smp.clients["DMA"]) = msm8x94.pipes["DMA"]
          /\ msm8x94.pipes["RGB"] \in 1..4 /\ Len(msm8x94.smp.clients["RGB"]) = msm8x94.pipes["RGB"]
        BY <2>1, <2>3, <2>5
    <2> QED BY <2>2, <2>4, <2>6, <2>7, BigPorted
<1>5. Ported(msm8x26)
    <2>1. /\ msm8x26.pipes["VIG"] = 1 /\ Len(msm8x26.smp.clients["VIG"]) = 1
          /\ msm8x26.smp.clients["VIG"][1] = 1
        BY DEF msm8x26, SmpPool, Pipes
    <2>2. \A i \in 1..msm8x26.pipes["VIG"] : msm8x26.smp.clients["VIG"][i] = SmallStart("VIG", i)
        BY <2>1 DEF SmallStart
    <2>3. /\ msm8x26.pipes["DMA"] = 1 /\ Len(msm8x26.smp.clients["DMA"]) = 1
          /\ msm8x26.smp.clients["DMA"][1] = 4
        BY DEF msm8x26, SmpPool, Pipes
    <2>4. \A i \in 1..msm8x26.pipes["DMA"] : msm8x26.smp.clients["DMA"][i] = SmallStart("DMA", i)
        BY <2>3 DEF SmallStart
    <2>5. /\ msm8x26.pipes["RGB"] = 1 /\ Len(msm8x26.smp.clients["RGB"]) = 1
          /\ msm8x26.smp.clients["RGB"][1] = 7
        BY DEF msm8x26, SmpPool, Pipes
    <2>6. \A i \in 1..msm8x26.pipes["RGB"] : msm8x26.smp.clients["RGB"][i] = SmallStart("RGB", i)
        BY <2>5 DEF SmallStart
    <2>7. /\ msm8x26.pipes["VIG"] \in 1..2 /\ Len(msm8x26.smp.clients["VIG"]) = msm8x26.pipes["VIG"]
          /\ msm8x26.pipes["DMA"] \in 1..1 /\ Len(msm8x26.smp.clients["DMA"]) = msm8x26.pipes["DMA"]
          /\ msm8x26.pipes["RGB"] \in 1..2 /\ Len(msm8x26.smp.clients["RGB"]) = msm8x26.pipes["RGB"]
        BY <2>1, <2>3, <2>5
    <2> QED BY <2>2, <2>4, <2>6, <2>7, SmallPorted
<1>6. Ported(msm8x16)
    <2>1. /\ msm8x16.pipes["VIG"] = 1 /\ Len(msm8x16.smp.clients["VIG"]) = 1
          /\ msm8x16.smp.clients["VIG"][1] = 1
        BY DEF msm8x16, SmpPool, Pipes
    <2>2. \A i \in 1..msm8x16.pipes["VIG"] : msm8x16.smp.clients["VIG"][i] = SmallStart("VIG", i)
        BY <2>1 DEF SmallStart
    <2>3. /\ msm8x16.pipes["DMA"] = 1 /\ Len(msm8x16.smp.clients["DMA"]) = 1
          /\ msm8x16.smp.clients["DMA"][1] = 4
        BY DEF msm8x16, SmpPool, Pipes
    <2>4. \A i \in 1..msm8x16.pipes["DMA"] : msm8x16.smp.clients["DMA"][i] = SmallStart("DMA", i)
        BY <2>3 DEF SmallStart
    <2>5. /\ msm8x16.pipes["RGB"] = 2 /\ Len(msm8x16.smp.clients["RGB"]) = 2
          /\ msm8x16.smp.clients["RGB"][1] = 7 /\ msm8x16.smp.clients["RGB"][2] = 8
        BY DEF msm8x16, SmpPool, Pipes
    <2>6. \A i \in 1..msm8x16.pipes["RGB"] : msm8x16.smp.clients["RGB"][i] = SmallStart("RGB", i)
        BY <2>5 DEF SmallStart
    <2>7. /\ msm8x16.pipes["VIG"] \in 1..2 /\ Len(msm8x16.smp.clients["VIG"]) = msm8x16.pipes["VIG"]
          /\ msm8x16.pipes["DMA"] \in 1..1 /\ Len(msm8x16.smp.clients["DMA"]) = msm8x16.pipes["DMA"]
          /\ msm8x16.pipes["RGB"] \in 1..2 /\ Len(msm8x16.smp.clients["RGB"]) = msm8x16.pipes["RGB"]
        BY <2>1, <2>3, <2>5
    <2> QED BY <2>2, <2>4, <2>6, <2>7, SmallPorted
<1>7. Ported(msm8x36)
    <2>1. /\ msm8x36.pipes["VIG"] = 1 /\ Len(msm8x36.smp.clients["VIG"]) = 1
          /\ msm8x36.smp.clients["VIG"][1] = 1
        BY DEF msm8x36, SmpPool, Pipes
    <2>2. \A i \in 1..msm8x36.pipes["VIG"] : msm8x36.smp.clients["VIG"][i] = SmallStart("VIG", i)
        BY <2>1 DEF SmallStart
    <2>3. /\ msm8x36.pipes["DMA"] = 1 /\ Len(msm8x36.smp.clients["DMA"]) = 1
          /\ msm8x36.smp.clients["DMA"][1] = 4
        BY DEF msm8x36, SmpPool, Pipes
    <2>4. \A i \in 1..msm8x36.pipes["DMA"] : msm8x36.smp.clients["DMA"][i] = SmallStart("DMA", i)
        BY <2>3 DEF SmallStart
    <2>5. /\ msm8x36.pipes["RGB"] = 2 /\ Len(msm8x36.smp.clients["RGB"]) = 2
          /\ msm8x36.smp.clients["RGB"][1] = 7 /\ msm8x36.smp.clients["RGB"][2] = 8
        BY DEF msm8x36, SmpPool, Pipes
    <2>6. \A i \in 1..msm8x36.pipes["RGB"] : msm8x36.smp.clients["RGB"][i] = SmallStart("RGB", i)
        BY <2>5 DEF SmallStart
    <2>7. /\ msm8x36.pipes["VIG"] \in 1..2 /\ Len(msm8x36.smp.clients["VIG"]) = msm8x36.pipes["VIG"]
          /\ msm8x36.pipes["DMA"] \in 1..1 /\ Len(msm8x36.smp.clients["DMA"]) = msm8x36.pipes["DMA"]
          /\ msm8x36.pipes["RGB"] \in 1..2 /\ Len(msm8x36.smp.clients["RGB"]) = msm8x36.pipes["RGB"]
        BY <2>1, <2>3, <2>5
    <2> QED BY <2>2, <2>4, <2>6, <2>7, SmallPorted
<1>8. Ported(msm8x76)
    <2>1. /\ msm8x76.pipes["VIG"] = 2 /\ Len(msm8x76.smp.clients["VIG"]) = 2
          /\ msm8x76.smp.clients["VIG"][1] = 1 /\ msm8x76.smp.clients["VIG"][2] = 9
        BY DEF msm8x76, SmpPool, Pipes
    <2>2. \A i \in 1..msm8x76.pipes["VIG"] : msm8x76.smp.clients["VIG"][i] = SmallStart("VIG", i)
        BY <2>1 DEF SmallStart
    <2>3. /\ msm8x76.pipes["DMA"] = 1 /\ Len(msm8x76.smp.clients["DMA"]) = 1
          /\ msm8x76.smp.clients["DMA"][1] = 4
        BY DEF msm8x76, SmpPool, Pipes
    <2>4. \A i \in 1..msm8x76.pipes["DMA"] : msm8x76.smp.clients["DMA"][i] = SmallStart("DMA", i)
        BY <2>3 DEF SmallStart
    <2>5. /\ msm8x76.pipes["RGB"] = 2 /\ Len(msm8x76.smp.clients["RGB"]) = 2
          /\ msm8x76.smp.clients["RGB"][1] = 7 /\ msm8x76.smp.clients["RGB"][2] = 8
        BY DEF msm8x76, SmpPool, Pipes
    <2>6. \A i \in 1..msm8x76.pipes["RGB"] : msm8x76.smp.clients["RGB"][i] = SmallStart("RGB", i)
        BY <2>5 DEF SmallStart
    <2>7. /\ msm8x76.pipes["VIG"] \in 1..2 /\ Len(msm8x76.smp.clients["VIG"]) = msm8x76.pipes["VIG"]
          /\ msm8x76.pipes["DMA"] \in 1..1 /\ Len(msm8x76.smp.clients["DMA"]) = msm8x76.pipes["DMA"]
          /\ msm8x76.pipes["RGB"] \in 1..2 /\ Len(msm8x76.smp.clients["RGB"]) = msm8x76.pipes["RGB"]
        BY <2>1, <2>3, <2>5
    <2> QED BY <2>2, <2>4, <2>6, <2>7, SmallPorted
<1> QED BY <1>1, <1>2, <1>3, <1>4, <1>5, <1>6, <1>7, <1>8 DEF PooledTables

LEMMA PoolsApart == \A chip \in PooledTables : PortsApart(chip)
<1>1. \A chip \in {msm8x74v1, msm8x74v2, msm8x26, msm8x16, msm8x36, msm8x76} :
        chip.smp.reserved = <<>> /\ chip.smp.reserved_state = 0
    <2>1. /\ msm8x74v1.smp.reserved = <<>> /\ msm8x74v1.smp.reserved_state = 0
          /\ msm8x74v2.smp.reserved = <<>> /\ msm8x74v2.smp.reserved_state = 0
        BY DEF msm8x74v1, msm8x74v2, SmpPool
    <2>2. /\ msm8x26.smp.reserved = <<>> /\ msm8x26.smp.reserved_state = 0
          /\ msm8x16.smp.reserved = <<>> /\ msm8x16.smp.reserved_state = 0
        BY DEF msm8x26, msm8x16, SmpPool
    <2>3. /\ msm8x36.smp.reserved = <<>> /\ msm8x36.smp.reserved_state = 0
          /\ msm8x76.smp.reserved = <<>> /\ msm8x76.smp.reserved_state = 0
        BY DEF msm8x36, msm8x76, SmpPool
    <2> QED BY <2>1, <2>2, <2>3
<1>2. \A chip \in PooledTables : Pooled(chip) /\ \E f : TiedUp(chip.smp.reserved, f)
    BY <1>1, NoneTied, TwoEach, OneOrFiveEach DEF PooledTables
<1> QED BY <1>2, PortedTables, PortsOf

-------------------------------------------------------------------------------

(* Rounding up does nothing to what a line of these chips takes.             *)
LEMMA RoundedUp == \A n \in {1, 2, 4} : roundup_pow_of_two(n) = n
<1> DEFINE P == {2 ^ i : i \in 0..10}
<1>1. P = {1, 2, 4, 8, 16, 32, 64, 128, 256, 512, 1024}
    <2>1. \A i \in 0..10 : i \in {0, 1, 2, 3, 4, 5, 6, 7, 8, 9, 10}
        OBVIOUS
    <2>2. \A i \in 0..10 : 2 ^ i \in {1, 2, 4, 8, 16, 32, 64, 128, 256, 512, 1024}
        <3> DEFINE f == [i \in 0..10 |-> 2 ^ i]
                   Q == {1, 2, 4, 8, 16, 32, 64, 128, 256, 512, 1024}
        <3>1. /\ f[0] = 1 /\ f[1] = 2 /\ f[2] = 4 /\ f[3] = 8 /\ f[4] = 16 /\ f[5] = 32
              /\ f[6] = 64 /\ f[7] = 128 /\ f[8] = 256 /\ f[9] = 512 /\ f[10] = 1024
            BY Powers
        <3>2. \A i \in 0..10 : 2 ^ i = f[i]
            OBVIOUS
        <3> HIDE DEF f
        <3>3. \A i \in 0..10 : f[i] \in Q
            BY <2>1, <3>1
        <3> HIDE DEF Q
        <3>4. \A i \in 0..10 : 2 ^ i \in Q
            BY <3>2, <3>3, Zenon
        <3> QED BY <3>4 DEF Q
    <2>3. {1, 2, 4, 8, 16, 32, 64, 128, 256, 512, 1024} \subseteq P
        BY Powers
    <2> QED BY <2>2, <2>3
<1> HIDE DEF P
<1>2. \A n \in {1, 2, 4} : \E p \in P : n <= p /\ p < 2 * n
    BY <1>1
<1>3. \A n \in {1, 2, 4} : \A p \in P : n <= p /\ p < 2 * n => p = n
    BY <1>1
<1>4. \A n : roundup_pow_of_two(n) = CHOOSE p \in P : n <= p /\ p < 2 * n
    BY DEF roundup_pow_of_two, P
<1> QED BY <1>2, <1>3, <1>4

LineSizes(chip) ==
    \/ chip.smp.mmb_size = 4096 /\ chip.max_width = 2048
    \/ chip.smp.mmb_size = 8192 /\ chip.max_width = 2048
    \/ chip.smp.mmb_size = 10240 /\ chip.max_width = 2560

(* The blocks of a plane as wide as a mixer.                                 *)
LineBlocks(chip) == IF chip.smp.mmb_size = 4096 THEN 4 ELSE 2

(* A line takes two or four blocks packed, and two as NV12.                  *)
LEMMA LineOf ==
    ASSUME NEW chip, LineSizes(chip), NEW revision
    PROVE  /\ mdp5_smp_calculate(chip, revision, chip.max_width, "RGB") = <<LineBlocks(chip)>>
           /\ mdp5_smp_calculate(chip, revision, chip.max_width, "NV12") = <<1, 1>>
<1> DEFINE d(width, cpp) == DivUp(2 * width * cpp, chip.smp.mmb_size)
<1>1. d(chip.max_width, 4) = LineBlocks(chip)
    BY DEF LineSizes, LineBlocks, DivUp
<1>2. d(chip.max_width, 1) = 1
    BY DEF LineSizes, DivUp
<1>3. d(chip.max_width \div 2, 2) = 1
    <2>1. 2048 \div 2 = 1024 /\ 2560 \div 2 = 1280
        OBVIOUS
    <2> QED BY <2>1 DEF LineSizes, DivUp
<1>4. \A width, cpp : d(width, cpp) \in {1, 2, 4} => Blocks(chip, revision, width, cpp) = d(width, cpp)
    BY RoundedUp DEF Blocks
<1> HIDE DEF d
<1>5. LineBlocks(chip) \in {2, 4}
    BY DEF LineBlocks
<1>6. /\ Blocks(chip, revision, chip.max_width, 4) = LineBlocks(chip)
      /\ Blocks(chip, revision, chip.max_width, 1) = 1
      /\ Blocks(chip, revision, chip.max_width \div 2, 2) = 1
    BY <1>1, <1>2, <1>3, <1>4, <1>5
<1> QED BY <1>6 DEF mdp5_smp_calculate

(* So many CRTCs a table has room for.                                       *)
Displayed(chip, n) ==
    /\ n \in 0..3 /\ n <= Len(chip.lm)
    /\ chip.connect[3] # "DSI" /\ chip.connect[4] # "HDMI" => n <= 1

FreeBlocks(chip) == chip.smp.mmb_count - chip.smp.reserved_state

PoolRoom(chip) ==
    /\ LineSizes(chip) /\ FreeBlocks(chip) \in Int
    /\ \/ FreeBlocks(chip) >= 12
       \/ FreeBlocks(chip) >= 6 /\ chip.smp.mmb_size # 4096
       \/ FreeBlocks(chip) >= 4 /\ chip.connect[3] # "DSI" /\ chip.connect[4] # "HDMI"

(* Every pool has room for a line of each display its chip can have.         *)
LEMMA PoolRooms == \A chip \in PooledTables : PoolRoom(chip)
<1>1. PoolRoom(msm8x74v1) /\ PoolRoom(msm8x74v2)
    BY SMTT(30) DEF PoolRoom, FreeBlocks, LineSizes, msm8x74v1, msm8x74v2, SmpPool
<1>2. PoolRoom(msm8x26)
    BY DEF PoolRoom, FreeBlocks, LineSizes, msm8x26, SmpPool
<1>3. PoolRoom(apq8084)
    BY DEF PoolRoom, FreeBlocks, LineSizes, apq8084, SmpPool
<1>4. PoolRoom(msm8x94)
    BY DEF PoolRoom, FreeBlocks, LineSizes, msm8x94, SmpPool
<1>5. PoolRoom(msm8x16) /\ PoolRoom(msm8x36) /\ PoolRoom(msm8x76)
    BY DEF PoolRoom, FreeBlocks, LineSizes, msm8x16, msm8x36, msm8x76, SmpPool
<1> QED BY <1>1, <1>2, <1>3, <1>4, <1>5 DEF PooledTables

PlaneTotal(chip, revision, format) ==
    LET blocks == mdp5_smp_calculate(chip, revision, chip.max_width, format)
    IN  IF Len(blocks) = 1 THEN blocks[1] ELSE blocks[1] + blocks[2]

(* So a plane of full width fits for each CRTC.                              *)
LEMMA PlanesFit ==
    ASSUME NEW chip \in PooledTables, NEW revision, NEW n, Displayed(chip, n),
           NEW format \in {"RGB", "NV12"}
    PROVE  n * PlaneTotal(chip, revision, format) <= chip.smp.mmb_count - chip.smp.reserved_state
<1>1. PoolRoom(chip)
    BY PoolRooms
<1>2. PlaneTotal(chip, revision, "RGB") = LineBlocks(chip) /\ PlaneTotal(chip, revision, "NV12") = 2
    BY <1>1, LineOf DEF PlaneTotal, PoolRoom
<1>3. PlaneTotal(chip, revision, format) \in {2, LineBlocks(chip)}
    BY <1>2
<1>4. n \in {0, 1, 2, 3}
    BY DEF Displayed
<1> DEFINE total == PlaneTotal(chip, revision, format)
<1>5. /\ FreeBlocks(chip) \in Int
      /\ \/ FreeBlocks(chip) >= 12
         \/ FreeBlocks(chip) >= 6 /\ chip.smp.mmb_size # 4096
         \/ FreeBlocks(chip) >= 4 /\ n <= 1
    BY <1>1 DEF PoolRoom, Displayed
<1>6. total \in {2, 4} /\ (chip.smp.mmb_size # 4096 => total = 2)
    BY <1>3 DEF LineBlocks
<1> HIDE DEF total
<1>7. n * total <= FreeBlocks(chip)
    BY <1>4, <1>5, <1>6
<1> QED BY <1>7 DEF FreeBlocks, total

(* Every CRTC finds a pipe for its primary plane.                            *)
LEMMA PipesForAll ==
    \A chip \in Tables : /\ chip.pipes.CURSOR \in Nat
                         /\ chip.pipes.RGB + chip.pipes.VIG + chip.pipes.DMA \in 3..10
                         /\ chip.pipes.RGB \in Nat /\ chip.pipes.VIG \in Nat
                         /\ chip.pipes.DMA \in Nat
<1>1. \A chip \in {msm8x74v1, msm8x26, msm8x74v2, apq8084, msm8x16} :
         /\ chip.pipes.CURSOR \in Nat
         /\ chip.pipes.RGB + chip.pipes.VIG + chip.pipes.DMA \in 3..10
         /\ chip.pipes.RGB \in Nat /\ chip.pipes.VIG \in Nat /\ chip.pipes.DMA \in Nat
    <2>1. /\ msm8x74v1.pipes = Pipes(3, 3, 2, 0) /\ msm8x26.pipes = Pipes(1, 1, 1, 0)
          /\ msm8x74v2.pipes = Pipes(3, 3, 2, 0) /\ apq8084.pipes = Pipes(4, 4, 2, 0)
          /\ msm8x16.pipes = Pipes(1, 2, 1, 0)
        BY DEF msm8x74v1, msm8x26, msm8x74v2, apq8084, msm8x16
    <2> QED BY <2>1 DEF Pipes
<1>2. \A chip \in {msm8x36, msm8x94, msm8x96, msm8x76, msm8937} :
         /\ chip.pipes.CURSOR \in Nat
         /\ chip.pipes.RGB + chip.pipes.VIG + chip.pipes.DMA \in 3..10
         /\ chip.pipes.RGB \in Nat /\ chip.pipes.VIG \in Nat /\ chip.pipes.DMA \in Nat
    <2>1. /\ msm8x36.pipes = Pipes(1, 2, 1, 0) /\ msm8x94.pipes = Pipes(4, 4, 2, 0)
          /\ msm8x96.pipes = Pipes(4, 4, 2, 2) /\ msm8x76.pipes = Pipes(2, 2, 1, 1)
          /\ msm8937.pipes = Pipes(1, 2, 1, 1)
        BY DEF msm8x36, msm8x94, msm8x96, msm8x76, msm8937
    <2> QED BY <2>1 DEF Pipes
<1>3. \A chip \in {msm8917, msm8x53, msm8998, sdm660, sdm630} :
         /\ chip.pipes.CURSOR \in Nat
         /\ chip.pipes.RGB + chip.pipes.VIG + chip.pipes.DMA \in 3..10
         /\ chip.pipes.RGB \in Nat /\ chip.pipes.VIG \in Nat /\ chip.pipes.DMA \in Nat
    <2>1. /\ msm8917.pipes = Pipes(1, 2, 1, 1) /\ msm8x53.pipes = Pipes(1, 2, 1, 1)
          /\ msm8998.pipes = Pipes(4, 4, 2, 2) /\ sdm660.pipes = Pipes(2, 4, 2, 1)
          /\ sdm630.pipes = Pipes(1, 4, 2, 1)
        BY DEF msm8917, msm8x53, msm8998, sdm660, sdm630
    <2> QED BY <2>1 DEF Pipes
<1> QED BY <1>1, <1>2, <1>3 DEF Tables

(* Which tables have a shared pool, and where HDMI is.                       *)
LEMMA TablesPooled ==
    \A chip \in Tables : /\ "SMP" \in chip.mdp_caps => chip \in PooledTables
                         /\ \A i \in 1..5 : chip.connect[i] = "HDMI" => i = 4
<1>1. \A chip \in PooledTables : \A i \in 1..5 : chip.connect[i] = "HDMI" => i = 4
    <2>1. \A i \in 1..5 : msm8x74v1.connect[i] = "HDMI" => i = 4
        BY DEF msm8x74v1
    <2>2. \A i \in 1..5 : msm8x74v2.connect[i] = "HDMI" => i = 4
        BY DEF msm8x74v2
    <2>3. \A i \in 1..5 : msm8x26.connect[i] = "HDMI" => i = 4
        BY DEF msm8x26
    <2>4. \A i \in 1..5 : apq8084.connect[i] = "HDMI" => i = 4
        BY DEF apq8084
    <2>5. \A i \in 1..5 : msm8x16.connect[i] = "HDMI" => i = 4
        BY DEF msm8x16
    <2>6. \A i \in 1..5 : msm8x36.connect[i] = "HDMI" => i = 4
        BY DEF msm8x36
    <2>7. \A i \in 1..5 : msm8x94.connect[i] = "HDMI" => i = 4
        BY DEF msm8x94
    <2>8. \A i \in 1..5 : msm8x76.connect[i] = "HDMI" => i = 4
        BY DEF msm8x76
    <2> QED BY <2>1, <2>2, <2>3, <2>4, <2>5, <2>6, <2>7, <2>8 DEF PooledTables
<1>2. \A chip \in Tables \ PooledTables :
        "SMP" \notin chip.mdp_caps /\ \A i \in 1..5 : chip.connect[i] = "HDMI" => i = 4
    <2>1. "SMP" \notin msm8x96.mdp_caps /\ \A i \in 1..5 : msm8x96.connect[i] = "HDMI" => i = 4
        BY DEF msm8x96
    <2>2. "SMP" \notin msm8937.mdp_caps /\ \A i \in 1..5 : msm8937.connect[i] = "HDMI" => i = 4
        BY DEF msm8937
    <2>3. "SMP" \notin msm8917.mdp_caps /\ \A i \in 1..5 : msm8917.connect[i] = "HDMI" => i = 4
        BY DEF msm8917
    <2>4. "SMP" \notin msm8x53.mdp_caps /\ \A i \in 1..5 : msm8x53.connect[i] = "HDMI" => i = 4
        BY DEF msm8x53
    <2>5. "SMP" \notin msm8998.mdp_caps /\ \A i \in 1..5 : msm8998.connect[i] = "HDMI" => i = 4
        BY DEF msm8998
    <2>6. "SMP" \notin sdm660.mdp_caps /\ \A i \in 1..5 : sdm660.connect[i] = "HDMI" => i = 4
        BY DEF sdm660
    <2>7. "SMP" \notin sdm630.mdp_caps /\ \A i \in 1..5 : sdm630.connect[i] = "HDMI" => i = 4
        BY DEF sdm630
    <2> QED BY <2>1, <2>2, <2>3, <2>4, <2>5, <2>6, <2>7 DEF Tables, PooledTables
<1> QED BY <1>1, <1>2

-------------------------------------------------------------------------------

(* The smaller of two numbers is at most either.                             *)
LEMMA SetMinBounds ==
    ASSUME NEW a \in Nat, NEW b \in Nat
    PROVE  SetMin({a, b}) <= a /\ SetMin({a, b}) <= b
<1>1. \E x \in {a, b} : \A y \in {a, b} : x <= y
    <2>1. CASE a <= b
        BY <2>1
    <2>2. CASE b <= a
        BY <2>2
    <2> QED BY <2>1, <2>2
<1> QED BY <1>1 DEF SetMin

LEMMA HandlersKnown == \A h \in cfg_handlers : h.hw \in Tables
BY DEF cfg_handlers, cfg_handlers_v1, cfg_handlers_v3, Handler, Tables

(* The driver keeps the table it found, and has a CRTC for each encoder as   *)
(* long as there are mixers.                                                 *)
CrtcsCounted ==
    kms.phase = "up" =>
        /\ Chip \in Tables
        /\ kms.crtcs \in Nat /\ kms.crtcs <= Len(kms.encoders) /\ kms.crtcs <= Len(Chip.lm)

(* modeset_init() counts them so.                                            *)
LEMMA KmsInitCounts == ASSUME KmsInit PROVE CrtcsCounted'
<1>1. PICK h \in mdp5_cfg_init(board.major, board.minor) :
        kms' = modeset_init(h, modeset_init_intfs(board, h, FALSE))
    BY DEF KmsInit
<1> DEFINE es == modeset_init_intfs(board, h, FALSE).encoders
<1>2. h \in cfg_handlers
    BY DEF mdp5_cfg_init
<1>3. h.hw \in Tables /\ ChipShape(h.hw)
    BY <1>2, HandlersKnown, TablesShape
<1>4. Len(h.hw.lm) \in Nat
    BY <1>3 DEF ChipShape, MaxMixers
<1>5. Len(es) \in Nat
    BY EncodersCounted
<1>6. kms'.hw = h.hw /\ kms'.encoders = es /\ kms'.crtcs = SetMin({Len(es), Len(h.hw.lm)})
    BY <1>1 DEF modeset_init
<1> HIDE DEF es
<1>7. kms'.crtcs \in Nat /\ kms'.crtcs <= Len(es) /\ kms'.crtcs <= Len(h.hw.lm)
    BY <1>4, <1>5, <1>6, SetMinOfTwo, SetMinBounds
<1> QED BY <1>3, <1>6, <1>7 DEF CrtcsCounted, Chip

(* Nothing changes the count afterwards.                                     *)
LEMMA CountedNext ==
    ASSUME CrtcsCounted, [Next]_vars
    PROVE  CrtcsCounted'
<1>1. CASE KmsInit
    BY <1>1, KmsInitCounts
<1>2. CASE KmsInitFails
    <2>1. kms'.phase # "up"
        BY <1>2 DEF KmsInitFails, NoKms
    <2> QED BY <2>1 DEF CrtcsCounted
<1>3. CASE UNCHANGED kms
    <2>1. Chip' = Chip /\ kms' = kms
        BY <1>3 DEF Chip
    <2> QED BY <2>1 DEF CrtcsCounted
<1>4. CASE \E c \in Crtcs : Commit(c) \/ Disable(c) \/ Enable(c)
    BY <1>3, <1>4 DEF Commit, Disable, Enable
<1>5. CASE UNCHANGED vars
    BY <1>3, <1>5 DEF vars
<1> QED BY <1>1, <1>2, <1>4, <1>5 DEF Next

(* Interfaces with an encoder: INTF1 and INTF2 for DSI, INTF3 for HDMI.      *)
LEMMA EncodersOn ==
    ASSUME SInv, CrtcsCounted, kms.phase = "up"
    PROVE  Displayed(Chip, kms.crtcs)
<1> DEFINE n == Len(kms.encoders)
<1>1. PICK S : kms.encoders \in Seq(S)
    BY DEF SInv, EncodersKnown
<1>2. n \in Nat /\ Encoders = 1..n
    BY <1>1 DEF Encoders
<1>3. /\ Chip \in Tables /\ ChipWires(Chip)
      /\ kms.crtcs \in Nat /\ kms.crtcs <= n /\ kms.crtcs <= Len(Chip.lm)
    BY DEF SInv, EncodersKnown, CrtcsCounted
<1>4. \A e \in Encoders : \/ Num(e) \in {1, 2} /\ Chip.connect[Num(e) + 1] = "DSI"
                          \/ Num(e) = 3 /\ Chip.connect[4] = "HDMI"
    <2> TAKE e \in Encoders
    <2>1. /\ Num(e) \in 0..4 /\ kms.encoders[e].type = Chip.connect[Num(e) + 1]
          /\ kms.encoders[e].type \in {"DSI", "HDMI"}
        BY EncoderFacts
    <2>2. Num(e) + 1 \in 1..5
        BY <2>1
    <2>3. CASE Chip.connect[Num(e) + 1] = "DSI"
        <3>1. Num(e) + 1 \in {2, 3}
            BY <1>3, <2>2, <2>3 DEF ChipWires
        <3> QED BY <3>1, <2>1, <2>3
    <2>4. CASE Chip.connect[Num(e) + 1] = "HDMI"
        <3>1. Num(e) + 1 = 4
            BY <1>3, <2>2, <2>4, TablesPooled
        <3> QED BY <3>1, <2>1, <2>4
    <2> QED BY <2>1, <2>3, <2>4
<1>5. \A e, f \in Encoders : e # f => Num(e) # Num(f)
    BY EncoderFacts
<1>6. n <= 3
    <2> SUFFICES ASSUME n > 3 PROVE FALSE
        BY <1>2
    <2>1. {1, 2, 3, 4} \subseteq Encoders
        BY <1>2
    <2>2. /\ Num(1) \in 1..3 /\ Num(2) \in 1..3 /\ Num(3) \in 1..3 /\ Num(4) \in 1..3
        BY <1>4, <2>1
    <2>3. /\ Num(1) # Num(2) /\ Num(1) # Num(3) /\ Num(1) # Num(4)
          /\ Num(2) # Num(3) /\ Num(2) # Num(4) /\ Num(3) # Num(4)
        BY <1>5, <2>1
    <2> QED BY <2>2, <2>3
<1>7. ASSUME Chip.connect[3] # "DSI", Chip.connect[4] # "HDMI"
      PROVE  n <= 1
    <2> SUFFICES ASSUME n > 1 PROVE FALSE
        BY <1>2
    <2>1. 1 \in Encoders /\ 2 \in Encoders
        BY <1>2
    <2>2. \A e \in Encoders : Num(e) = 1
        BY <1>4, <1>7
    <2> QED BY <1>5, <2>1, <2>2
<1> HIDE DEF n
<1>8. kms.crtcs \in 0..3
    BY <1>2, <1>3, <1>6
<1> QED BY <1>2, <1>3, <1>7, <1>8 DEF Displayed

(* The first planes, one for each CRTC, are primary and come before the      *)
(* cursors.                                                                  *)
LEMMA PrimaryPlanes ==
    ASSUME NEW chip \in Tables, NEW n \in 0..3
    PROVE  /\ n <= PipeCount(chip) - chip.pipes.CURSOR
           /\ Cardinality({i \in 0..(PipeCount(chip) - 1) : PlaneType(chip, n, i) = "PRIMARY"}) = n
<1> DEFINE last == PipeCount(chip) - 1
<1>1. n <= PipeCount(chip) - chip.pipes.CURSOR /\ last \in Nat /\ n - 1 <= last
    BY PipesForAll DEF PipeCount
<1>2. \A i \in 0..last : PlaneType(chip, n, i) = "PRIMARY" <=> i < n
    BY DEF PlaneType
<1> HIDE DEF last
<1>3. {i \in 0..last : PlaneType(chip, n, i) = "PRIMARY"} = 0..(n - 1)
    BY <1>1, <1>2
<1>4. Cardinality(0..(n - 1)) = n
    BY FS_Interval
<1> QED BY <1>1, <1>3, <1>4 DEF last

(* Altogether.                                                               *)
LEMMA WhatComesUp ==
    ASSUME SInv, CrtcsCounted
    PROVE  BringUpSound
<1> SUFFICES ASSUME kms.phase = "up" PROVE BringUpSound
    BY DEF BringUpSound
<1>1. Displayed(Chip, kms.crtcs) /\ Chip \in Tables
    BY EncodersOn DEF CrtcsCounted
<1>2. FlushesAll(Chip)
    BY <1>1, TablesFlush
<1>3. ASSUME "SMP" \in Chip.mdp_caps
      PROVE  /\ PortsApart(Chip)
             /\ \A format \in {"RGB", "NV12"} :
                  kms.crtcs * PlaneTotal(Chip, kms.revision, format)
                    <= Chip.smp.mmb_count - Chip.smp.reserved_state
    <2>1. Chip \in PooledTables
        BY <1>1, <1>3, TablesPooled
    <2> QED BY <1>1, <2>1, PoolsApart, PlanesFit
<1>4. kms.crtcs \in 0..3
    BY <1>1 DEF Displayed
<1>5. /\ kms.crtcs <= PipeCount(Chip) - Chip.pipes.CURSOR
      /\ Cardinality({i \in 0..(PipeCount(Chip) - 1) :
                        PlaneType(Chip, kms.crtcs, i) = "PRIMARY"}) = kms.crtcs
    BY <1>1, <1>4, PrimaryPlanes
<1>6. \A e, f \in Encoders : e # f => kms.encoders[e].ctl # kms.encoders[f].ctl
    BY DEF SInv, EncodersKnown, Apart, Encoders
<1> HIDE DEF Chip
<1> QED BY <1>2, <1>3, <1>5, <1>6 DEF BringUpSound, PlaneTotal

(* On every board what comes up can be driven.                               *)
THEOREM BringUpCorrect == Spec => []BringUpSound
<1> DEFINE Inv == SInv /\ CrtcsCounted
<1>1. Init => Inv
    <2> SUFFICES ASSUME Init PROVE Inv
        OBVIOUS
    <2>1. board \in Boards /\ kms.phase # "up"
        BY DEF Init, NoKms
    <2> QED BY <2>1 DEF SInv, EncodersKnown, CrtcsCounted
<1>2. Inv /\ [Next]_vars => Inv'
    BY KnownNext, CountedNext
<1>3. Inv => BringUpSound
    BY WhatComesUp
<1> HIDE DEF Inv
<1> QED BY <1>1, <1>2, <1>3, PTL DEF Spec
=============================================================================
