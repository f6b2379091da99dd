---------------------------- MODULE FirewallConfig ----------------------------
(* firewall (ifirewall.c): which commands, and which sub-functions of them, a  *)
(* BMC accepts on each pair of a LUN and a NetFn.  Masks of bits are sets; of  *)
(* commands there are two halves, 0..127 and 128..255, each read and set by a  *)
(* command of its own.                                                         *)
EXTENDS BmcConfig, SequencesExt

CONSTANTS
  FwCommands,  \* the commands there are, in 0..255
  FwSubfns,    \* the sub-functions a command may have, in 0..31
  FwPairs      \* bound: the pairs <<lun, netfn>> that a BMC has, in order

ASSUME FirewallAssumption ==
  /\ FwCommands \subseteq 0..255 /\ FwSubfns \subseteq 0..31
  /\ \A k \in 1..Len(FwPairs) : FwPairs[k][1] \in 0..3 /\ FwPairs[k][2] \in {2 * n : n \in 0..31}

Halves  == {"low", "high"}
Half(h) == {c \in FwCommands : (h = "low") <=> (c < 128)}

CmdConfig(pair)     == <<"cmdconfig", pair>>   \* [half -> commands that can be disabled]
CmdEnabled(pair)    == <<"cmdenabled", pair>>
SubConfig(pair, c)  == <<"subconfig", pair, c>>
SubEnabled(pair, c) == <<"subenabled", pair, c>>

Supported(pair) == CmdConfig(pair) \in DOMAIN conf

\* SET_COMMAND_ENABLE_BYTE: the mask's byte with Set Command Enables, 0x60.
GunByte == {c \in FwCommands : c \div 8 = 96 \div 8}

-----------------------------------------------------------------------------
(* Reading (_gather_info).  One read may go wrong.                             *)

Well == [what |-> "none", half |-> "low", pair |-> << >>]

FirewallReads(o) ==
  {[Well EXCEPT !.what = w] : w \in {"netfns lost", "netfns refused"}}
  \cup [what : {"support", "config", "enabled"}, half : Halves,
        pair : IF o.op = "reset" THEN ToSet(FwPairs) ELSE {o.pair}]
  \cup {[Well EXCEPT !.what = w] : w \in {"subsupport", "subconfig", "subenabled"}}

(* What the program knows of a pair's commands: the memory was empty, and      *)
(* after a half that cannot be read the next one is not.                       *)
KnownMask(pair, key, what, bad) ==
  [h \in Halves |->
     IF \/ bad.what = "netfns refused" \/ ~Supported(pair)
        \/ bad.what = what /\ bad.pair = pair /\ bad.half \in {"low", h}
     THEN {} ELSE conf[key][h]]

KnownConfig(pair, bad)  == KnownMask(pair, CmdConfig(pair), "config", bad)
KnownEnabled(pair, bad) == KnownMask(pair, CmdEnabled(pair), "enabled", bad)

(* Sub-functions are read if nothing failed before.                            *)
KnownSubs(key, what, bad) ==
  IF key \in DOMAIN conf /\ bad.what \in {"none", "subsupport", "subconfig", "subenabled"} \ {what}
  THEN conf[key] ELSE {}

-----------------------------------------------------------------------------
(* Setting.  What cannot be configured must stay as it is.                     *)

Masked(wanted, config, enabled) == (config \cap wanted) \cup (enabled \ config)

(* "take the gun out of their hand": the mask's byte is written anew, from     *)
(* SET_COMMAND_ENABLE_BIT, a bit's number used as a mask: it is 0.             *)
NewEnables(wanted, config, enabled, gun) ==
  LET mask == Masked(wanted, config, enabled)
  IN  IF gun THEN mask ELSE (mask \ GunByte) \cup ((GunByte \cap enabled) \ config)

SetCommands(pair, wanted, config, enabled, gun, err) ==
  LET C(h, e) == Cmd("_set_command_enables", Part(CmdEnabled(pair), h),
                     NewEnables(wanted \cap Half(h), config[h], enabled[h], gun), e)
  IN  <<C("low", "stop"), C("high", err)>>

SetSubs(pair, c, wanted, config, enabled, err) ==
  <<Cmd("_set_subfn_enables", SubEnabled(pair, c), Masked(wanted, config, enabled), err)>>

(* enable and disable: a sub-function, a command with all of them, or a pair's *)
(* commands.  For a LUN alone nothing is done.                                 *)
EnableDisable(o, bad) ==
  LET config     == KnownConfig(o.pair, bad)
      enabled    == KnownEnabled(o.pair, bad)
      subconfig  == KnownSubs(SubConfig(o.pair, o.command), "subconfig", bad)
      subenabled == KnownSubs(SubEnabled(o.pair, o.command), "subenabled", bad)
      With1(set, x) == IF o.op = "enable" THEN set \cup {x} ELSE set \ {x}
      Every(set)    == IF o.op = "enable" THEN set ELSE {}
  IN  CASE o.what = "subfn" ->
             SetSubs(o.pair, o.command, With1(subenabled, o.subfn), subconfig, subenabled, "count")
        [] o.what = "command" ->
             SetSubs(o.pair, o.command, Every(FwSubfns), subconfig, subenabled, "count")
               \o SetCommands(o.pair, With1(enabled["low"] \cup enabled["high"], o.command),
                              config, enabled, o.force, "count")
        [] o.what = "netfn" ->
             SetCommands(o.pair, Every(FwCommands), config, enabled, o.force, "count")
        [] OTHER ->
             If(bad.what = "netfns refused", <<Cmd("_gather_info", <<"none">>, "", "count")>>)

(* reset: all sub-functions of all commands, and all commands, of every even   *)
(* NetFn n.  The masks at index n of the table are those of NetFn 2n, and      *)
(* those of the sub-functions have not been read.  The last command's result   *)
(* is returned.                                                                *)
ResetPair(pair, bad) ==
  LET table == <<pair[1], 2 * pair[2]>>
      Clear(c) == SetSubs(pair, c, FwSubfns, {}, {}, "last")
  IN  FlattenSeq([k \in 1..Cardinality(FwCommands) |-> Clear(SetToSortSeq(FwCommands, <)[k])])
        \o SetCommands(pair, FwCommands, KnownConfig(table, bad), KnownEnabled(table, bad),
                       FALSE, "last")

Firewall(o, bad) ==
  CASE o.what = "illegal" \/ bad.what = "netfns lost" -> <<Abort>>
    [] o.op = "reset" -> FlattenSeq([k \in 1..Len(FwPairs) |-> ResetPair(FwPairs[k], bad)])
    [] OTHER          -> EnableDisable(o, bad)

FirewallStarts(o, bad) ==
  /\ Starts(o, Firewall(o, bad))
  /\ code' = "runs"

FirewallEnds ==
  /\ running /\ prog.do = "firewall"
  /\ todo = << >>
  /\ Return("ok")

FirewallAborts ==
  /\ running /\ prog.do = "firewall"
  /\ todo # << >> /\ Next1.key = Abort.key
  /\ Return("error")

-----------------------------------------------------------------------------
(* Properties.                                                                 *)

Walled     == ~running /\ prog.do = "firewall" /\ fails = 0
Both(mask) == mask["low"] \cup mask["high"]

\* What may not be configured stays as it is, of commands and of sub-functions,
\* and on other pairs everything does, whatever is enabled or disabled and with
\* whatever force, if no command failed (_set_command_enables, "must be the same
\* as the current enable bit").
FixedStay ==
  Walled /\ prog.op # "reset" =>
    \A pair \in ToSet(FwPairs) :
      CmdEnabled(pair) \in DOMAIN conf =>
        LET fixed(m) == Both(m[CmdEnabled(pair)]) \ Both(was[CmdConfig(pair)])
            subs     == {c \in FwCommands : SubEnabled(pair, c) \in DOMAIN conf}
        IN  /\ fixed(conf) = fixed(was)
            /\ pair # prog.pair => conf[CmdEnabled(pair)] = was[CmdEnabled(pair)]
            /\ \A c \in subs : conf[SubEnabled(pair, c)] \ was[SubConfig(pair, c)]
                                 = was[SubEnabled(pair, c)] \ was[SubConfig(pair, c)]

\* What was asked for is enabled, or disabled, where it can be configured, and
\* nothing else changes, but for the commands 0x60 to 0x67 without "force"
\* (ipmi_firewall_enable_disable).
FirewallDone ==
  Walled /\ prog.op # "reset" /\ prog.what \in {"subfn", "command", "netfn"} /\ Supported(prog.pair) =>
    LET gun(S) == IF prog.force THEN S ELSE S \ GunByte
        now   == Both(conf[CmdEnabled(prog.pair)])
        old   == Both(was[CmdEnabled(prog.pair)])
        may   == gun(Both(was[CmdConfig(prog.pair)]))
        sub   == SubEnabled(prog.pair, prog.command)
        subs  == IF sub \in DOMAIN conf THEN was[SubConfig(prog.pair, prog.command)] ELSE {}
        Is(set, S)    == IF prog.op = "enable" THEN S \subseteq set ELSE S \cap set = {}
        But(S, x)     == S \ {x}
    IN  /\ prog.what = "subfn" =>
             /\ now = old
             /\ subs # {} => /\ Is(conf[sub], {prog.subfn} \cap subs)
                             /\ But(conf[sub], prog.subfn) = But(was[sub], prog.subfn)
        /\ prog.what = "command" =>
             /\ Is(now, {prog.command} \cap may)
             /\ gun(But(now, prog.command)) = gun(But(old, prog.command))
             /\ subs # {} => Is(conf[sub], subs)
        /\ prog.what = "netfn" => Is(now, may)

\* reset enables NetFn 0's commands, the only ones whose masks it uses, but for
\* 0x60 to 0x67, if no command failed (ipmi_firewall_reset, "enable everything").
ResetOpens ==
  Walled /\ prog.op = "reset" =>
    \A pair \in ToSet(FwPairs) :
      pair[2] = 0 /\ Supported(pair) =>
        Both(was[CmdConfig(pair)]) \ GunByte \subseteq Both(conf[CmdEnabled(pair)])

FirewallAsAsked == FixedStay /\ FirewallDone /\ ResetOpens
=============================================================================
