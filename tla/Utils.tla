-------------------------------- MODULE Utils --------------------------------
(***************************************************************************)
(* class Utils: what an output mode (VO_OUTPUT_...) means to HDMI and to   *)
(* the video layer, in three tables that nothing ties together, and Align. *)
(***************************************************************************)
EXTENDS Integers

(* The width and the height of a mode. *)
GetSize(sync) ==
  CASE sync \in {"PAL", "576P50"}  -> <<720, 576>>
    [] sync \in {"NTSC", "480P60"} -> <<720, 480>>
    [] sync \in {"1080P24", "1080P25", "1080P30", "1080P50", "1080P60",
                 "1080I50", "1080I60"} -> <<1920, 1080>>
    [] sync \in {"720P50", "720P60"}   -> <<1280, 720>>
    [] sync = "800x600_60"   -> <<800, 600>>
    [] sync = "1024x768_60"  -> <<1024, 768>>
    [] sync = "1280x1024_60" -> <<1280, 1024>>
    [] sync = "1366x768_60"  -> <<1366, 768>>
    [] sync = "1440x900_60"  -> <<1400, 900>>
    [] sync = "1280x800_60"  -> <<1280, 800>>

(* Mutant: 576P50 counts as PAL.                                             *)
GetFrameRateOfField(sync) ==
  CASE sync \in {"PAL", "576P50", "1080P25"} -> 25
    [] sync = "1080P24"            -> 24
    [] sync \in {"NTSC", "1080P30"} -> 30
    [] sync \in {"1080P50", "720P50", "1080I50"} -> 50
    [] OTHER -> 60

GetFrameRate(sync) ==
  CASE sync \in {"PAL", "1080P25"} -> 25
    [] sync = "1080P24"            -> 24
    [] sync \in {"NTSC", "1080P30"} -> 30
    [] sync \in {"1080P50", "720P50", "1080I50", "576P50"} -> 50
    [] sync \in {"1080P60", "720P60", "800x600_60", "1024x768_60", "1280x1024_60",
                 "1366x768_60", "1440x900_60", "1280x800_60", "1080I60",
                 "480P60"} -> 60

(* The HDMI format of a mode is the one of the same name.                    *)
GetHDMIFmt(sync) == sync

(* External: what an HDMI format puts on the wire, as VESA and CEA name it: *)
(* width, height, scans a second, and whether two scans make a frame.       *)
Timing(fmt) ==
  CASE fmt = "PAL"        -> [size |-> <<720, 576>>,   hz |-> 50, interlaced |-> TRUE]
    [] fmt = "NTSC"       -> [size |-> <<720, 480>>,   hz |-> 60, interlaced |-> TRUE]
    [] fmt = "576P50"     -> [size |-> <<720, 576>>,   hz |-> 50, interlaced |-> FALSE]
    [] fmt = "480P60"     -> [size |-> <<720, 480>>,   hz |-> 60, interlaced |-> FALSE]
    [] fmt = "1080P24"    -> [size |-> <<1920, 1080>>, hz |-> 24, interlaced |-> FALSE]
    [] fmt = "1080P25"    -> [size |-> <<1920, 1080>>, hz |-> 25, interlaced |-> FALSE]
    [] fmt = "1080P30"    -> [size |-> <<1920, 1080>>, hz |-> 30, interlaced |-> FALSE]
    [] fmt = "1080P50"    -> [size |-> <<1920, 1080>>, hz |-> 50, interlaced |-> FALSE]
    [] fmt = "1080P60"    -> [size |-> <<1920, 1080>>, hz |-> 60, interlaced |-> FALSE]
    [] fmt = "1080I50"    -> [size |-> <<1920, 1080>>, hz |-> 50, interlaced |-> TRUE]
    [] fmt = "1080I60"    -> [size |-> <<1920, 1080>>, hz |-> 60, interlaced |-> TRUE]
    [] fmt = "720P50"     -> [size |-> <<1280, 720>>,  hz |-> 50, interlaced |-> FALSE]
    [] fmt = "720P60"     -> [size |-> <<1280, 720>>,  hz |-> 60, interlaced |-> FALSE]
    [] fmt = "800x600_60" -> [size |-> <<800, 600>>,   hz |-> 60, interlaced |-> FALSE]
    [] fmt = "1024x768_60"  -> [size |-> <<1024, 768>>,  hz |-> 60, interlaced |-> FALSE]
    [] fmt = "1280x1024_60" -> [size |-> <<1280, 1024>>, hz |-> 60, interlaced |-> FALSE]
    [] fmt = "1366x768_60"  -> [size |-> <<1366, 768>>,  hz |-> 60, interlaced |-> FALSE]
    [] fmt = "1440x900_60"  -> [size |-> <<1440, 900>>,  hz |-> 60, interlaced |-> FALSE]
    [] fmt = "1280x800_60"  -> [size |-> <<1280, 800>>,  hz |-> 60, interlaced |-> FALSE]

(* The modes but 1440x900_60, whose layer is 40 columns narrower than its   *)
(* picture.                                                                 *)
Agreeing == {"PAL", "NTSC", "576P50", "480P60", "1080P24", "1080P25", "1080P30",
             "1080P50", "1080P60", "1080I50", "1080I60", "720P50", "720P60",
             "800x600_60", "1024x768_60", "1280x1024_60", "1366x768_60",
             "1280x800_60"}

(* A layer of size and rate fills the picture of format fmt, a frame or a   *)
(* scan at a time.                                                          *)
Fills(layer, fmt) ==
  /\ layer.size = Timing(fmt).size
  /\ \/ layer.rate = Timing(fmt).hz
     \/ Timing(fmt).interlaced /\ 2 * layer.rate = Timing(fmt).hz
==============================================================================
