---------------------------- MODULE FrameStream ----------------------------
(***************************************************************************)
(* What the transport promises of the encoded frames, whatever batches     *)
(* they travel in: a session hands the frames of every channel to the      *)
(* master in the order they were encoded, none left out and none twice,    *)
(* from the oldest one that waited when it began.  When it ends it loses   *)
(* what it had taken from the encoders and not announced, the frame it is  *)
(* just taking included; what waits in the encoders stays for the next.    *)
(* Frames are known by their number modulo Mod.                            *)
(***************************************************************************)
EXTENDS Integers, Sequences

CONSTANTS Channels, Mod

VARIABLES
  up,    \* a session runs
  held,  \* for each channel, the frames encoded and not announced
  taken, \* how many of them, the oldest, the session took from the encoder
  sent,  \* those announced since the last Start and not read
  last,  \* the one the master read last since then, or None
  next   \* the number of the next frame

vars == <<up, held, taken, sent, last, next>>

None == -1

Init ==
  /\ up = FALSE
  /\ held = [c \in Channels |-> <<>>] /\ taken = [c \in Channels |-> 0]
  /\ sent = [c \in Channels |-> <<>>]
  /\ last = [c \in Channels |-> None] /\ next = [c \in Channels |-> 0]

(* A number of frames for each channel, as far as the queues q reach. *)
Counts(q) ==
  {n \in [Channels -> UNION {0 .. Len(q[c]) : c \in Channels}] :
     \A c \in Channels : n[c] <= Len(q[c])}
First(q, n) == [c \in Channels |-> SubSeq(q[c], 1, n[c])]
Rest(q, n) == [c \in Channels |-> SubSeq(q[c], n[c] + 1, Len(q[c]))]

Succ(f) == (f + 1) % Mod

Produce(c) ==
  /\ next' = [next EXCEPT ![c] = Succ(@)]
  /\ held' = [held EXCEPT ![c] = Append(@, next[c])]
  /\ UNCHANGED <<up, taken, sent, last>>

(* One more frame of some channel is taken from its encoder. *)
Takes ==
  {[taken EXCEPT ![c] = @ + 1] : c \in {d \in Channels : taken[d] < Len(held[d])}}

Take ==
  /\ up /\ taken' \in Takes
  /\ UNCHANGED <<up, held, sent, last, next>>

(* A batch is announced: of every channel, some of the frames taken. *)
Announce ==
  /\ up
  /\ UNCHANGED <<up, last, next>>
  /\ \E n \in Counts(held) :
       /\ \A c \in Channels : n[c] <= taken[c]
       /\ sent' = [c \in Channels |-> sent[c] \o First(held, n)[c]]
       /\ held' = Rest(held, n)
       /\ taken' = [c \in Channels |-> taken[c] - n[c]]

(* The master reads what was announced, also after the session has ended. *)
Deliver ==
  /\ UNCHANGED <<up, held, taken, next>>
  /\ \E n \in Counts(sent) :
       /\ last' = [c \in Channels |-> IF n[c] = 0 THEN last[c] ELSE sent[c][n[c]]]
       /\ sent' = Rest(sent, n)

(* The session ends, in order or on an error, perhaps while it takes a      *)
(* frame: it loses what it has taken, and nothing that waits in an encoder. *)
Stop ==
  /\ up /\ up' = FALSE
  /\ \E n \in Takes \cup {taken} : held' = Rest(held, n)
  /\ taken' = [c \in Channels |-> 0]
  /\ UNCHANGED <<sent, last, next>>

(* A new session, which may fail to start.  The master forgets the last one. *)
Start ==
  /\ ~up /\ up' \in BOOLEAN
  /\ sent' = [c \in Channels |-> <<>>] /\ last' = [c \in Channels |-> None]
  /\ UNCHANGED <<held, taken, next>>

Next ==
  \/ \E c \in Channels : Produce(c)
  \/ Take \/ Announce \/ Deliver \/ Stop \/ Start

Spec == Init /\ [][Next]_vars

-----------------------------------------------------------------------------
(* The frames of s follow one another. *)
Consecutive(s) == \A k \in 1 .. Len(s) - 1 : s[k + 1] = Succ(s[k])

(* The frames of s follow frame f, if there is one. *)
Follows(f, s) == f # None /\ s # <<>> => s[1] = Succ(f)

(* While a session runs, what the master still has to read of a channel     *)
(* goes on where it stopped reading, without a gap or a repetition, up to   *)
(* the frame the encoder makes next; after its end the same is true of what *)
(* it announced and of what waits in the encoder, each by itself.           *)
InOrder ==
  \A c \in Channels :
    /\ Consecutive(sent[c]) /\ Follows(last[c], sent[c])
    /\ Consecutive(Append(held[c], next[c]))
    /\ up => /\ Consecutive(sent[c] \o Append(held[c], next[c]))
             /\ Follows(last[c], sent[c] \o Append(held[c], next[c]))
=============================================================================
