--------------------------- MODULE Dwc2UrbProofs ---------------------------
(***************************************************************************)
(* Proofs about Dwc2Urb for any number of channels, requests and packets,  *)
(* with timed waits that run out and with kills, by its owner between its  *)
(* calls, on one core (Disciplined); with more cores nothing may be killed *)
(* and no wait may run out.  Without that discipline a channel may be      *)
(* freed twice.  As in the properties, nothing is claimed once a           *)
(* completion has come after the wait for it had run out (past.stale).     *)
(*                                                                         *)
(* Good relates the three tables to the threads: a channel is lent to a    *)
(* thread about to attach it or belongs to the URB that points at it       *)
(* (Pointing, Reserved, Lent), what a thread at each place knows of its    *)
(* URB (Knows), whose completion a semaphore reports (Signals), and that   *)
(* the hardware runs what the pool says (Running), but where a kill met a  *)
(* transfer that had ended (r, for past.raced).  Its parts are operators   *)
(* of a state h, so the functions of the driver are dealt with one call at *)
(* a time.  Trail adds what a URB has gone through: it fits    *)
(* the stage its channel runs and the packets it has left (Fits).          *)
(***************************************************************************)
EXTENDS Dwc2Urb, TLAPS, WellFoundedInduction

Disciplined == (Impatient = {} /\ Killable = {}) \/ (OwnerKills /\ OneCore)

Stages == {"setup", "in", "out", "instatus", "outstatus", "none"}
Codes  == {"unset", "busy", "ok", "nak", "shutdown", "none"} \cup Events
Places == {"idle", "alloc", "attach", "start", "wait", "woken", "free",
           "expired", "check", "kill"}
Waits  == {"wait", "expired"}                      \* until urb->timeout = 0
Open   == {"idle", "wait", "expired", "check", "kill"}   \* while the channel runs
ChanRec == [inuse : BOOLEAN, urb : Urb \cup {None}, sem : 0 .. 1, stage : Stages, csplit : BOOLEAN]
UrbRec == [hcpriv : Chan \cup {None}, error : Codes, timed : BOOLEAN, left : Int, seen : Seq(Stages)]
HwRec  == [state : {"idle", "busy", "halted"}, urb : Urb \cup {None}, stage : Stages,
           event : Events \cup {"none"}]
HC == [ch : [Chan -> ChanRec], urb : [Urb -> UrbRec], hw : [Chan -> HwRec]]

\* A URB and a channel point at each other.
Pointing(h) == \A u \in Urb, c \in Chan : h.urb[u].hcpriv = c <=> h.ch[c].urb = u

\* A channel about to be attached is nobody else's.
Reserved(h, p, a) ==
    /\ \A u \in Urb : p[u] = "attach" => h.ch[a[u]].inuse /\ h.ch[a[u]].urb = None
    /\ \A u, v \in Urb : p[u] = "attach" /\ p[v] = "attach" /\ a[u] = a[v] => u = v

Lent(h, p, a) ==
    \A c \in Chan : h.ch[c].inuse <=>
        \/ h.ch[c].urb # None
        \/ \E u \in Urb : p[u] = "attach" /\ a[u] = c

\* A thread between its calls has a URB that is under way or has no channel.
Knows(b, l, c, u) ==
    /\ l \in {"alloc", "attach"} => b.hcpriv = None
    /\ l \in {"start", "wait", "expired", "woken", "free"} => b.hcpriv = c
    /\ l = "start" => b.error = "busy"
    /\ l \in {"wait", "woken", "free"} => u \in Sync
    /\ l \in {"woken", "free"} => b.error # "busy"
    /\ l \in {"expired", "check", "kill"} => u \in Impatient
    /\ l \in {"check", "kill"} => ~b.timed
    /\ l \in {"alloc", "attach", "start", "wait", "expired"} => (b.timed <=> u \in Sync)
    /\ l = "idle" /\ b.hcpriv # None => b.error = "busy" /\ ~b.timed /\ u \notin Sync

\* A semaphore that is signalled was signalled for the thread that waits.
Signals(h, p, a) ==
    \A c \in Chan : h.ch[c].sem = 1 =>
        \E u \in Urb : p[u] \in Waits /\ a[u] = c /\ h.urb[u].error # "busy"

\* A channel that runs, or has ended, belongs to a URB under way, but for
\* one that ended inside usbh_kill_urb.
Runs(h, p, c) ==
    /\ h.ch[c].urb \in Urb /\ h.hw[c].urb = h.ch[c].urb
    /\ h.urb[h.ch[c].urb].error = "busy" /\ p[h.ch[c].urb] \in Open
Killed(h, c, r) == h.hw[c].state = "halted" /\ h.ch[c].urb = None /\ OneCore /\ r
Running(h, p, r) ==
    \A c \in Chan : h.hw[c].state # "idle" => Runs(h, p, c) \/ Killed(h, c, r)

Good(h, p, a, r) ==
    /\ h \in HC /\ p \in [Urb -> Places] /\ a \in [Urb -> Chan]
    /\ Pointing(h) /\ Reserved(h, p, a) /\ Lent(h, p, a)
    /\ \A u \in Urb : Knows(h.urb[u], p[u], a[u], u)
    /\ Signals(h, p, a) /\ Running(h, p, r)

KillerKnows(k, p) == k # None => k \in Killable /\ OwnerKills /\ OneCore /\ p[k] = "idle"

UrbInv ==
    /\ Good(hc, pc, at, past.raced) /\ KillerKnows(killer, pc)
    /\ fault => past.raced

-----------------------------------------------------------------------------
(* What the functions of the driver do to the tables.                      *)

LEMMA Names == /\ None \notin Urb /\ None \notin Chan /\ "busy" \notin Events /\ "ok" \notin Events
               /\ Sync \subseteq Urb /\ Again \subseteq Urb \ Sync /\ Killable \subseteq Urb
               /\ Impatient \subseteq Sync
  BY UrbAssumption DEF UrbAssumption

\* g is h but for the stages, the lengths and the split states.
Alike(g, h) ==
    /\ g \in HC /\ g.hw = h.hw
    /\ \A d \in Chan : /\ g.ch[d].inuse = h.ch[d].inuse /\ g.ch[d].urb = h.ch[d].urb
                       /\ g.ch[d].sem = h.ch[d].sem
    /\ \A v \in Urb : /\ g.urb[v].hcpriv = h.urb[v].hcpriv /\ g.urb[v].error = h.urb[v].error
                      /\ g.urb[v].timed = h.urb[v].timed

LEMMA PointedFacts ==
    ASSUME NEW h \in HC, NEW u \in Urb, NEW x \in Chan \cup {None}
    PROVE  LET g == [h EXCEPT !.urb[u].hcpriv = x]
           IN  /\ g \in HC /\ g.hw = h.hw /\ g.ch = h.ch
               /\ \A v \in Urb \ {u} : g.urb[v] = h.urb[v]
               /\ g.urb[u].hcpriv = x /\ g.urb[u].error = h.urb[u].error
               /\ g.urb[u].timed = h.urb[u].timed
  BY DEF HC, UrbRec

LEMMA SeenFacts ==
    ASSUME NEW h \in HC, NEW u \in Urb, NEW x \in Seq(Stages)
    PROVE  LET g == [h EXCEPT !.urb[u].seen = x]
           IN  /\ g \in HC /\ g.hw = h.hw /\ g.ch = h.ch
               /\ \A v \in Urb \ {u} : g.urb[v] = h.urb[v]
               /\ g.urb[u].hcpriv = h.urb[u].hcpriv /\ g.urb[u].error = h.urb[u].error
               /\ g.urb[u].timed = h.urb[u].timed
  BY DEF HC, UrbRec

LEMMA CodedFacts ==
    ASSUME NEW h \in HC, NEW u \in Urb, NEW code \in Codes
    PROVE  LET g == [h EXCEPT !.urb[u].error = code]
           IN  /\ g \in HC /\ g.hw = h.hw /\ g.ch = h.ch
               /\ \A v \in Urb \ {u} : g.urb[v] = h.urb[v]
               /\ g.urb[u].hcpriv = h.urb[u].hcpriv /\ g.urb[u].error = code
               /\ g.urb[u].timed = h.urb[u].timed
  BY DEF HC, UrbRec

LEMMA FreeFacts ==
    ASSUME NEW h \in HC, NEW c \in Chan
    PROVE  LET g == Free(h, c)
           IN  /\ g \in HC /\ g.hw = h.hw
               /\ g.ch[c].urb = None /\ ~g.ch[c].inuse /\ g.ch[c].sem = h.ch[c].sem
               /\ \A d \in Chan \ {c} : g.ch[d] = h.ch[d]
               /\ \A v \in Urb \ {h.ch[c].urb} : g.urb[v] = h.urb[v]
               /\ h.ch[c].urb # None =>
                    /\ g.urb[h.ch[c].urb].hcpriv = None
                    /\ g.urb[h.ch[c].urb].error = h.urb[h.ch[c].urb].error
                    /\ g.urb[h.ch[c].urb].timed = h.urb[h.ch[c].urb].timed
<1> DEFINE u == h.ch[c].urb
           f == [h EXCEPT !.ch[c].urb = None, !.ch[c].inuse = FALSE]
<1>1. u \in Urb \cup {None}
  BY DEF HC, ChanRec
<1>2. /\ f \in HC /\ f.hw = h.hw /\ f.urb = h.urb
      /\ f.ch[c].urb = None /\ ~f.ch[c].inuse /\ f.ch[c].sem = h.ch[c].sem
      /\ \A d \in Chan \ {c} : f.ch[d] = h.ch[d]
  <2> DEFINE r == [h.ch[c] EXCEPT !.urb = None, !.inuse = FALSE]
  <2>1. h.ch[c] \in ChanRec /\ h.ch \in [Chan -> ChanRec]
    BY DEF HC
  <2>2. r \in ChanRec /\ r.urb = None /\ ~r.inuse /\ r.sem = h.ch[c].sem
    BY <2>1 DEF ChanRec
  <2>3. f = [h EXCEPT !.ch = [h.ch EXCEPT ![c] = r]]
    BY <2>1 DEF HC, ChanRec
  <2> HIDE DEF r, f
  <2>4. f.ch = [h.ch EXCEPT ![c] = r] /\ f.hw = h.hw /\ f.urb = h.urb
    BY <2>3 DEF HC
  <2>5. f \in HC
    BY <2>1, <2>2, <2>3 DEF HC
  <2> QED
    BY <2>1, <2>2, <2>4, <2>5
<1>3. Free(h, c) = IF u = None THEN f ELSE [f EXCEPT !.urb[u].hcpriv = None]
  BY DEF Free
<1>4. CASE u = None
  BY <1>2, <1>3, <1>4
<1>5. CASE u \in Urb /\ u # None
  <2> DEFINE g == [f EXCEPT !.urb[u].hcpriv = None]
  <2> HIDE DEF f, u
  <2>1. /\ g \in HC /\ g.hw = f.hw /\ g.ch = f.ch
        /\ \A v \in Urb \ {u} : g.urb[v] = f.urb[v]
        /\ g.urb[u].hcpriv = None /\ g.urb[u].error = f.urb[u].error
        /\ g.urb[u].timed = f.urb[u].timed
    BY <1>2, <1>5, PointedFacts
  <2>2. Free(h, c) = g
    BY <1>3, <1>5
  <2> HIDE DEF g
  <2> USE <1>2, <2>1, <2>2
  <2> QED
    BY DEF u
<1> QED
  BY <1>1, <1>4, <1>5

LEMMA TakenFacts ==
    ASSUME NEW h \in HC, NEW c \in Chan
    PROVE  LET g == Taken(h, c)
           IN  /\ g \in HC /\ g.hw = h.hw /\ g.urb = h.urb
               /\ g.ch[c].urb = h.ch[c].urb /\ g.ch[c].inuse /\ g.ch[c].sem = h.ch[c].sem
               /\ \A d \in Chan \ {c} : g.ch[d] = h.ch[d]
<1> DEFINE e == [h EXCEPT !.ch[c].inuse = TRUE]
           g == [e EXCEPT !.ch[c].csplit = FALSE]
<1>1. /\ e \in HC /\ e.hw = h.hw /\ e.urb = h.urb
      /\ e.ch[c].urb = h.ch[c].urb /\ e.ch[c].inuse = TRUE /\ e.ch[c].sem = h.ch[c].sem
      /\ \A d \in Chan \ {c} : e.ch[d] = h.ch[d]
  BY DEF HC, ChanRec
<1>2. Taken(h, c) = g
  BY DEF Taken
<1> HIDE DEF e
<1>3. /\ g \in HC /\ g.hw = e.hw /\ g.urb = e.urb
      /\ g.ch[c].urb = e.ch[c].urb /\ g.ch[c].inuse = TRUE /\ g.ch[c].sem = e.ch[c].sem
      /\ \A d \in Chan \ {c} : g.ch[d] = e.ch[d]
  BY <1>1, ZenonT(30) DEF HC, ChanRec
<1> HIDE DEF g
<1> QED
  BY <1>1, <1>2, <1>3

LEMMA AttachedFacts ==
    ASSUME NEW h \in HC, NEW u \in Urb, NEW c \in Chan
    PROVE  LET g == Attached(h, u, c)
           IN  /\ g \in HC /\ g.hw = h.hw
               /\ g.ch[c].urb = u /\ g.ch[c].inuse = h.ch[c].inuse /\ g.ch[c].sem = h.ch[c].sem
               /\ \A d \in Chan \ {c} : g.ch[d] = h.ch[d]
               /\ \A v \in Urb \ {u} : g.urb[v] = h.urb[v]
               /\ g.urb[u].hcpriv = c /\ g.urb[u].error = "busy"
               /\ g.urb[u].timed = h.urb[u].timed
<1> DEFINE e == [h EXCEPT !.ch[c].urb = u]
           f == [e EXCEPT !.urb[u].hcpriv = c]
           k == [f EXCEPT !.urb[u].error = "busy"]
           g == [k EXCEPT !.urb[u].seen = <<>>]
<1>1. <<>> \in Seq(Stages) /\ "busy" \in Codes
  BY DEF Codes
<1>2. /\ e \in HC /\ e.hw = h.hw /\ e.urb = h.urb
      /\ e.ch[c].urb = u /\ e.ch[c].inuse = h.ch[c].inuse /\ e.ch[c].sem = h.ch[c].sem
      /\ \A d \in Chan \ {c} : e.ch[d] = h.ch[d]
  BY DEF HC, ChanRec
<1>3. Attached(h, u, c) = g
  BY DEF Attached
<1> HIDE DEF e
<1>4. /\ f \in HC /\ f.hw = e.hw /\ f.ch = e.ch
      /\ \A v \in Urb \ {u} : f.urb[v] = e.urb[v]
      /\ f.urb[u].hcpriv = c /\ f.urb[u].timed = e.urb[u].timed
  BY <1>2, PointedFacts
<1> HIDE DEF f
<1>5. /\ k \in HC /\ k.hw = f.hw /\ k.ch = f.ch
      /\ \A v \in Urb \ {u} : k.urb[v] = f.urb[v]
      /\ k.urb[u].hcpriv = c /\ k.urb[u].error = "busy" /\ k.urb[u].timed = f.urb[u].timed
  BY <1>1, <1>4, CodedFacts
<1> HIDE DEF k
<1>6. /\ g \in HC /\ g.hw = k.hw /\ g.ch = k.ch
      /\ \A v \in Urb \ {u} : g.urb[v] = k.urb[v]
      /\ g.urb[u].hcpriv = c /\ g.urb[u].error = "busy" /\ g.urb[u].timed = k.urb[u].timed
  BY <1>1, <1>5, SeenFacts, ZenonT(30)
<1> HIDE DEF g
<1> QED
  BY <1>2, <1>3, <1>4, <1>5, <1>6

LEMMA RunFacts ==
    ASSUME NEW h \in HC, NEW u \in Urb, NEW c \in Chan, NEW s \in Stages
    PROVE  LET g == Run(h, u, c, s)
           IN  /\ g \in HC /\ g.urb = h.urb
               /\ \A d \in Chan : /\ g.ch[d].inuse = h.ch[d].inuse /\ g.ch[d].urb = h.ch[d].urb
                                  /\ g.ch[d].sem = h.ch[d].sem
               /\ g.hw[c].state = "busy" /\ g.hw[c].urb = u
               /\ \A d \in Chan \ {c} : g.hw[d] = h.hw[d]
<1> DEFINE e == [h EXCEPT !.ch[c].stage = s]
           g == [e EXCEPT !.hw[c] = [state |-> "busy", urb |-> u, stage |-> s, event |-> "none"]]
<1>1. /\ e \in HC /\ e.urb = h.urb /\ e.hw = h.hw
      /\ \A d \in Chan : /\ e.ch[d].inuse = h.ch[d].inuse /\ e.ch[d].urb = h.ch[d].urb
                         /\ e.ch[d].sem = h.ch[d].sem
  BY ZenonT(30) DEF HC, ChanRec
<1>2. Run(h, u, c, s) = g
  BY DEF Run
<1> HIDE DEF e
<1>3. [state |-> "busy", urb |-> u, stage |-> s, event |-> "none"] \in HwRec
  BY DEF HwRec
<1>4. /\ g \in HC /\ g.urb = e.urb /\ g.ch = e.ch
      /\ g.hw[c].state = "busy" /\ g.hw[c].urb = u
      /\ \A d \in Chan \ {c} : g.hw[d] = e.hw[d]
  BY <1>1, <1>3 DEF HC
<1> HIDE DEF g
<1> QED
  BY <1>1, <1>2, <1>4

LEMMA SemFacts ==
    ASSUME NEW h \in HC, NEW c \in Chan, NEW n \in 0 .. 1
    PROVE  LET g == [h EXCEPT !.ch[c].sem = n]
           IN  /\ g \in HC /\ g.hw = h.hw /\ g.urb = h.urb
               /\ g.ch[c].urb = h.ch[c].urb /\ g.ch[c].inuse = h.ch[c].inuse /\ g.ch[c].sem = n
               /\ \A d \in Chan \ {c} : g.ch[d] = h.ch[d]
  BY DEF HC, ChanRec

LEMMA LeftFacts ==
    ASSUME NEW h \in HC, NEW u \in Urb, NEW n \in Int
    PROVE  LET g == [h EXCEPT !.urb[u].left = n]
           IN  /\ g \in HC /\ g.hw = h.hw /\ g.ch = h.ch
               /\ \A v \in Urb \ {u} : g.urb[v] = h.urb[v]
               /\ g.urb[u].hcpriv = h.urb[u].hcpriv /\ g.urb[u].error = h.urb[u].error
  BY DEF HC, UrbRec

LEMMA OffFacts ==
    ASSUME NEW h \in HC, NEW c \in Chan
    PROVE  LET g == [h EXCEPT !.hw[c] = Off]
           IN  /\ g \in HC /\ g.ch = h.ch /\ g.urb = h.urb
               /\ g.hw[c].state = "idle"
               /\ \A d \in Chan \ {c} : g.hw[d] = h.hw[d]
  BY DEF HC, HwRec, Off, Stages

-----------------------------------------------------------------------------
(* What each of them keeps.                                                *)

LEMMA AlikeGood ==
    ASSUME NEW h, NEW g, NEW p, NEW a, NEW r, Good(h, p, a, r), Alike(g, h)
    PROVE  Good(g, p, a, r)
<1>1. /\ g \in HC /\ p \in [Urb -> Places] /\ a \in [Urb -> Chan]
      /\ Pointing(g) /\ Reserved(g, p, a) /\ Lent(g, p, a)
  BY DEF Good, Alike, Pointing, Reserved, Lent
<1>2. ASSUME NEW u \in Urb PROVE Knows(g.urb[u], p[u], a[u], u)
  BY DEF Good, Alike, Knows
<1>3. Signals(g, p, a)
  BY DEF Good, Alike, Signals
<1>4. Running(g, p, r)
  BY DEF Good, Alike, Running, Runs, Open, Killed
<1> QED
  BY <1>1, <1>2, <1>3, <1>4 DEF Good

\* A channel is programmed for the URB that has it.
LEMMA RunGood ==
    ASSUME NEW h, NEW p, NEW a, NEW r, Good(h, p, a, r), NEW u \in Urb, NEW c \in Chan, NEW s \in Stages,
           h.ch[c].urb = u, h.urb[u].error = "busy", p[u] \in Open
    PROVE  Good(Run(h, u, c, s), p, a, r)
<1> DEFINE g == Run(h, u, c, s)
<1>1. /\ g \in HC /\ g.urb = h.urb
      /\ \A d \in Chan : /\ g.ch[d].inuse = h.ch[d].inuse /\ g.ch[d].urb = h.ch[d].urb
                         /\ g.ch[d].sem = h.ch[d].sem
      /\ g.hw[c].urb = u
      /\ \A d \in Chan \ {c} : g.hw[d] = h.hw[d]
  BY RunFacts DEF Good
<1> HIDE DEF g
<1>2. /\ p \in [Urb -> Places] /\ a \in [Urb -> Chan]
      /\ Pointing(g) /\ Reserved(g, p, a) /\ Lent(g, p, a)
  BY <1>1 DEF Good, Pointing, Reserved, Lent
<1>3. ASSUME NEW v \in Urb PROVE Knows(g.urb[v], p[v], a[v], v)
  BY <1>1 DEF Good
<1>4. Signals(g, p, a)
  BY <1>1 DEF Good, Signals
<1>5. Running(g, p, r)
  BY <1>1 DEF Good, Running, Runs, Open, Killed
<1>6. Good(g, p, a, r)
  BY <1>1, <1>2, <1>3, <1>4, <1>5 DEF Good
<1> QED
  BY <1>6 DEF g

\* A channel's interrupt is acknowledged, or the channel is halted.
LEMMA OffGood ==
    ASSUME NEW h, NEW p, NEW a, NEW r, Good(h, p, a, r), NEW c \in Chan
    PROVE  Good([h EXCEPT !.hw[c] = Off], p, a, r)
<1> DEFINE g == [h EXCEPT !.hw[c] = Off]
<1>1. /\ g \in HC /\ g.ch = h.ch /\ g.urb = h.urb /\ g.hw[c].state = "idle"
      /\ \A d \in Chan \ {c} : g.hw[d] = h.hw[d]
  BY OffFacts DEF Good
<1> HIDE DEF g
<1>2. /\ p \in [Urb -> Places] /\ a \in [Urb -> Chan]
      /\ Pointing(g) /\ Reserved(g, p, a) /\ Lent(g, p, a)
  BY <1>1 DEF Good, Pointing, Reserved, Lent
<1>3. ASSUME NEW v \in Urb PROVE Knows(g.urb[v], p[v], a[v], v)
  BY <1>1 DEF Good
<1>4. Signals(g, p, a) /\ Running(g, p, r)
  BY <1>1 DEF Good, Signals, Running, Runs, Open, Killed
<1>5. Good(g, p, a, r)
  BY <1>1, <1>2, <1>3, <1>4 DEF Good
<1> QED
  BY <1>5 DEF g

\* The thread that waits is told the code of its URB.
LEMMA SignalledGood ==
    ASSUME NEW h, NEW p, NEW a, NEW r, Good(h, p, a, r), NEW u \in Urb, NEW c \in Chan, NEW code \in Codes,
           code # "busy", p[u] \in Waits, a[u] = c, h.hw[c].state = "idle"
    PROVE  Good([[h EXCEPT !.urb[u].error = code] EXCEPT !.ch[c].sem = 1], p, a, r)
<1> DEFINE e == [h EXCEPT !.urb[u].error = code]
           g == [e EXCEPT !.ch[c].sem = 1]
<1>1. /\ e \in HC /\ e.hw = h.hw /\ e.ch = h.ch
      /\ \A v \in Urb \ {u} : e.urb[v] = h.urb[v]
      /\ e.urb[u].hcpriv = h.urb[u].hcpriv /\ e.urb[u].error = code
      /\ e.urb[u].timed = h.urb[u].timed
  BY CodedFacts DEF Good
<1> HIDE DEF e
<1>2. /\ g \in HC /\ g.hw = e.hw /\ g.urb = e.urb
      /\ g.ch[c].urb = e.ch[c].urb /\ g.ch[c].inuse = e.ch[c].inuse /\ g.ch[c].sem = 1
      /\ \A d \in Chan \ {c} : g.ch[d] = e.ch[d]
  <2>1. 1 \in 0 .. 1
    OBVIOUS
  <2> QED
    BY <1>1, <2>1, SemFacts, ZenonT(30)
<1> HIDE DEF g
<1>3. /\ p \in [Urb -> Places] /\ a \in [Urb -> Chan]
      /\ \A v \in Urb : g.urb[v].hcpriv = h.urb[v].hcpriv /\ g.urb[v].timed = h.urb[v].timed
      /\ \A v \in Urb \ {u} : g.urb[v].error = h.urb[v].error
      /\ \A d \in Chan : g.ch[d].urb = h.ch[d].urb /\ g.ch[d].inuse = h.ch[d].inuse
  BY <1>1, <1>2 DEF Good
<1>4. Pointing(g) /\ Reserved(g, p, a) /\ Lent(g, p, a)
  BY <1>3 DEF Good, Pointing, Reserved, Lent
<1>5. ASSUME NEW v \in Urb PROVE Knows(g.urb[v], p[v], a[v], v)
  <2>1. Knows(h.urb[v], p[v], a[v], v)
    BY DEF Good
  <2> QED
    BY <1>3, <2>1 DEF Knows, Waits
<1>6. Signals(g, p, a)
  <2> SUFFICES ASSUME NEW d \in Chan, g.ch[d].sem = 1
               PROVE  \E v \in Urb : p[v] \in Waits /\ a[v] = d /\ g.urb[v].error # "busy"
    BY DEF Signals
  <2>1. g.urb[u].error # "busy"
    BY <1>1, <1>2
  <2>2. CASE d = c
    BY <2>1, <2>2
  <2>3. CASE d # c
    <3>1. h.ch[d].sem = 1
      BY <1>1, <1>2, <2>3
    <3>2. PICK v \in Urb : p[v] \in Waits /\ a[v] = d /\ h.urb[v].error # "busy"
      BY <3>1 DEF Good, Signals
    <3> QED
      BY <1>3, <2>3, <3>2
  <2> QED
    BY <2>2, <2>3
<1>7. h.ch[c].urb = u
  BY DEF Good, Knows, Pointing, Waits
<1>8. Running(g, p, r)
  <2> SUFFICES ASSUME NEW d \in Chan, g.hw[d].state # "idle"
               PROVE  Runs(g, p, d) \/ Killed(g, d, r)
    BY DEF Running
  <2>1. d # c /\ g.hw = h.hw
    BY <1>1, <1>2
  <2>2. Runs(h, p, d) \/ Killed(h, d, r)
    BY <2>1 DEF Good, Running
  <2>3. h.ch[d].urb = u => d = c
    BY <1>7 DEF Good, Pointing
  <2> QED
    BY <1>3, <2>1, <2>2, <2>3 DEF Runs, Open, Killed
<1>9. Good(g, p, a, r)
  BY <1>2, <1>3, <1>4, <1>5, <1>6, <1>8 DEF Good
<1> QED
  BY <1>9 DEF g, e

\* q is p, and b is a, but for u.
Moves(p, q, u, l) == q \in [Urb -> Places] /\ q[u] = l /\ \A v \in Urb \ {u} : q[v] = p[v]
Aims(a, b, u, c) == b \in [Urb -> Chan] /\ b[u] = c /\ \A v \in Urb \ {u} : b[v] = a[v]

\* A channel is given back, by its URB's thread or when the URB is over.
LEMMA FreedGood ==
    ASSUME NEW h, NEW p, NEW a, NEW r, Good(h, p, a, r), NEW u \in Urb, NEW c \in Chan, h.ch[c].urb = u,
           NEW e \in HC, e.ch = h.ch, e.hw = h.hw, \A v \in Urb \ {u} : e.urb[v] = h.urb[v],
           e.urb[u].hcpriv = h.urb[u].hcpriv,
           NEW q, NEW l, Moves(p, q, u, l),
           \/ l = "idle" /\ p[u] \in {"idle", "free", "kill"}
           \/ l = p[u] /\ l \in {"check", "kill"} /\ e.urb[u].timed = h.urb[u].timed,
           h.hw[c].state = "idle" \/ (h.hw[c].state = "halted" /\ OneCore /\ r)
    PROVE  Good(Free(e, c), q, a, r)
<1> DEFINE g == Free(e, c)
<1>1. /\ g \in HC /\ g.hw = h.hw
      /\ g.ch[c].urb = None /\ ~g.ch[c].inuse /\ g.ch[c].sem = h.ch[c].sem
      /\ \A d \in Chan \ {c} : g.ch[d] = h.ch[d]
      /\ \A v \in Urb \ {u} : g.urb[v] = h.urb[v]
      /\ g.urb[u].hcpriv = None /\ g.urb[u].timed = e.urb[u].timed
  BY FreeFacts, Names
<1> HIDE DEF g
<1>2. h.urb[u].hcpriv = c /\ p \in [Urb -> Places] /\ a \in [Urb -> Chan]
  BY DEF Good, Pointing
<1>3. q \in [Urb -> Places] /\ q[u] = l /\ l \in Open \ Waits /\ \A v \in Urb \ {u} : q[v] = p[v]
  BY DEF Moves, Open, Waits
<1>4. Pointing(g)
  BY <1>1, <1>2, Names DEF Good, Pointing
<1>5. \A v \in Urb : p[v] = "attach" => a[v] # c
  BY Names DEF Good, Reserved
<1>6. Reserved(g, q, a)
  BY <1>1, <1>2, <1>3, <1>5 DEF Good, Reserved, Open
<1>7. Lent(g, q, a)
  <2>1. \A v \in Urb : q[v] = "attach" => v # u
    BY <1>3 DEF Open
  <2>2. p[u] # "attach"
    OBVIOUS
  <2>3. \A d \in Chan : (\E v \in Urb : q[v] = "attach" /\ a[v] = d)
                         <=> \E v \in Urb : p[v] = "attach" /\ a[v] = d
    BY <1>3, <2>1, <2>2
  <2> QED
    BY <1>1, <1>5, <2>3 DEF Good, Lent
<1>8. ASSUME NEW v \in Urb PROVE Knows(g.urb[v], q[v], a[v], v)
  <2>1. CASE v = u
    <3>1. Knows(h.urb[u], p[u], a[u], u)
      BY DEF Good
    <3> QED
      BY <1>1, <1>3, <2>1, <3>1 DEF Knows, Open, Waits
  <2>2. CASE v # u
    BY <1>1, <1>3, <2>2 DEF Good
  <2> QED
    BY <2>1, <2>2
<1>9. Signals(g, q, a)
  <2> SUFFICES ASSUME NEW d \in Chan, g.ch[d].sem = 1
               PROVE  \E v \in Urb : q[v] \in Waits /\ a[v] = d /\ g.urb[v].error # "busy"
    BY DEF Signals
  <2>1. h.ch[d].sem = 1
    BY <1>1
  <2>2. PICK v \in Urb : p[v] \in Waits /\ a[v] = d /\ h.urb[v].error # "busy"
    BY <2>1 DEF Good, Signals
  <2>3. v # u
    BY <2>2 DEF Waits
  <2> QED
    BY <1>1, <1>3, <2>2, <2>3
<1>10. Running(g, q, r)
  <2> SUFFICES ASSUME NEW d \in Chan, g.hw[d].state # "idle"
               PROVE  Runs(g, q, d) \/ Killed(g, d, r)
    BY DEF Running
  <2>1. CASE d = c
    BY <1>1, <2>1 DEF Killed
  <2>2. CASE d # c
    <3>1. Runs(h, p, d) \/ Killed(h, d, r)
      BY <1>1 DEF Good, Running
    <3>2. h.ch[d].urb # u
      BY <1>2, <2>2 DEF Good, Pointing
    <3> QED
      BY <1>1, <1>3, <2>2, <3>1, <3>2 DEF Runs, Open, Killed
  <2> QED
    BY <2>1, <2>2
<1>11. Good(g, q, a, r)
  BY <1>1, <1>2, <1>3, <1>4, <1>6, <1>7, <1>8, <1>9, <1>10 DEF Good
<1> QED
  BY <1>11 DEF g

\* A channel is lent to a thread.
LEMMA TakenGood ==
    ASSUME NEW h, NEW p, NEW a, NEW r, Good(h, p, a, r), NEW u \in Urb, NEW c \in Chan, ~h.ch[c].inuse,
           h.urb[u].hcpriv = None, h.urb[u].timed <=> u \in Sync, p[u] \in {"idle", "alloc"},
           NEW q, Moves(p, q, u, "attach"), NEW b, Aims(a, b, u, c)
    PROVE  Good(Taken(h, c), q, b, r)
<1> DEFINE g == Taken(h, c)
<1>1. /\ g \in HC /\ g.hw = h.hw /\ g.urb = h.urb
      /\ g.ch[c].urb = h.ch[c].urb /\ g.ch[c].inuse /\ g.ch[c].sem = h.ch[c].sem
      /\ \A d \in Chan \ {c} : g.ch[d] = h.ch[d]
  BY TakenFacts DEF Good
<1> HIDE DEF g
<1>2. h.ch[c].urb = None /\ \A v \in Urb : p[v] = "attach" => a[v] # c
  BY DEF Good, Lent
<1>3. q \in [Urb -> Places] /\ q[u] = "attach" /\ \A v \in Urb \ {u} : q[v] = p[v]
  BY DEF Moves
<1>4. b \in [Urb -> Chan] /\ b[u] = c /\ \A v \in Urb \ {u} : b[v] = a[v]
  BY DEF Aims
<1>5. Pointing(g)
  BY <1>1 DEF Good, Pointing
<1>6. Reserved(g, q, b)
  BY <1>1, <1>2, <1>3, <1>4 DEF Good, Reserved
<1>7. Lent(g, q, b)
  <2> SUFFICES ASSUME NEW d \in Chan
               PROVE  g.ch[d].inuse <=> g.ch[d].urb # None
                                        \/ \E v \in Urb : q[v] = "attach" /\ b[v] = d
    BY DEF Lent
  <2>1. CASE d = c
    BY <1>1, <1>3, <1>4, <2>1
  <2>2. CASE d # c
    <3>1. (\E v \in Urb : q[v] = "attach" /\ b[v] = d) <=> \E v \in Urb : p[v] = "attach" /\ a[v] = d
      BY <1>3, <1>4, <2>2
    <3> QED
      BY <1>1, <2>2, <3>1 DEF Good, Lent
  <2> QED
    BY <2>1, <2>2
<1>8. ASSUME NEW v \in Urb PROVE Knows(g.urb[v], q[v], b[v], v)
  <2>1. CASE v = u
    BY <1>1, <1>3, <2>1 DEF Knows
  <2>2. CASE v # u
    BY <1>1, <1>3, <1>4, <2>2 DEF Good
  <2> QED
    BY <2>1, <2>2
<1>9. Signals(g, q, b)
  <2> SUFFICES ASSUME NEW d \in Chan, g.ch[d].sem = 1
               PROVE  \E v \in Urb : q[v] \in Waits /\ b[v] = d /\ g.urb[v].error # "busy"
    BY DEF Signals
  <2>1. PICK v \in Urb : p[v] \in Waits /\ a[v] = d /\ h.urb[v].error # "busy"
    BY <1>1 DEF Good, Signals
  <2> QED
    BY <1>1, <1>3, <1>4, <2>1 DEF Waits
<1>10. Running(g, q, r)
  <2> SUFFICES ASSUME NEW d \in Chan, g.hw[d].state # "idle"
               PROVE  Runs(g, q, d) \/ Killed(g, d, r)
    BY DEF Running
  <2>1. Runs(h, p, d) \/ Killed(h, d, r)
    BY <1>1 DEF Good, Running
  <2>2. h.ch[d].urb # u /\ g.ch[d].urb = h.ch[d].urb
    BY <1>1, Names DEF Good, Pointing
  <2> QED
    BY <1>1, <1>3, <2>1, <2>2 DEF Runs, Open, Killed
<1>11. Good(g, q, b, r)
  BY <1>1, <1>3, <1>4, <1>5, <1>6, <1>7, <1>8, <1>9, <1>10 DEF Good
<1> QED
  BY <1>11 DEF g

\* What attaching leaves, whatever the hardware does.
LEMMA AttachedTables ==
    ASSUME NEW h, NEW p, NEW a, NEW r, Good(h, p, a, r), NEW u \in Urb, NEW c \in Chan,
           p[u] = "attach", a[u] = c,
           NEW g \in HC, g.ch[c].urb = u, g.ch[c].inuse = h.ch[c].inuse, g.ch[c].sem = h.ch[c].sem,
           \A d \in Chan \ {c} : /\ g.ch[d].urb = h.ch[d].urb /\ g.ch[d].inuse = h.ch[d].inuse
                                 /\ g.ch[d].sem = h.ch[d].sem,
           \A v \in Urb \ {u} : g.urb[v] = h.urb[v],
           g.urb[u].hcpriv = c, g.urb[u].error = "busy", g.urb[u].timed = h.urb[u].timed,
           NEW q, NEW l, Moves(p, q, u, l), l = "start" \/ (l = "idle" /\ u \notin Sync)
    PROVE  /\ q \in [Urb -> Places] /\ Pointing(g) /\ Reserved(g, q, a) /\ Lent(g, q, a)
           /\ \A v \in Urb : Knows(g.urb[v], q[v], a[v], v)
           /\ Signals(g, q, a)
           /\ h.urb[u].hcpriv = None /\ h.ch[c].urb = None
<1>1. /\ h.urb[u].hcpriv = None /\ h.ch[c].urb = None /\ h.ch[c].inuse
      /\ h.urb[u].timed <=> u \in Sync
  BY DEF Good, Knows, Reserved
<1>2. q \in [Urb -> Places] /\ q[u] = l /\ \A v \in Urb \ {u} : q[v] = p[v]
  BY DEF Moves
<1>3. \A v \in Urb \ {u} : p[v] = "attach" => a[v] # c
  BY DEF Good, Reserved
<1>4. Pointing(g)
  <2> SUFFICES ASSUME NEW v \in Urb, NEW d \in Chan
               PROVE  g.urb[v].hcpriv = d <=> g.ch[d].urb = v
    BY DEF Pointing
  <2>1. h.urb[v].hcpriv = d <=> h.ch[d].urb = v
    BY DEF Good, Pointing
  <2> QED
    BY <1>1, <2>1, Names
<1>5. Reserved(g, q, a)
  BY <1>2, <1>3, Names DEF Good, Reserved
<1>6. Lent(g, q, a)
  <2> SUFFICES ASSUME NEW d \in Chan
               PROVE  g.ch[d].inuse <=> g.ch[d].urb # None
                                        \/ \E v \in Urb : q[v] = "attach" /\ a[v] = d
    BY DEF Lent
  <2>1. CASE d = c
    BY <1>1, <2>1, Names
  <2>2. CASE d # c
    <3>1. (\E v \in Urb : q[v] = "attach" /\ a[v] = d) <=> \E v \in Urb : p[v] = "attach" /\ a[v] = d
      BY <1>2, <2>2
    <3> QED
      BY <2>2, <3>1 DEF Good, Lent
  <2> QED
    BY <2>1, <2>2
<1>7. ASSUME NEW v \in Urb PROVE Knows(g.urb[v], q[v], a[v], v)
  <2>1. CASE v = u
    BY <1>1, <1>2, <2>1 DEF Knows
  <2>2. CASE v # u
    BY <1>2, <2>2 DEF Good
  <2> QED
    BY <2>1, <2>2
<1>8. Signals(g, q, a)
  <2> SUFFICES ASSUME NEW d \in Chan, g.ch[d].sem = 1
               PROVE  \E v \in Urb : q[v] \in Waits /\ a[v] = d /\ g.urb[v].error # "busy"
    BY DEF Signals
  <2>1. h.ch[d].sem = 1
    OBVIOUS
  <2>2. PICK v \in Urb : p[v] \in Waits /\ a[v] = d /\ h.urb[v].error # "busy"
    BY <2>1 DEF Good, Signals
  <2> QED
    BY <1>2, <2>2 DEF Waits
<1> QED
  BY <1>1, <1>2, <1>4, <1>5, <1>6, <1>7, <1>8

\* The second critical section of a submission.
LEMMA AttachedGood ==
    ASSUME NEW h, NEW p, NEW a, NEW r, Good(h, p, a, r), NEW u \in Urb, NEW c \in Chan,
           p[u] = "attach", a[u] = c, h.hw[c].state = "idle", NEW q, Moves(p, q, u, "start")
    PROVE  Good(Attached(h, u, c), q, a, r)
<1> DEFINE g == Attached(h, u, c)
<1>1. /\ g \in HC /\ g.hw = h.hw
      /\ g.ch[c].urb = u /\ g.ch[c].inuse = h.ch[c].inuse /\ g.ch[c].sem = h.ch[c].sem
      /\ \A d \in Chan \ {c} : g.ch[d] = h.ch[d]
      /\ \A v \in Urb \ {u} : g.urb[v] = h.urb[v]
      /\ g.urb[u].hcpriv = c /\ g.urb[u].error = "busy"
      /\ g.urb[u].timed = h.urb[u].timed
  BY AttachedFacts DEF Good
<1> HIDE DEF g
<1>2. /\ q \in [Urb -> Places] /\ Pointing(g) /\ Reserved(g, q, a) /\ Lent(g, q, a)
      /\ \A v \in Urb : Knows(g.urb[v], q[v], a[v], v)
      /\ Signals(g, q, a)
      /\ h.urb[u].hcpriv = None /\ h.ch[c].urb = None
  BY <1>1, AttachedTables
<1>3. Running(g, q, r)
  <2> SUFFICES ASSUME NEW d \in Chan, g.hw[d].state # "idle"
               PROVE  Runs(g, q, d) \/ Killed(g, d, r)
    BY DEF Running
  <2>1. d # c /\ (Runs(h, p, d) \/ Killed(h, d, r))
    BY <1>1 DEF Good, Running
  <2>2. h.ch[d].urb # u
    BY <1>2, Names DEF Good, Pointing
  <2> QED
    BY <1>1, <2>1, <2>2 DEF Runs, Open, Killed, Moves
<1>4. Good(g, q, a, r)
  BY <1>1, <1>2, <1>3 DEF Good
<1> QED
  BY <1>4 DEF g

\* A callback attaches and starts in one step, whatever the channel had
\* pending.
LEMMA StartedGood ==
    ASSUME NEW h, NEW p, NEW a, NEW r, Good(h, p, a, r), NEW u \in Urb \ Sync, NEW c \in Chan, NEW s \in Stages,
           p[u] = "attach", a[u] = c, NEW q, Moves(p, q, u, "idle")
    PROVE  Good(Run(Attached(h, u, c), u, c, s), q, a, r)
<1> DEFINE e == Attached(h, u, c)
           g == Run(e, u, c, s)
<1>1. /\ e \in HC /\ e.hw = h.hw
      /\ e.ch[c].urb = u /\ e.ch[c].inuse = h.ch[c].inuse /\ e.ch[c].sem = h.ch[c].sem
      /\ \A d \in Chan \ {c} : e.ch[d] = h.ch[d]
      /\ \A v \in Urb \ {u} : e.urb[v] = h.urb[v]
      /\ e.urb[u].hcpriv = c /\ e.urb[u].error = "busy"
      /\ e.urb[u].timed = h.urb[u].timed
  BY AttachedFacts DEF Good
<1> HIDE DEF e
<1>2. /\ g \in HC /\ g.urb = e.urb
      /\ \A d \in Chan : /\ g.ch[d].inuse = e.ch[d].inuse /\ g.ch[d].urb = e.ch[d].urb
                         /\ g.ch[d].sem = e.ch[d].sem
      /\ g.hw[c].urb = u
      /\ \A d \in Chan \ {c} : g.hw[d] = e.hw[d]
  BY <1>1, RunFacts
<1> HIDE DEF g
<1>3. /\ g.ch[c].urb = u /\ g.ch[c].inuse = h.ch[c].inuse /\ g.ch[c].sem = h.ch[c].sem
      /\ \A d \in Chan \ {c} : /\ g.ch[d].urb = h.ch[d].urb /\ g.ch[d].inuse = h.ch[d].inuse
                               /\ g.ch[d].sem = h.ch[d].sem
      /\ \A v \in Urb \ {u} : g.urb[v] = h.urb[v]
      /\ g.urb[u].hcpriv = c /\ g.urb[u].error = "busy" /\ g.urb[u].timed = h.urb[u].timed
  BY <1>1, <1>2
<1>4. /\ q \in [Urb -> Places] /\ Pointing(g) /\ Reserved(g, q, a) /\ Lent(g, q, a)
      /\ \A v \in Urb : Knows(g.urb[v], q[v], a[v], v)
      /\ Signals(g, q, a)
      /\ h.urb[u].hcpriv = None /\ h.ch[c].urb = None
  BY <1>2, <1>3, AttachedTables
<1>5. Running(g, q, r)
  <2> SUFFICES ASSUME NEW d \in Chan, g.hw[d].state # "idle"
               PROVE  Runs(g, q, d) \/ Killed(g, d, r)
    BY DEF Running
  <2>1. CASE d = c
    BY <1>2, <1>3, <2>1 DEF Runs, Open, Moves
  <2>2. CASE d # c
    <3>1. Runs(h, p, d) \/ Killed(h, d, r)
      BY <1>1, <1>2, <2>2 DEF Good, Running
    <3>2. h.ch[d].urb # u
      BY <1>4, Names DEF Good, Pointing
    <3> QED
      BY <1>1, <1>2, <1>3, <2>2, <3>1, <3>2 DEF Runs, Open, Killed, Moves
  <2> QED
    BY <2>1, <2>2
<1>6. Good(g, q, a, r)
  BY <1>2, <1>4, <1>5 DEF Good
<1> QED
  BY <1>6 DEF g, e

\* A thread goes on without touching the tables.
LEMMA StaysGood ==
    ASSUME NEW h, NEW p, NEW a, NEW r, Good(h, p, a, r), NEW u \in Urb, NEW c \in Chan, NEW b, Aims(a, b, u, c),
           NEW q, NEW l, Moves(p, q, u, l),
           \/ p[u] = "alloc" /\ l = "idle"
           \/ p[u] = "idle" /\ l = "idle"
           \/ p[u] = "wait" /\ c = a[u] /\ l = "expired" /\ u \in Impatient
           \/ p[u] \in {"check", "kill"} /\ l = "idle" /\ h.urb[u].hcpriv = None
           \/ p[u] = "check" /\ l = "kill"
           \/ p[u] = "start" /\ c = a[u] /\ l = IF u \in Sync THEN "wait" ELSE "idle"
    PROVE  Good(h, q, b, r)
<1>1. q \in [Urb -> Places] /\ q[u] = l /\ \A v \in Urb \ {u} : q[v] = p[v]
  BY DEF Moves
<1>2. b \in [Urb -> Chan] /\ b[u] = c /\ \A v \in Urb \ {u} : b[v] = a[v]
  BY DEF Aims
<1>3. h \in HC /\ Pointing(h)
  BY DEF Good
<1>4. Reserved(h, q, b)
  BY <1>1, <1>2 DEF Good, Reserved
<1>5. Lent(h, q, b)
  <2> SUFFICES ASSUME NEW d \in Chan
               PROVE  (\E v \in Urb : q[v] = "attach" /\ b[v] = d) <=> \E v \in Urb : p[v] = "attach" /\ a[v] = d
    BY DEF Good, Lent
  <2> QED
    BY <1>1, <1>2
<1>6. ASSUME NEW v \in Urb PROVE Knows(h.urb[v], q[v], b[v], v)
  <2>1. Knows(h.urb[v], p[v], a[v], v)
    BY DEF Good
  <2>2. CASE v = u
    BY <1>1, <1>2, <2>1, <2>2 DEF Knows
  <2>3. CASE v # u
    BY <1>1, <1>2, <2>1, <2>3
  <2> QED
    BY <2>2, <2>3
<1>7. Signals(h, q, b)
  <2> SUFFICES ASSUME NEW d \in Chan, h.ch[d].sem = 1
               PROVE  \E v \in Urb : q[v] \in Waits /\ b[v] = d /\ h.urb[v].error # "busy"
    BY DEF Signals
  <2>1. PICK v \in Urb : p[v] \in Waits /\ a[v] = d /\ h.urb[v].error # "busy"
    BY DEF Good, Signals
  <2> QED
    BY <1>1, <1>2, <2>1 DEF Waits
<1>8. Running(h, q, r)
  <2> SUFFICES ASSUME NEW d \in Chan, h.hw[d].state # "idle"
               PROVE  Runs(h, q, d) \/ Killed(h, d, r)
    BY DEF Running
  <2>1. Runs(h, p, d) \/ Killed(h, d, r)
    BY DEF Good, Running
  <2>2. q[u] \in Open
    BY <1>1 DEF Open
  <2> QED
    BY <1>1, <2>1, <2>2 DEF Runs, Open
<1> QED
  BY <1>1, <1>2, <1>3, <1>4, <1>5, <1>6, <1>7, <1>8 DEF Good

\* A waiter is woken.
LEMMA WokenGood ==
    ASSUME NEW h, NEW p, NEW a, NEW r, Good(h, p, a, r), NEW u \in Urb, NEW c \in Chan,
           p[u] = "wait", a[u] = c, h.ch[c].sem = 1, NEW q, Moves(p, q, u, "woken")
    PROVE  Good([h EXCEPT !.ch[c].sem = 0], q, a, r)
<1> DEFINE g == [h EXCEPT !.ch[c].sem = 0]
<1>1. /\ g \in HC /\ g.hw = h.hw /\ g.urb = h.urb
      /\ g.ch[c].urb = h.ch[c].urb /\ g.ch[c].inuse = h.ch[c].inuse /\ g.ch[c].sem = 0
      /\ \A d \in Chan \ {c} : g.ch[d] = h.ch[d]
  <2>1. 0 \in 0 .. 1 /\ h \in HC
    BY DEF Good
  <2> QED
    BY <2>1, SemFacts, ZenonT(30)
<1> HIDE DEF g
<1>2. q \in [Urb -> Places] /\ q[u] = "woken" /\ \A v \in Urb \ {u} : q[v] = p[v]
  BY DEF Moves
<1>3. h.urb[u].hcpriv = c /\ h.ch[c].urb = u
  BY DEF Good, Knows, Pointing
<1>4. h.urb[u].error # "busy"
  <2>1. PICK v \in Urb : p[v] \in Waits /\ a[v] = c /\ h.urb[v].error # "busy"
    BY DEF Good, Signals
  <2>2. h.urb[v].hcpriv = c
    BY <2>1 DEF Good, Knows, Waits
  <2>3. v = u
    BY <1>3, <2>2 DEF Good, Pointing
  <2> QED
    BY <2>1, <2>3
<1>5. a \in [Urb -> Chan] /\ Pointing(g) /\ Reserved(g, q, a) /\ Lent(g, q, a)
  BY <1>1, <1>2 DEF Good, Pointing, Reserved, Lent
<1>6. ASSUME NEW v \in Urb PROVE Knows(g.urb[v], q[v], a[v], v)
  <2>1. Knows(h.urb[v], p[v], a[v], v)
    BY DEF Good
  <2>2. CASE v = u
    BY <1>1, <1>2, <1>4, <2>1, <2>2 DEF Knows
  <2>3. CASE v # u
    BY <1>1, <1>2, <2>1, <2>3
  <2> QED
    BY <2>2, <2>3
<1>7. Signals(g, q, a)
  <2> SUFFICES ASSUME NEW d \in Chan, g.ch[d].sem = 1
               PROVE  \E v \in Urb : q[v] \in Waits /\ a[v] = d /\ g.urb[v].error # "busy"
    BY DEF Signals
  <2>1. d # c
    BY <1>1
  <2>2. PICK v \in Urb : p[v] \in Waits /\ a[v] = d /\ h.urb[v].error # "busy"
    BY <1>1, <2>1 DEF Good, Signals
  <2> QED
    BY <1>1, <1>2, <2>1, <2>2
<1>8. Running(g, q, r)
  <2> SUFFICES ASSUME NEW d \in Chan, g.hw[d].state # "idle"
               PROVE  Runs(g, q, d) \/ Killed(g, d, r)
    BY DEF Running
  <2>1. Runs(h, p, d) \/ Killed(h, d, r)
    BY <1>1 DEF Good, Running
  <2>2. g.ch[d].urb = h.ch[d].urb
    BY <1>1
  <2> QED
    BY <1>1, <1>2, <1>4, <2>1, <2>2 DEF Runs, Open, Killed
<1>9. Good(g, q, a, r)
  BY <1>1, <1>2, <1>5, <1>6, <1>7, <1>8 DEF Good
<1> QED
  BY <1>9 DEF g

\* A thread sets the timeout of its URB, before it submits it, after it was
\* woken or when its wait has run out and nothing has signalled it since.
LEMMA TimedGood ==
    ASSUME NEW h, NEW p, NEW a, NEW r, Good(h, p, a, r), NEW u \in Urb, NEW g \in HC, g.hw = h.hw, g.ch = h.ch,
           \A v \in Urb \ {u} : g.urb[v] = h.urb[v],
           g.urb[u].hcpriv = h.urb[u].hcpriv, g.urb[u].error = h.urb[u].error,
           NEW q, NEW l, Moves(p, q, u, l),
           \/ p[u] = "woken" /\ l = "free"
           \/ p[u] = "expired" /\ l = "check" /\ h.ch[a[u]].sem = 0 /\ ~g.urb[u].timed
           \/ /\ p[u] = "idle" /\ l = "alloc" /\ h.urb[u].error # "busy"
              /\ g.urb[u].timed <=> u \in Sync
    PROVE  Good(g, q, a, r)
<1>1. q \in [Urb -> Places] /\ q[u] = l /\ \A v \in Urb \ {u} : q[v] = p[v]
  BY DEF Moves
<1>2. a \in [Urb -> Chan] /\ Pointing(g) /\ Reserved(g, q, a) /\ Lent(g, q, a)
  BY <1>1 DEF Good, Pointing, Reserved, Lent
<1>3. Knows(h.urb[u], p[u], a[u], u)
  BY DEF Good
<1>4. Knows(g.urb[u], l, a[u], u)
  BY <1>3 DEF Knows
<1>5. ASSUME NEW v \in Urb PROVE Knows(g.urb[v], q[v], a[v], v)
  BY <1>1, <1>4 DEF Good
<1>6. Signals(g, q, a)
  <2> SUFFICES ASSUME NEW d \in Chan, g.ch[d].sem = 1
               PROVE  \E v \in Urb : q[v] \in Waits /\ a[v] = d /\ g.urb[v].error # "busy"
    BY DEF Signals
  <2>1. PICK v \in Urb : p[v] \in Waits /\ a[v] = d /\ h.urb[v].error # "busy"
    BY DEF Good, Signals
  <2>2. v # u
    BY <2>1 DEF Waits
  <2> QED
    BY <1>1, <2>1, <2>2
<1>7. h.urb[u].error # "busy" \/ l \in Open
  BY <1>3 DEF Knows, Open
<1>8. Running(g, q, r)
  <2> SUFFICES ASSUME NEW d \in Chan, g.hw[d].state # "idle"
               PROVE  Runs(g, q, d) \/ Killed(g, d, r)
    BY DEF Running
  <2>1. Runs(h, p, d) \/ Killed(h, d, r)
    BY DEF Good, Running
  <2> QED
    BY <1>1, <1>7, <2>1 DEF Runs, Open, Killed
<1> QED
  BY <1>1, <1>2, <1>5, <1>6, <1>8 DEF Good

-----------------------------------------------------------------------------
(* The completion and its callback.                                        *)

\* A set of numbers that is not empty has a least one.
LEMMA HasLeast ==
    ASSUME NEW S \in SUBSET Nat, S # {}
    PROVE  \E k \in S : \A j \in S : k <= j
<1> DEFINE R == {s \in Nat \X Nat : s[1] < s[2]}
<1>1. IsWellFoundedOn(R, Nat)
  BY NatLessThanWellFounded DEF OpToRel
<1>2. PICK x \in S : \A y \in S : ~ (<<y, x>> \in R)
  <2> HIDE DEF R
  <2> QED
    BY <1>1, WFMin
<1>3. \A y \in S : ~ (y < x)
  BY <1>2
<1> QED
  BY <1>3

\* dwc2_chan_alloc finds a channel if there is one.
LEMMA AllocFinds ==
    ASSUME NEW h, Available(h) # {}
    PROVE  LET c == CHOOSE d \in Chan : Alloc(h, d) IN c \in Chan /\ Alloc(h, c)
<1>1. Chan \subseteq Nat
  BY UrbAssumption DEF UrbAssumption, Chan
<1>2. Available(h) \in SUBSET Nat /\ Available(h) \subseteq Chan
  BY <1>1 DEF Available
<1>3. PICK k \in Available(h) : \A j \in Available(h) : k <= j
  BY <1>2, HasLeast
<1>4. k \in Chan /\ Alloc(h, k)
  BY <1>2, <1>3 DEF Alloc
<1> QED
  BY <1>4

LEMMA LeftAlike ==
    ASSUME NEW h \in HC, NEW u \in Urb, NEW n \in Int
    PROVE  Alike([h EXCEPT !.urb[u].left = n], h)
  BY DEF Alike, HC, UrbRec

LEMMA FirstStage == ASSUME NEW u \in Urb PROVE First(u) \in Stages
  BY DEF First, Stages

LEMMA ResubmittedGood ==
    ASSUME NEW h, NEW p, NEW a, NEW r, Good(h, p, a, r), NEW u \in Urb \ Sync, p[u] = "idle",
           h.urb[u].hcpriv = None, ~h.urb[u].timed, Available(h) # {}
    PROVE  Good(Resubmitted(h, u), p, a, r)
<1> DEFINE c == CHOOSE d \in Chan : Alloc(h, d)
           e == Taken(h, c)
           f == [e EXCEPT !.urb[u].left = Packets]
           q == [p EXCEPT ![u] = "attach"]
           b == [a EXCEPT ![u] = c]
<1>1. c \in Chan /\ Alloc(h, c)
  BY AllocFinds
<1>2. Resubmitted(h, u) = Run(Attached(f, u, c), u, c, First(u))
  BY DEF Resubmitted, Start
<1> HIDE DEF c
<1>3. ~h.ch[c].inuse
  BY <1>1 DEF Alloc, Available
<1>4. p \in [Urb -> Places] /\ a \in [Urb -> Chan]
  BY DEF Good
<1>5. /\ Moves(p, q, u, "attach") /\ Aims(a, b, u, c)
      /\ Moves(q, p, u, "idle") /\ Moves(p, p, u, "idle") /\ Aims(b, a, u, a[u])
      /\ a[u] \in Chan /\ q[u] = "attach" /\ b[u] = c
  BY <1>1, <1>4 DEF Moves, Aims, Places
<1> HIDE DEF q, b
<1>6. Good(e, q, b, r)
  BY <1>1, <1>3, <1>5, TakenGood
<1> HIDE DEF e
<1>7. Packets \in Int
  BY UrbAssumption DEF UrbAssumption
<1>8. Alike(f, e)
  BY <1>6, <1>7, LeftAlike DEF Good
<1> HIDE DEF f
<1>9. Good(f, q, b, r)
  BY <1>6, <1>8, AlikeGood
<1>10. Good(Run(Attached(f, u, c), u, c, First(u)), p, b, r)
  BY <1>1, <1>5, <1>9, FirstStage, StartedGood
<1> QED
  BY <1>2, <1>5, <1>10, StaysGood

\* dwc2_urb_waitup of a URB whose channel has ended.
LEMMA WaitupGood ==
    ASSUME NEW h, NEW p, NEW a, NEW r, Good(h, p, a, r), NEW u \in Urb, NEW c \in Chan, NEW code \in Codes,
           code # "busy", h.ch[c].urb = u, p[u] \in Open, h.hw[c].state = "idle"
    PROVE  Good(Waitup(h, u, code), p, a, r)
<1> DEFINE e == [h EXCEPT !.urb[u].error = code]
           g == Free(e, c)
<1>1. /\ h.urb[u].hcpriv = c /\ Knows(h.urb[u], p[u], a[u], u) /\ p \in [Urb -> Places]
      /\ h \in HC
  BY DEF Good, Pointing
<1>2. /\ e \in HC /\ e.hw = h.hw /\ e.ch = h.ch
      /\ \A v \in Urb \ {u} : e.urb[v] = h.urb[v]
      /\ e.urb[u].hcpriv = h.urb[u].hcpriv /\ e.urb[u].error = code
      /\ e.urb[u].timed = h.urb[u].timed
  BY <1>1, CodedFacts, ZenonT(30)
<1>3. CASE h.urb[u].timed
  <2>1. p[u] \in Waits /\ u \in Sync /\ a[u] = c
    BY <1>1, <1>3, Names DEF Knows, Open, Waits
  <2>2. u \notin Again
    BY <2>1, Names
  <2>3. Waitup(h, u, code) = [e EXCEPT !.ch[c].sem = 1]
    BY <1>1, <1>3, <2>2 DEF Waitup
  <2>4. Good([e EXCEPT !.ch[c].sem = 1], p, a, r)
    BY <2>1, SignalledGood
  <2> QED
    BY <2>3, <2>4
<1>4. CASE ~h.urb[u].timed
  <2>1. \/ p[u] = "idle" /\ u \notin Sync
        \/ p[u] \in {"check", "kill"} /\ u \in Sync
    <3>1. p[u] \in {"check", "kill"} => u \in Sync
      BY <1>1, Names DEF Knows
    <3>2. p[u] = "idle" => u \notin Sync
      BY <1>1, Names DEF Knows
    <3>3. p[u] \notin {"wait", "expired"}
      BY <1>1, <1>4, Names DEF Knows
    <3>4. p[u] \in {"idle", "check", "kill"}
      BY <3>3 DEF Open
    <3> QED
      BY <3>1, <3>2, <3>4
  <2>2. Waitup(h, u, code) = IF u \in Again /\ code = "ok" /\ connected THEN Resubmitted(g, u) ELSE g
    BY <1>1, <1>4 DEF Waitup
  <2>3. Moves(p, p, u, p[u])
    BY <1>1, <2>1 DEF Moves
  <2> HIDE DEF e
  <2>4. Good(g, p, a, r)
    BY <1>2, <2>1, <2>3, FreedGood
  <2>5. ~g.ch[c].inuse /\ g.urb[u].hcpriv = None /\ g.urb[u].timed = h.urb[u].timed
    <3>1. e.ch[c].urb = u
      BY <1>2
    <3> QED
      BY <1>2, <3>1, FreeFacts, Names
  <2>6. Available(g) # {}
    BY <2>5 DEF Available
  <2> HIDE DEF g
  <2>7. CASE p[u] = "idle"
    <3>1. Good(Resubmitted(g, u), p, a, r)
      BY <1>4, <2>1, <2>4, <2>5, <2>6, <2>7, ResubmittedGood
    <3> QED
      BY <2>2, <2>4, <3>1
  <2>8. CASE p[u] # "idle"
    BY <2>1, <2>2, <2>4, <2>8, Names
  <2> QED
    BY <2>7, <2>8
<1> QED
  BY <1>3, <1>4

-----------------------------------------------------------------------------
(* The channel interrupt.                                                  *)

\* Channel c has ended for URB u, which is still under way.
Ended(h, p, a, r, u, c) ==
    /\ Good(h, p, a, r) /\ h.ch[c].urb = u /\ h.urb[u].error = "busy"
    /\ p[u] \in Open /\ h.hw[c].state = "idle"

LEMMA EndedAlike ==
    ASSUME NEW h, NEW g, NEW p, NEW a, NEW r, NEW u \in Urb, NEW c \in Chan, Ended(h, p, a, r, u, c), Alike(g, h)
    PROVE  Ended(g, p, a, r, u, c)
<1>1. Good(g, p, a, r)
  BY AlikeGood DEF Ended
<1> QED
  BY <1>1 DEF Ended, Alike

\* What a handler may do then.
LEMMA EndedGood ==
    ASSUME NEW h, NEW p, NEW a, NEW r, NEW u \in Urb, NEW c \in Chan, Ended(h, p, a, r, u, c)
    PROVE  /\ h \in HC /\ Good(h, p, a, r)
           /\ \A s \in Stages : Good(Run(h, u, c, s), p, a, r)
           /\ \A code \in Codes \ {"busy"} : Good(Waitup(h, u, code), p, a, r)
<1>1. h \in HC /\ Good(h, p, a, r)
  BY DEF Ended, Good
<1>2. ASSUME NEW s \in Stages PROVE Good(Run(h, u, c, s), p, a, r)
  BY RunGood DEF Ended
<1>3. ASSUME NEW code \in Codes \ {"busy"} PROVE Good(Waitup(h, u, code), p, a, r)
  BY WaitupGood DEF Ended
<1> QED
  BY <1>1, <1>2, <1>3

LEMMA StageAlike ==
    ASSUME NEW h \in HC, NEW c \in Chan
    PROVE  /\ Alike([h EXCEPT !.ch[c].stage = "setup"], h)
           /\ \A b \in BOOLEAN : Alike([h EXCEPT !.ch[c].csplit = b], h)
<1>1. Alike([h EXCEPT !.ch[c].stage = "setup"], h)
  BY ZenonT(30) DEF Alike, HC, ChanRec, Stages
<1>2. ASSUME NEW b \in BOOLEAN PROVE Alike([h EXCEPT !.ch[c].csplit = b], h)
  BY SMTT(30) DEF Alike, HC, ChanRec
<1> QED
  BY <1>1, <1>2

LEMMA MovedAlike ==
    ASSUME NEW h \in HC, NEW u \in Urb, NEW event
    PROVE  Alike(Moved(h, u, event), h)
<1> DEFINE n == IF u \in Split /\ event = "xfrc" /\ h.urb[u].left > 0 THEN h.urb[u].left - 1 ELSE 0
<1>1. h.urb[u].left \in Int
  BY DEF HC, UrbRec
<1>2. n \in Int
  BY <1>1
<1>3. Moved(h, u, event) = [h EXCEPT !.urb[u].left = n]
  BY DEF Moved
<1> HIDE DEF n
<1> QED
  BY <1>2, <1>3, LeftAlike

LEMMA AfterOutGood ==
    ASSUME NEW h, NEW p, NEW a, NEW r, NEW u \in Urb, NEW c \in Chan, Ended(h, p, a, r, u, c), NEW event
    PROVE  Good(AfterOut(h, u, c, event), p, a, r)
<1> DEFINE f == [h EXCEPT !.ch[c].stage = "setup"]
<1>1. Ended(f, p, a, r, u, c)
  BY EndedGood, StageAlike, EndedAlike
<1> HIDE DEF f
<1>2. "ok" \in Codes \ {"busy"} /\ {"out", "in", "instatus"} \subseteq Stages
  BY DEF Codes, Stages
<1>3. /\ Good(h, p, a, r) /\ Good(Waitup(h, u, "ok"), p, a, r) /\ Good(Waitup(f, u, "ok"), p, a, r)
      /\ Good(Run(h, u, c, "out"), p, a, r) /\ Good(Run(h, u, c, "in"), p, a, r)
      /\ Good(Run(h, u, c, "instatus"), p, a, r)
  BY <1>1, <1>2, EndedGood
<1>4. AfterOut(h, u, c, event) \in {h, Waitup(h, u, "ok"), Waitup(f, u, "ok"), Run(h, u, c, "out"),
                                    Run(h, u, c, "in"), Run(h, u, c, "instatus")}
  BY DEF AfterOut, f
<1> QED
  BY <1>3, <1>4

LEMMA AfterInGood ==
    ASSUME NEW h, NEW p, NEW a, NEW r, NEW u \in Urb, NEW c \in Chan, Ended(h, p, a, r, u, c), NEW event
    PROVE  Good(AfterIn(h, u, c, event), p, a, r)
<1> DEFINE f == [h EXCEPT !.ch[c].stage = "setup"]
<1>1. Ended(f, p, a, r, u, c)
  BY EndedGood, StageAlike, EndedAlike
<1> HIDE DEF f
<1>2. "ok" \in Codes \ {"busy"} /\ {"in", "outstatus"} \subseteq Stages
  BY DEF Codes, Stages
<1>3. /\ Good(h, p, a, r) /\ Good(Waitup(h, u, "ok"), p, a, r) /\ Good(Waitup(f, u, "ok"), p, a, r)
      /\ Good(Run(h, u, c, "in"), p, a, r) /\ Good(Run(h, u, c, "outstatus"), p, a, r)
  BY <1>1, <1>2, EndedGood
<1>4. AfterIn(h, u, c, event) \in {h, Waitup(h, u, "ok"), Waitup(f, u, "ok"), Run(h, u, c, "in"),
                                   Run(h, u, c, "outstatus")}
  BY DEF AfterIn, f
<1> QED
  BY <1>3, <1>4

LEMMA DoneGood ==
    ASSUME NEW h, NEW p, NEW a, NEW r, NEW u \in Urb, NEW c \in Chan, Ended(h, p, a, r, u, c), NEW ran
    PROVE  Good(Done(h, u, c, ran), p, a, r)
<1> DEFINE in == ran.stage \in {"in", "instatus"}
           g == [h EXCEPT !.ch[c].csplit = FALSE]
           k == Moved(g, u, ran.event)
<1>1. Ended(g, p, a, r, u, c)
  BY EndedGood, StageAlike, EndedAlike
<1>2. Ended(k, p, a, r, u, c)
  <2> HIDE DEF g
  <2> QED
    BY <1>1, EndedGood, MovedAlike, EndedAlike
<1>3. PICK m \in {g, k} : Done(h, u, c, ran) = IF in THEN AfterIn(m, u, c, ran.event)
                                                     ELSE AfterOut(m, u, c, ran.event)
  BY DEF Done
<1> HIDE DEF g, k
<1>4. Ended(m, p, a, r, u, c)
  BY <1>1, <1>2
<1> HIDE DEF in
<1> QED
  BY <1>3, <1>4, AfterInGood, AfterOutGood

LEMMA HandshakeGood ==
    ASSUME NEW h, NEW p, NEW a, NEW r, NEW u \in Urb, NEW c \in Chan, Ended(h, p, a, r, u, c), NEW event
    PROVE  Good(Handshake(h, u, c, event), p, a, r)
<1> DEFINE split(b) == [h EXCEPT !.ch[c].csplit = b]
           s == Current(h, u, c)
<1>1. Ended(split(TRUE), p, a, r, u, c) /\ Ended(split(FALSE), p, a, r, u, c)
  BY EndedGood, StageAlike, EndedAlike
<1>2. s \in Stages
  <2>1. h.ch[c].stage \in Stages
    BY DEF Ended, Good, HC, ChanRec
  <2> QED
    BY <2>1, FirstStage DEF Current
<1>3. "nak" \in Codes \ {"busy"}
  BY DEF Codes
<1>4. Handshake(h, u, c, event) \in {Run(split(TRUE), u, c, s), Run(split(FALSE), u, c, s),
                                     Waitup(split(FALSE), u, "nak"), h, Waitup(h, u, "nak")}
  BY DEF Handshake
<1> HIDE DEF split, s
<1>5. /\ Good(h, p, a, r) /\ Good(Waitup(h, u, "nak"), p, a, r)
      /\ Good(Run(split(TRUE), u, c, s), p, a, r) /\ Good(Run(split(FALSE), u, c, s), p, a, r)
      /\ Good(Waitup(split(FALSE), u, "nak"), p, a, r)
  BY <1>1, <1>2, <1>3, EndedGood
<1> QED
  BY <1>4, <1>5

LEMMA HandledGood ==
    ASSUME NEW h, NEW p, NEW a, NEW r, NEW u \in Urb, NEW c \in Chan, Ended(h, p, a, r, u, c), NEW ran \in HwRec
    PROVE  Good(Handled(h, u, c, ran), p, a, r)
<1>1. ran.event \in Codes \ {"busy"}
  BY Names DEF HwRec, Codes
<1>2. Good(Waitup(h, u, ran.event), p, a, r)
  BY <1>1, EndedGood
<1>3. /\ Good(Done(h, u, c, ran), p, a, r) /\ Good(Handshake(h, u, c, ran.event), p, a, r)
  BY DoneGood, HandshakeGood
<1>4. Handled(h, u, c, ran) \in {Done(h, u, c, ran), Handshake(h, u, c, ran.event), Waitup(h, u, ran.event)}
  BY DEF Handled
<1> QED
  BY <1>2, <1>3, <1>4

-----------------------------------------------------------------------------
(* Every step keeps UrbInv.                                                *)

LEMMA InitGood == Init => UrbInv
<1> SUFFICES ASSUME Init PROVE UrbInv
  OBVIOUS
<1>1. 0 \in Chan
  BY UrbAssumption DEF UrbAssumption, Chan
<1>2. <<>> \in Seq(Stages)
  OBVIOUS
<1>3. [inuse |-> FALSE, urb |-> None, sem |-> 0, stage |-> "setup", csplit |-> FALSE] \in ChanRec
  BY DEF ChanRec, Stages
<1>4. [hcpriv |-> None, error |-> "unset", timed |-> FALSE, left |-> 0, seen |-> <<>>] \in UrbRec
  BY <1>2 DEF UrbRec, Codes
<1>5. Off \in HwRec
  BY DEF Off, HwRec, Stages
<1>6. hc \in HC
  BY <1>3, <1>4, <1>5 DEF Init, HC
<1>7. /\ pc \in [Urb -> Places] /\ at \in [Urb -> Chan]
      /\ \A u \in Urb : pc[u] = "idle"
  BY <1>1 DEF Init, Places
<1>8. /\ \A c \in Chan : /\ ~hc.ch[c].inuse /\ hc.ch[c].urb = None /\ hc.ch[c].sem = 0
                         /\ hc.hw[c].state = "idle"
      /\ \A u \in Urb : hc.urb[u].hcpriv = None
  BY DEF Init, Off
<1>9. /\ Pointing(hc) /\ Reserved(hc, pc, at) /\ Lent(hc, pc, at)
      /\ \A u \in Urb : Knows(hc.urb[u], pc[u], at[u], u)
      /\ Signals(hc, pc, at) /\ Running(hc, pc, past.raced)
  BY <1>7, <1>8, Names DEF Pointing, Reserved, Lent, Knows, Signals, Running
<1>10. KillerKnows(killer, pc) /\ ~fault
  BY DEF Init, KillerKnows
<1> QED
  BY <1>6, <1>7, <1>9, <1>10 DEF UrbInv, Good

LEMMA GoesMoves ==
    ASSUME NEW u \in Urb, NEW l \in Places, UrbInv, Goes(u, l)
    PROVE  Moves(pc, pc', u, l)
  BY DEF UrbInv, Good, Goes, Moves

\* A thread's step does not touch what the killer of a URB relies on.
LEMMA KillerStays ==
    ASSUME NEW u \in Urb, NEW l, UrbInv, Moves(pc, pc', u, l), killer' = killer,
           l = "idle" \/ pc[u] # "idle" \/ (OwnerKills => killer # u)
    PROVE  KillerKnows(killer', pc')
<1>1. killer # None => killer \in Urb
  BY Names DEF UrbInv, KillerKnows
<1> QED
  BY <1>1 DEF UrbInv, KillerKnows, Moves

LEMMA SubmitInv == ASSUME NEW u \in Urb, UrbInv, Submit(u) PROVE UrbInv'
<1>1. /\ pc[u] = "idle" /\ hc.urb[u].error # "busy" /\ (OwnerKills => killer # u)
      /\ hc' = [hc EXCEPT !.urb[u].timed = u \in Sync, !.urb[u].left = Packets]
      /\ Goes(u, "alloc") /\ UNCHANGED <<connected, at, killer, fault, past>>
  BY DEF Submit
<1>2. Moves(pc, pc', u, "alloc")
  BY <1>1, GoesMoves DEF Places
<1>3. Packets \in Int /\ (u \in Sync) \in BOOLEAN /\ hc \in HC
  BY UrbAssumption DEF UrbAssumption, UrbInv, Good
<1> DEFINE g == [hc EXCEPT !.urb[u].timed = u \in Sync, !.urb[u].left = Packets]
<1>4. /\ g \in HC /\ g.hw = hc.hw /\ g.ch = hc.ch
      /\ \A v \in Urb \ {u} : g.urb[v] = hc.urb[v]
      /\ g.urb[u].hcpriv = hc.urb[u].hcpriv /\ g.urb[u].error = hc.urb[u].error
      /\ g.urb[u].timed <=> u \in Sync
  <2> DEFINE e == [hc EXCEPT !.urb[u].timed = u \in Sync]
  <2>1. /\ e \in HC /\ e.hw = hc.hw /\ e.ch = hc.ch
        /\ \A v \in Urb \ {u} : e.urb[v] = hc.urb[v]
        /\ e.urb[u].hcpriv = hc.urb[u].hcpriv /\ e.urb[u].error = hc.urb[u].error
    BY <1>3 DEF HC, UrbRec
  <2>4. g = [e EXCEPT !.urb[u].left = Packets]
    OBVIOUS
  <2> HIDE DEF e
  <2>5. /\ g \in HC /\ g.hw = e.hw /\ g.ch = e.ch
        /\ \A v \in Urb \ {u} : g.urb[v] = e.urb[v]
        /\ g.urb[u].hcpriv = e.urb[u].hcpriv /\ g.urb[u].error = e.urb[u].error
    <3> HIDE DEF g
    <3> QED
      BY <1>3, <2>1, <2>4, LeftFacts
  <2>2. g.urb[u].timed = (u \in Sync)
    BY <1>3 DEF HC, UrbRec
  <2>3. g.urb[u].timed <=> u \in Sync
    BY <2>2
  <2> HIDE DEF g
  <2> QED
    BY <2>1, <2>3, <2>5
<1> HIDE DEF g
<1>5. Good(g, pc', at, past.raced)
  BY <1>1, <1>2, <1>4, TimedGood DEF UrbInv
<1>6. KillerKnows(killer', pc')
  BY <1>1, <1>2, KillerStays
<1> QED
  BY <1>1, <1>5, <1>6 DEF UrbInv, g

LEMMA ChanAllocInv == ASSUME NEW u \in Urb, UrbInv, ChanAlloc(u) PROVE UrbInv'
<1>1. CASE Goes(u, "idle") /\ UNCHANGED <<hc, at, connected, killer, fault, past>> /\ pc[u] = "alloc"
  <2>1. Moves(pc, pc', u, "idle")
    BY <1>1, GoesMoves DEF Places
  <2>2. Aims(at, at, u, at[u]) /\ at[u] \in Chan
    BY DEF UrbInv, Good, Aims
  <2>3. Good(hc, pc', at, past.raced)
    BY <1>1, <2>1, <2>2, StaysGood DEF UrbInv
  <2>4. KillerKnows(killer', pc')
    BY <1>1, <2>1, KillerStays
  <2> QED
    BY <1>1, <2>3, <2>4 DEF UrbInv
<1>2. ASSUME NEW c \in Chan, Alloc(hc, c), hc' = Taken(hc, c), at' = [at EXCEPT ![u] = c],
             Goes(u, "attach"), UNCHANGED <<connected, killer, fault, past>>, pc[u] = "alloc"
      PROVE  UrbInv'
  <2>1. Moves(pc, pc', u, "attach")
    BY <1>2, GoesMoves DEF Places
  <2>2. Aims(at, at', u, c)
    BY <1>2 DEF UrbInv, Good, Aims
  <2>3. ~hc.ch[c].inuse
    BY <1>2 DEF Alloc, Available
  <2>4. hc.urb[u].hcpriv = None /\ (hc.urb[u].timed <=> u \in Sync)
    BY <1>2 DEF UrbInv, Good, Knows
  <2>5. Good(Taken(hc, c), pc', at', past.raced)
    BY <1>2, <2>1, <2>2, <2>3, <2>4, TakenGood DEF UrbInv
  <2>6. KillerKnows(killer', pc')
    BY <1>2, <2>1, KillerStays
  <2> QED
    BY <1>2, <2>5, <2>6 DEF UrbInv
<1> QED
  BY <1>1, <1>2 DEF ChanAlloc

\* A thread that runs meets no channel that ended inside a kill.
LEMMA ServedFacts ==
    ASSUME UrbInv, Served
    PROVE  \A c \in Chan : hc.hw[c].state # "idle" => Runs(hc, pc, c)
  BY DEF UrbInv, Good, Running, Killed, Served

LEMMA AttachInv == ASSUME NEW u \in Urb, UrbInv, Served, Attach(u) PROVE UrbInv'
<1> DEFINE c == at[u]
<1>1. /\ pc[u] = "attach" /\ hc' = Attached(hc, u, c) /\ Goes(u, "start")
      /\ UNCHANGED <<connected, at, killer, fault, past>>
  BY DEF Attach
<1>2. Moves(pc, pc', u, "start")
  BY <1>1, GoesMoves DEF Places
<1>3. c \in Chan /\ hc.ch[c].urb = None
  BY <1>1 DEF UrbInv, Good, Reserved
<1>4. hc.hw[c].state = "idle"
  BY <1>3, ServedFacts, Names DEF Runs, Open
<1>5. Good(Attached(hc, u, c), pc', at, past.raced)
  BY <1>1, <1>2, <1>3, <1>4, AttachedGood DEF UrbInv
<1>6. KillerKnows(killer', pc')
  BY <1>1, <1>2, KillerStays
<1> QED
  BY <1>1, <1>5, <1>6 DEF UrbInv

LEMMA StartTransferInv == ASSUME NEW u \in Urb, UrbInv, StartTransfer(u) PROVE UrbInv'
<1> DEFINE c == at[u]
           l == IF u \in Sync THEN "wait" ELSE "idle"
<1>1. /\ pc[u] = "start" /\ hc' = Run(hc, u, c, First(u)) /\ Goes(u, l)
      /\ UNCHANGED <<connected, at, killer, fault, past>>
  BY DEF StartTransfer, Start
<1>2. l \in Open /\ l \in Places
  BY DEF Places, Open
<1>3. Moves(pc, pc', u, l)
  BY <1>1, <1>2, GoesMoves
<1>4. Aims(at, at, u, c) /\ c \in Chan
  BY DEF UrbInv, Good, Aims
<1>5. hc.ch[c].urb = u /\ hc.urb[u].error = "busy"
  BY <1>1, <1>4 DEF UrbInv, Good, Knows, Pointing
<1>6. Good(hc, pc', at, past.raced)
  BY <1>1, <1>3, <1>4, StaysGood DEF UrbInv
<1>7. pc'[u] \in Open
  BY <1>2, <1>3 DEF Moves
<1>8. Good(Run(hc, u, c, First(u)), pc', at, past.raced)
  BY <1>4, <1>5, <1>6, <1>7, FirstStage, RunGood
<1>9. KillerKnows(killer', pc')
  BY <1>1, <1>3, KillerStays
<1> QED
  BY <1>1, <1>8, <1>9 DEF UrbInv

LEMMA SemTakeInv == ASSUME NEW u \in Urb, UrbInv, SemTake(u) PROVE UrbInv'
<1> DEFINE c == at[u]
<1>1. /\ pc[u] = "wait" /\ hc.ch[c].sem = 1 /\ hc' = [hc EXCEPT !.ch[c].sem = 0]
      /\ Goes(u, "woken") /\ UNCHANGED <<connected, at, killer, fault, past>>
  BY DEF SemTake
<1>2. Moves(pc, pc', u, "woken")
  BY <1>1, GoesMoves DEF Places
<1>3. c \in Chan
  BY DEF UrbInv, Good
<1>4. Good([hc EXCEPT !.ch[c].sem = 0], pc', at, past.raced)
  BY <1>1, <1>2, <1>3, WokenGood DEF UrbInv
<1>5. KillerKnows(killer', pc')
  BY <1>1, <1>2, KillerStays
<1> QED
  BY <1>1, <1>4, <1>5 DEF UrbInv

\* The wait of a thread runs out, and it looks whether its URB is over.
LEMMA ExpireInv == ASSUME NEW u \in Urb, UrbInv, Expire(u) PROVE UrbInv'
<1>1. /\ u \in Impatient /\ pc[u] = "wait" /\ Goes(u, "expired")
      /\ UNCHANGED <<connected, hc, at, killer, fault, past>>
  BY DEF Expire
<1>2. Moves(pc, pc', u, "expired")
  BY <1>1, GoesMoves DEF Places
<1>3. Aims(at, at, u, at[u]) /\ at[u] \in Chan
  BY DEF UrbInv, Good, Aims
<1>4. Good(hc, pc', at, past.raced)
  BY <1>1, <1>2, <1>3, StaysGood DEF UrbInv
<1>5. KillerKnows(killer', pc')
  BY <1>1, <1>2, KillerStays
<1> QED
  BY <1>1, <1>4, <1>5 DEF UrbInv

LEMMA GiveUpInv == ASSUME NEW u \in Urb, UrbInv, GiveUp(u) PROVE UrbInv'
<1> DEFINE l == IF hc.urb[u].hcpriv = None THEN "idle" ELSE "kill"
<1>1. /\ pc[u] = "check" /\ Goes(u, l)
      /\ UNCHANGED <<connected, hc, at, killer, fault, past>>
  BY DEF GiveUp
<1>2. Moves(pc, pc', u, l)
  BY <1>1, GoesMoves DEF Places
<1>3. Aims(at, at, u, at[u]) /\ at[u] \in Chan
  BY DEF UrbInv, Good, Aims
<1>4. Good(hc, pc', at, past.raced)
  BY <1>1, <1>2, <1>3, StaysGood DEF UrbInv
<1>5. KillerKnows(killer', pc')
  BY <1>1, <1>2, KillerStays
<1> QED
  BY <1>1, <1>4, <1>5 DEF UrbInv

LEMMA ClearTimeoutInv ==
    ASSUME NEW u \in Urb, UrbInv, ClearTimeout(u), ~past'.stale,
           past \in [stale : BOOLEAN, raced : BOOLEAN]
    PROVE  UrbInv'
<1> DEFINE g == [hc EXCEPT !.urb[u].timed = FALSE]
<1>1. /\ hc' = g /\ UNCHANGED <<connected, at, killer, fault>> /\ past'.raced = past.raced
  BY DEF ClearTimeout
<1>2. PICK l \in {"free", "check"} :
        /\ Goes(u, l)
        /\ \/ pc[u] = "woken" /\ l = "free"
           \/ pc[u] = "expired" /\ l = "check" /\ hc.ch[at[u]].sem # 1
  BY DEF ClearTimeout
<1>3. Moves(pc, pc', u, l)
  BY <1>2, GoesMoves DEF Places
<1>4. /\ g \in HC /\ g.hw = hc.hw /\ g.ch = hc.ch
      /\ \A v \in Urb \ {u} : g.urb[v] = hc.urb[v]
      /\ g.urb[u].hcpriv = hc.urb[u].hcpriv /\ g.urb[u].error = hc.urb[u].error
      /\ ~g.urb[u].timed
  BY DEF UrbInv, Good, HC, UrbRec
<1> HIDE DEF g
<1>5. hc.ch[at[u]].sem \in 0 .. 1
  BY DEF UrbInv, Good, HC, ChanRec
<1>6. Good(g, pc', at, past.raced)
  BY <1>2, <1>3, <1>4, <1>5, TimedGood DEF UrbInv
<1>7. KillerKnows(killer', pc')
  BY <1>1, <1>2, <1>3, KillerStays
<1> QED
  BY <1>1, <1>6, <1>7 DEF UrbInv

LEMMA FreeChanInv == ASSUME NEW u \in Urb, UrbInv, Served, FreeChan(u) PROVE UrbInv'
<1> DEFINE c == at[u]
<1>1. /\ pc[u] = "free" /\ hc' = Free(hc, c) /\ Goes(u, "idle")
      /\ UNCHANGED <<connected, at, killer, fault, past>>
  BY DEF FreeChan
<1>2. Moves(pc, pc', u, "idle")
  BY <1>1, GoesMoves DEF Places
<1>3. c \in Chan /\ hc \in HC
  BY DEF UrbInv, Good
<1>4. hc.ch[c].urb = u /\ hc.urb[u].error # "busy"
  BY <1>1, <1>3 DEF UrbInv, Good, Knows, Pointing
<1>5. hc.hw[c].state = "idle"
  BY <1>3, <1>4, ServedFacts DEF Runs, Open
<1>6. Good(Free(hc, c), pc', at, past.raced)
  BY <1>1, <1>2, <1>3, <1>4, <1>5, FreedGood DEF UrbInv
<1>7. KillerKnows(killer', pc')
  BY <1>1, <1>2, KillerStays
<1> QED
  BY <1>1, <1>6, <1>7 DEF UrbInv

LEMMA IrqInv == ASSUME NEW c \in Chan, UrbInv, Irq(c) PROVE UrbInv'
<1> DEFINE ran == hc.hw[c]
           u == hc.ch[c].urb
           h == [hc EXCEPT !.hw[c] = Off]
<1>1. ran.state = "halted" /\ ran \in HwRec /\ hc \in HC /\ UNCHANGED <<pc, at, killer, past>>
  BY DEF Irq, UrbInv, Good, HC
<1>2. Runs(hc, pc, c) \/ Killed(hc, c, past.raced)
  BY <1>1 DEF UrbInv, Good, Running
<1>3. CASE u = None
  <2>1. UNCHANGED hc /\ past.raced
    BY <1>2, <1>3, Names DEF Irq, Runs, Open, Killed
  <2> QED
    BY <1>1, <2>1 DEF UrbInv
<1>4. CASE u # None
  <2>1. /\ u \in Urb /\ hc.urb[u].error = "busy" /\ pc[u] \in Open
    BY <1>2, <1>4 DEF Runs, Open, Killed
  <2>2. hc' = Handled(h, u, c, ran) /\ UNCHANGED fault
    BY <1>4 DEF Irq
  <2>3. Good(h, pc, at, past.raced)
    BY OffGood DEF UrbInv
  <2>4. h.ch = hc.ch /\ h.urb = hc.urb /\ h.hw[c].state = "idle"
    BY <1>1, OffFacts
  <2> HIDE DEF ran, h
  <2>5. Ended(h, pc, at, past.raced, u, c)
    BY <2>1, <2>3, <2>4 DEF Ended
  <2> HIDE DEF u
  <2>6. Good(Handled(h, u, c, ran), pc, at, past.raced)
    BY <1>1, <2>1, <2>5, HandledGood
  <2> QED
    BY <1>1, <2>2, <2>6 DEF UrbInv
<1> QED
  BY <1>3, <1>4

\* A channel of h comes to its end.
LEMMA HaltedGood ==
    ASSUME NEW h, NEW p, NEW a, NEW r, Good(h, p, a, r), NEW c \in Chan, h.hw[c].state = "busy",
           NEW event \in Events, NEW x \in Seq(Stages)
    PROVE  Good([h EXCEPT !.hw[c].state = "halted", !.hw[c].event = event,
                          !.urb[h.hw[c].urb].seen = x], p, a, r)
<1> DEFINE u == h.hw[c].urb
           e == [h EXCEPT !.hw[c].state = "halted"]
           f == [e EXCEPT !.hw[c].event = event]
           g == [f EXCEPT !.urb[u].seen = x]
<1>1. h \in HC /\ Runs(h, p, c)
  BY DEF Good, Running, Killed
<1>2. u \in Urb
  BY <1>1 DEF Runs, Open
<1>3. /\ e \in HC /\ e.ch = h.ch /\ e.urb = h.urb
      /\ e.hw[c].state = "halted" /\ e.hw[c].urb = u
      /\ \A d \in Chan \ {c} : e.hw[d] = h.hw[d]
  BY <1>1 DEF HC, HwRec
<1>4. [h EXCEPT !.hw[c].state = "halted", !.hw[c].event = event, !.urb[u].seen = x] = g
  OBVIOUS
<1> HIDE DEF e, u
<1>5. /\ f \in HC /\ f.ch = e.ch /\ f.urb = e.urb
      /\ f.hw[c].state = e.hw[c].state /\ f.hw[c].urb = e.hw[c].urb
      /\ \A d \in Chan \ {c} : f.hw[d] = e.hw[d]
  BY <1>3, ZenonT(30) DEF HC, HwRec
<1> HIDE DEF f
<1>6. /\ g \in HC /\ g.hw = f.hw /\ g.ch = f.ch
      /\ \A v \in Urb \ {u} : g.urb[v] = f.urb[v]
      /\ g.urb[u].hcpriv = f.urb[u].hcpriv /\ g.urb[u].error = f.urb[u].error
      /\ g.urb[u].timed = f.urb[u].timed
  BY <1>2, <1>5, SeenFacts
<1> HIDE DEF g
<1>7. /\ g.ch = h.ch
      /\ \A v \in Urb : /\ g.urb[v].hcpriv = h.urb[v].hcpriv /\ g.urb[v].error = h.urb[v].error
                        /\ g.urb[v].timed = h.urb[v].timed
      /\ \A d \in Chan : /\ g.hw[d].urb = h.hw[d].urb
                         /\ d # c => g.hw[d] = h.hw[d]
  BY <1>3, <1>5, <1>6 DEF u
<1>8. /\ p \in [Urb -> Places] /\ a \in [Urb -> Chan]
      /\ Pointing(g) /\ Reserved(g, p, a) /\ Lent(g, p, a)
  BY <1>7 DEF Good, Pointing, Reserved, Lent
<1>9. ASSUME NEW v \in Urb PROVE Knows(g.urb[v], p[v], a[v], v)
  <2>1. Knows(h.urb[v], p[v], a[v], v)
    BY DEF Good
  <2> QED
    BY <1>7, <2>1 DEF Knows
<1>10. Signals(g, p, a)
  BY <1>7 DEF Good, Signals
<1>11. Running(g, p, r)
  <2> SUFFICES ASSUME NEW d \in Chan, g.hw[d].state # "idle"
               PROVE  Runs(g, p, d) \/ Killed(g, d, r)
    BY DEF Running
  <2>1. CASE d = c
    BY <1>1, <1>7, <2>1 DEF Runs, Open
  <2>2. CASE d # c
    <3>1. Runs(h, p, d) \/ Killed(h, d, r)
      BY <1>7, <2>2 DEF Good, Running
    <3> QED
      BY <1>7, <2>2, <3>1 DEF Runs, Open, Killed
  <2> QED
    BY <2>1, <2>2
<1>12. Good(g, p, a, r)
  BY <1>6, <1>8, <1>9, <1>10, <1>11 DEF Good
<1> QED
  BY <1>4, <1>12 DEF u

LEMMA HardwareInv ==
    ASSUME NEW c \in Chan, NEW event \in Events, UrbInv, Hardware(c, event) PROVE UrbInv'
<1> DEFINE ran == hc.hw[c]
           old == hc.urb[ran.urb].seen
           x == IF event \in {"xfrc", "short"} /\ Len(old) < Packets + 2
                THEN Append(old, ran.stage) ELSE old
           g == [hc EXCEPT !.hw[c].state = "halted", !.hw[c].event = event, !.urb[ran.urb].seen = x]
<1>1. ran.state = "busy" /\ UNCHANGED <<connected, pc, at, killer, fault, past>> /\ hc' = g
  BY DEF Hardware
<1>2. ran.urb \in Urb /\ hc \in HC
  BY <1>1 DEF UrbInv, Good, Running, Killed, Runs, Open
<1>3. old \in Seq(Stages) /\ ran.stage \in Stages
  BY <1>2 DEF HC, UrbRec, HwRec
<1> HIDE DEF old
<1>4. x \in Seq(Stages)
  BY <1>3
<1> HIDE DEF x
<1>5. Good(g, pc, at, past.raced)
  BY <1>1, <1>4, HaltedGood DEF UrbInv
<1> QED
  BY <1>1, <1>5 DEF UrbInv

-----------------------------------------------------------------------------
(* usbh_kill_urb, by the thread that gave up waiting or by the owner.      *)

\* The channel of a URB nobody waits for is halted and given back.  s tells
\* whether a kill has met a transfer that had ended, this one included.
LEMMA KilledGood ==
    ASSUME NEW h, NEW p, NEW a, NEW r, Good(h, p, a, r), NEW u \in Urb, NEW c \in Chan,
           h.urb[u].hcpriv = c, p[u] \in {"idle", "kill"}, OneCore,
           NEW q, Moves(p, q, u, "idle"), NEW s, r => s, h.hw[c].state = "halted" => s
    PROVE  LET k == Halted(h, c)
               e == [k EXCEPT !.urb[u].error = "shutdown"]
           IN  ~e.urb[u].timed /\ Good(Free(e, c), q, a, s)
<1> DEFINE k == Halted(h, c)
           e == [k EXCEPT !.urb[u].error = "shutdown"]
<1>1. h.ch[c].urb = u /\ Knows(h.urb[u], p[u], a[u], u) /\ h \in HC /\ "shutdown" \in Codes
  BY DEF Good, Pointing, Codes
<1>2. ~h.urb[u].timed
  <2>1. h.urb[u].hcpriv # None
    BY Names
  <2> QED
    BY <1>1, <2>1 DEF Knows
<1>3. Good(h, p, a, s)
  BY DEF Good, Running, Killed
<1>4. Good(k, p, a, s) /\ k.ch = h.ch /\ k.urb = h.urb
      /\ (k.hw[c].state = "idle" \/ (k.hw[c].state = "halted" /\ s))
  <2>1. CASE h.hw[c].state = "busy"
    BY <1>1, <1>3, <2>1, OffGood, OffFacts DEF Halted
  <2>2. CASE h.hw[c].state # "busy"
    BY <1>1, <1>3, <2>2 DEF Halted, HC, HwRec
  <2> QED
    BY <2>1, <2>2
<1> HIDE DEF k
<1>5. k \in HC
  BY <1>4 DEF Good
<1>6. /\ e \in HC /\ e.hw = k.hw /\ e.ch = k.ch
      /\ \A v \in Urb \ {u} : e.urb[v] = k.urb[v]
      /\ e.urb[u].hcpriv = k.urb[u].hcpriv /\ e.urb[u].timed = k.urb[u].timed
  BY <1>1, <1>5, CodedFacts
<1> HIDE DEF e
<1>7. Good(Free(e, c), q, a, s)
  BY <1>1, <1>4, <1>6, FreedGood
<1>8. ~e.urb[u].timed
  BY <1>2, <1>4, <1>6
<1> QED
  BY <1>7, <1>8 DEF e, k

LEMMA KillInv ==
    ASSUME UrbInv, OneCore, past \in [stale : BOOLEAN, raced : BOOLEAN],
           NEW u \in Urb, pc[u] \in {"idle", "kill"}, Kill(u), Moves(pc, pc', u, "idle"), UNCHANGED at,
           KillerKnows(killer', pc')
    PROVE  UrbInv'
<1> DEFINE c == hc.urb[u].hcpriv
           e == [Halted(hc, c) EXCEPT !.urb[u].error = "shutdown"]
           s == past'.raced
<1>1. /\ past.raced => s
      /\ c = None \/ hc.hw[c].state = "halted" => s
  BY DEF Kill
<1>2. hc \in HC /\ c \in Chan \cup {None}
  BY DEF UrbInv, Good, HC, UrbRec
<1>3. CASE c = None
  <2>1. UNCHANGED hc /\ s
    BY <1>1, <1>3 DEF Kill
  <2>2. Good(hc, pc, at, past.raced) /\ hc.urb[u].hcpriv = None /\ at[u] \in Chan
    BY <1>3 DEF UrbInv, Good
  <2> HIDE DEF s
  <2>3. Good(hc, pc, at, s)
    BY <2>1, <2>2 DEF Good, Running, Killed
  <2>4. Aims(at, at, u, at[u])
    BY <2>2 DEF Good, Aims
  <2>5. Good(hc, pc', at, s)
    BY <2>2, <2>3, <2>4, StaysGood
  <2> QED
    BY <2>1, <2>5 DEF UrbInv, s
<1>4. CASE c \in Chan
  <2>1. c # None
    BY <1>4, Names
  <2>2. UNCHANGED fault /\ hc' = IF e.urb[u].timed THEN [e EXCEPT !.ch[c].sem = 1] ELSE Free(e, c)
    BY <2>1 DEF Kill
  <2>3. Good(hc, pc, at, past.raced) /\ (fault => past.raced)
    BY DEF UrbInv
  <2> HIDE DEF s
  <2>4. ~e.urb[u].timed /\ Good(Free(e, c), pc', at, s)
    BY <1>1, <1>4, <2>3, KilledGood
  <2>5. hc' = Free(e, c)
    BY <2>2, <2>4
  <2> HIDE DEF e, c
  <2> QED
    BY <1>1, <2>2, <2>3, <2>4, <2>5 DEF UrbInv, s
<1> QED
  BY <1>2, <1>3, <1>4

LEMMA KillOtherInv ==
    ASSUME UrbInv, past \in [stale : BOOLEAN, raced : BOOLEAN], KillOther PROVE UrbInv'
<1>1. /\ killer # None /\ Kill(killer) /\ killer' = None /\ UNCHANGED <<connected, pc, at>>
  BY DEF KillOther
<1>2. killer \in Urb /\ OneCore /\ pc[killer] = "idle"
  BY <1>1, Names DEF UrbInv, KillerKnows
<1>3. KillerKnows(killer', pc')
  BY <1>1 DEF KillerKnows
<1>4. Moves(pc, pc', killer, "idle")
  BY <1>1, <1>2 DEF Moves, UrbInv, Good
<1> QED
  BY <1>1, <1>2, <1>3, <1>4, KillInv

LEMMA KillOwnInv ==
    ASSUME NEW u \in Urb, UrbInv, Disciplined, past \in [stale : BOOLEAN, raced : BOOLEAN], KillOwn(u)
    PROVE  UrbInv'
<1>1. pc[u] = "kill" /\ Kill(u) /\ Goes(u, "idle") /\ UNCHANGED <<connected, at, killer>>
  BY DEF KillOwn
<1>2. OneCore
  BY <1>1 DEF UrbInv, Good, Knows, Disciplined
<1>3. Moves(pc, pc', u, "idle")
  BY <1>1, GoesMoves DEF Places
<1>4. KillerKnows(killer', pc')
  BY <1>1, <1>3, KillerStays
<1> QED
  BY <1>1, <1>2, <1>3, <1>4, KillInv

LEMMA KillStartsInv == ASSUME NEW u \in Urb, UrbInv, Disciplined, KillStarts(u) PROVE UrbInv'
  BY DEF KillStarts, UrbInv, Disciplined, KillerKnows

LEMMA ThreadInv ==
    ASSUME NEW u \in Urb, UrbInv, Served, Thread(u), ~past'.stale,
           past \in [stale : BOOLEAN, raced : BOOLEAN]
    PROVE  UrbInv'
  BY SubmitInv, ChanAllocInv, AttachInv, StartTransferInv, SemTakeInv, ExpireInv,
     ClearTimeoutInv, FreeChanInv, GiveUpInv DEF Thread

LEMMA StepInv ==
    ASSUME UrbInv, Disciplined, [Next]_vars, ~past'.stale,
           past \in [stale : BOOLEAN, raced : BOOLEAN]
    PROVE  UrbInv'
<1>1. CASE Connection
  BY <1>1 DEF Connection, UrbInv
<1>2. CASE UNCHANGED vars
  BY <1>2 DEF vars, UrbInv
<1> QED
  BY <1>1, <1>2, ThreadInv, KillStartsInv, KillOwnInv, KillOtherInv, IrqInv, HardwareInv DEF Next

\* What has happened is not forgotten.
LEMMA PastStays ==
    ASSUME past \in [stale : BOOLEAN, raced : BOOLEAN], [Next]_vars
    PROVE  past' \in [stale : BOOLEAN, raced : BOOLEAN] /\ (past.stale => past'.stale)
<1>1. ASSUME NEW u \in Urb, Thread(u) \/ KillStarts(u)
      PROVE  past' = past \/ past' = [past EXCEPT !.stale = @ \/ hc.ch[at[u]].sem = 1]
  BY <1>1 DEF Thread, Submit, ChanAlloc, Attach, StartTransfer, SemTake, Expire, ClearTimeout,
              FreeChan, GiveUp, KillStarts
<1>2. ASSUME NEW u, Kill(u)
      PROVE  \E b \in BOOLEAN : past' = [past EXCEPT !.raced = @ \/ b]
  BY <1>2 DEF Kill
<1>3. CASE \E c \in Chan : Irq(c) \/ \E event \in Events : Hardware(c, event)
  BY <1>3 DEF Irq, Hardware
<1>4. CASE Connection \/ UNCHANGED vars
  BY <1>4 DEF Connection, vars
<1> QED
  BY <1>1, <1>2, <1>3, <1>4 DEF Next, KillOwn, KillOther

\* UrbInv is inductive, as long as no completion came too late.
PoolInv == past \in [stale : BOOLEAN, raced : BOOLEAN] /\ (~past.stale => UrbInv)

LEMMA Inductive == ASSUME Disciplined PROVE Spec => []PoolInv
<1>1. Init => PoolInv
  BY InitGood DEF Init, PoolInv
<1>2. PoolInv /\ [Next]_vars => PoolInv'
  BY StepInv, PastStays DEF PoolInv
<1> QED
  BY <1>1, <1>2, PTL DEF Spec

-----------------------------------------------------------------------------
(* The stages a URB has gone through.                                      *)

\* The direction of a URB's data, and the status stage that follows it.
Dir(u) == IF Kind[u] \in {"ctlin", "bulkin", "intin"} THEN "in"
          ELSE IF Kind[u] \in {"ctlout", "bulkout"} THEN "out" ELSE "none"
Status(u) == IF Dir(u) = "in" THEN "outstatus" ELSE "instatus"
Setups(u) == IF u \in Control THEN 1 ELSE 0

\* s is the setup of a control transfer and then data.
Body(u, s) ==
    /\ s \in Seq(Stages)
    /\ \A k \in 1 .. Len(s) : s[k] = IF u \in Control /\ k = 1 THEN "setup" ELSE Dir(u)

\* ... and all of its data.
AllData(u, s) ==
    /\ Body(u, s) /\ Len(s) <= Setups(u) + Packets
    /\ Dir(u) = "none" => Len(s) = 1
    /\ Dir(u) # "none" => Len(s) > Setups(u)
    /\ Dir(u) = "out" => Len(s) = Setups(u) + (IF u \in Split THEN Packets ELSE 1)

\* What a URB has seen, and has left, when its channel runs a stage.
Fits(u, s, stage, left) ==
    \/ stage = "setup" /\ u \in Control /\ s = <<>> /\ left = Packets
    \/ /\ stage = Dir(u) /\ stage # "none" /\ Body(u, s) /\ left \in 1 .. Packets
       /\ Len(s) = Setups(u) + (IF u \in Split THEN Packets - left ELSE 0)
    \/ stage = Status(u) /\ u \in Control /\ AllData(u, s)

\* A channel's transfer has ended well, after what its URB had seen.
Over(w) == w.state = "halted" /\ w.event \in {"xfrc", "short"}
EndedWell(u, b, w) ==
    /\ w.event = "short" => w.stage = "in"
    /\ \E s \in Seq(Stages) : Fits(u, s, w.stage, b.left) /\ b.seen = Append(s, w.stage)

\* A URB that succeeded is complete, and one about to start is fresh.
Fresh(u, b, l) ==
    /\ l \in {"alloc", "attach", "start"} => b.left = Packets
    /\ l = "start" => b.seen = <<>>
    /\ b.error = "ok" => Complete(u, b.seen)

\* A channel that runs for a URB runs the stage that is next for it.
OnTrack(u, b, k, w) ==
    /\ w.stage = k.stage
    /\ IF Over(w) THEN EndedWell(u, b, w) ELSE Fits(u, b.seen, w.stage, b.left)

Trail(h, p) ==
    /\ \A u \in Urb : Fresh(u, h.urb[u], p[u])
    /\ \A u \in Urb, c \in Chan : h.hw[c].state # "idle" /\ h.ch[c].urb = u
                                 => OnTrack(u, h.urb[u], h.ch[c], h.hw[c])

\* What the functions of the driver do to what a URB has seen and has left,
\* and to the stages of the channels.
Same(g, h, v) == g.urb[v].seen = h.urb[v].seen /\ g.urb[v].left = h.urb[v].left

\* The code of a URB is set.
LEMMA CodedKeeps ==
    ASSUME NEW h \in HC, NEW u \in Urb, NEW code
    PROVE  Same([h EXCEPT !.urb[u].error = code], h, u)
  BY DEF Same, HC, UrbRec

\* dwc2_chan_free touches neither.
LEMMA FreeKeeps ==
    ASSUME NEW h \in HC, NEW c \in Chan
    PROVE  LET g == Free(h, c)
           IN  /\ \A v \in Urb : Same(g, h, v) /\ g.urb[v].error = h.urb[v].error
               /\ \A d \in Chan : g.ch[d].stage = h.ch[d].stage
<1> DEFINE u == h.ch[c].urb
           f == [h EXCEPT !.ch[c].urb = None, !.ch[c].inuse = FALSE]
<1>1. u \in Urb \cup {None}
  BY DEF HC, ChanRec
<1>2. f.urb = h.urb /\ \A d \in Chan : f.ch[d].stage = h.ch[d].stage
  BY DEF HC, ChanRec
<1>3. Free(h, c) = IF u = None THEN f ELSE [f EXCEPT !.urb[u].hcpriv = None]
  BY DEF Free
<1>4. CASE u = None
  BY <1>2, <1>3, <1>4 DEF Same
<1>5. CASE u \in Urb /\ u # None
  <2> DEFINE g == [f EXCEPT !.urb[u].hcpriv = None]
  <2>1. Free(h, c) = g /\ f.urb \in [Urb -> UrbRec]
    BY <1>2, <1>3, <1>5 DEF HC
  <2> HIDE DEF f, u
  <2>2. /\ g.ch = f.ch
        /\ \A v \in Urb : /\ g.urb[v].seen = f.urb[v].seen /\ g.urb[v].left = f.urb[v].left
                          /\ g.urb[v].error = f.urb[v].error
    BY <1>5, <2>1 DEF UrbRec
  <2> HIDE DEF g
  <2> QED
    BY <1>2, <2>1, <2>2 DEF Same
<1> QED
  BY <1>1, <1>4, <1>5

\* A channel is lent, or its semaphore changes.
LEMMA LentKeeps ==
    ASSUME NEW h \in HC, NEW c \in Chan, NEW n
    PROVE  /\ \A d \in Chan : Taken(h, c).ch[d].stage = h.ch[d].stage
           /\ \A d \in Chan : [h EXCEPT !.ch[c].sem = n].ch[d].stage = h.ch[d].stage
<1>1. \A d \in Chan : Taken(h, c).ch[d].stage = h.ch[d].stage
  BY DEF Taken, HC, ChanRec
<1>2. \A d \in Chan : [h EXCEPT !.ch[c].sem = n].ch[d].stage = h.ch[d].stage
  BY DEF HC, ChanRec
<1> QED
  BY <1>1, <1>2

\* One field of a URB changes, or the stages it has seen.
LEMMA FieldKeeps ==
    ASSUME NEW h \in HC, NEW u \in Urb, NEW x
    PROVE  /\ Same([h EXCEPT !.urb[u].hcpriv = x], h, u)
           /\ Same([h EXCEPT !.urb[u].timed = x], h, u)
  BY DEF Same, HC, UrbRec

\* ... what it has seen is x, or what it has left.
SeenIs(g, h, u, x) == g.urb[u].seen = x /\ g.urb[u].left = h.urb[u].left
LeftIs(g, h, u, x) == g.urb[u].left = x /\ g.urb[u].seen = h.urb[u].seen

LEMMA SeenKeeps ==
    ASSUME NEW h \in HC, NEW u \in Urb, NEW x
    PROVE  SeenIs([h EXCEPT !.urb[u].seen = x], h, u, x)
  BY DEF SeenIs, HC, UrbRec

LEMMA LeftKeeps ==
    ASSUME NEW h \in HC, NEW u \in Urb, NEW x
    PROVE  LeftIs([h EXCEPT !.urb[u].left = x], h, u, x)
  BY DEF LeftIs, HC, UrbRec

\* A URB is attached: it has seen nothing yet.
LEMMA AttachedKeeps ==
    ASSUME NEW h \in HC, NEW u \in Urb, NEW c \in Chan
    PROVE  LET g == Attached(h, u, c)
           IN  /\ g.urb[u].seen = <<>> /\ g.urb[u].left = h.urb[u].left
               /\ \A d \in Chan : g.ch[d].stage = h.ch[d].stage
<1> DEFINE e == [h EXCEPT !.ch[c].urb = u]
           f == [e EXCEPT !.urb[u].hcpriv = c]
           k == [f EXCEPT !.urb[u].error = "busy"]
           g == [k EXCEPT !.urb[u].seen = <<>>]
<1>1. Attached(h, u, c) = g /\ "busy" \in Codes
  BY DEF Attached, Codes
<1>2. e \in HC /\ e.urb = h.urb /\ \A d \in Chan : e.ch[d].stage = h.ch[d].stage
  BY DEF HC, ChanRec
<1> HIDE DEF e
<1>3. f \in HC /\ f.ch = e.ch
  BY <1>2, PointedFacts
<1>6. Same(f, e, u)
  BY <1>2, FieldKeeps
<1> HIDE DEF f
<1>4. k \in HC /\ k.ch = f.ch /\ Same(k, f, u)
  BY <1>1, <1>3, CodedFacts, CodedKeeps
<1> HIDE DEF k
<1>7. g.ch = k.ch
  BY <1>4 DEF HC
<1>5. g.urb[u].seen = <<>> /\ g.urb[u].left = k.urb[u].left
  <2> DEFINE none == <<>>
  <2> HIDE DEF none
  <2>1. SeenIs([k EXCEPT !.urb[u].seen = none], k, u, none)
    BY <1>4, SeenKeeps
  <2> QED
    BY <2>1 DEF SeenIs, none
<1> HIDE DEF g
<1> QED
  BY <1>1, <1>2, <1>3, <1>4, <1>5, <1>6, <1>7 DEF Same

\* A channel is programmed with a stage.
LEMMA RunKeeps ==
    ASSUME NEW h \in HC, NEW u \in Urb, NEW c \in Chan, NEW s \in Stages
    PROVE  LET g == Run(h, u, c, s)
           IN  /\ g.ch[c].stage = s /\ g.hw[c].stage = s /\ g.hw[c].event = "none"
               /\ g.hw[c].state = "busy"
               /\ \A d \in Chan \ {c} : g.ch[d].stage = h.ch[d].stage
<1> DEFINE e == [h EXCEPT !.ch[c].stage = s]
           g == [e EXCEPT !.hw[c] = [state |-> "busy", urb |-> u, stage |-> s, event |-> "none"]]
<1>1. /\ e.ch[c].stage = s /\ \A d \in Chan \ {c} : e.ch[d].stage = h.ch[d].stage
      /\ e.hw = h.hw /\ h.hw \in [Chan -> HwRec]
  BY DEF HC, ChanRec
<1>2. Run(h, u, c, s) = g
  BY DEF Run
<1> HIDE DEF e
<1>3. g.ch = e.ch /\ g.hw[c] = [state |-> "busy", urb |-> u, stage |-> s, event |-> "none"]
  <2>1. "hw" \in DOMAIN e /\ "ch" \in DOMAIN e
    BY DEF HC, e
  <2> QED
    BY <1>1, <2>1
<1> HIDE DEF g
<1> QED
  BY <1>1, <1>2, <1>3

-----------------------------------------------------------------------------
(* What keeps a trail.                                                     *)

\* Only URB u, and the channels it may have, change.
LEMMA TrailBut ==
    ASSUME NEW h, NEW g, NEW p, NEW q, Trail(h, p), NEW u \in Urb,
           \A v \in Urb \ {u} : /\ Same(g, h, v) /\ q[v] = p[v]
                                /\ g.urb[v].error = "ok" => h.urb[v].error = "ok",
           \A d \in Chan : g.hw[d].state # "idle" /\ g.ch[d].urb \in Urb \ {u} =>
               /\ g.hw[d] = h.hw[d] /\ g.ch[d].urb = h.ch[d].urb
               /\ g.ch[d].stage = h.ch[d].stage,
           Fresh(u, g.urb[u], q[u]),
           \A d \in Chan : g.hw[d].state # "idle" /\ g.ch[d].urb = u =>
               OnTrack(u, g.urb[u], g.ch[d], g.hw[d])
    PROVE  Trail(g, q)
<1>1. ASSUME NEW v \in Urb PROVE Fresh(v, g.urb[v], q[v])
  <2>1. CASE v = u
    BY <2>1
  <2>2. CASE v # u
    BY <2>2 DEF Trail, Fresh, Same
  <2> QED
    BY <2>1, <2>2
<1>2. ASSUME NEW v \in Urb, NEW d \in Chan, g.hw[d].state # "idle", g.ch[d].urb = v
      PROVE  OnTrack(v, g.urb[v], g.ch[d], g.hw[d])
  <2>1. CASE v = u
    BY <1>2, <2>1
  <2>2. CASE v # u
    <3>1. OnTrack(v, h.urb[v], h.ch[d], h.hw[d])
      BY <1>2, <2>2 DEF Trail
    <3> QED
      BY <1>2, <2>2, <3>1, SMTT(30) DEF OnTrack, EndedWell, Same
  <2> QED
    BY <2>1, <2>2
<1> QED
  BY <1>1, <1>2 DEF Trail

\* What was seen and is left, and the channels that run, stay.
LEMMA TrailSame ==
    ASSUME NEW h, NEW g, NEW p, NEW q, Trail(h, p), NEW u \in Urb,
           \A v \in Urb : Same(g, h, v) /\ (g.urb[v].error = "ok" => h.urb[v].error = "ok"),
           \A v \in Urb \ {u} : q[v] = p[v],
           \/ q[u] = p[u] \/ q[u] \notin {"alloc", "attach", "start"}
           \/ q[u] = "attach" /\ p[u] = "alloc",
           \A d \in Chan : g.hw[d].state # "idle" /\ g.ch[d].urb \in Urb =>
               /\ g.hw[d] = h.hw[d] /\ g.ch[d].urb = h.ch[d].urb
               /\ g.ch[d].stage = h.ch[d].stage
    PROVE  Trail(g, q)
<1>1. Fresh(u, g.urb[u], q[u])
  BY DEF Trail, Fresh, Same
<1>2. ASSUME NEW d \in Chan, g.hw[d].state # "idle", g.ch[d].urb = u
      PROVE  OnTrack(u, g.urb[u], g.ch[d], g.hw[d])
  <2>1. OnTrack(u, h.urb[u], h.ch[d], h.hw[d])
    BY <1>2 DEF Trail
  <2> QED
    BY <1>2, <2>1 DEF OnTrack, EndedWell, Same
<1> QED
  BY <1>1, <1>2, TrailBut

\* A channel is programmed with the stage that is next for its URB.
LEMMA RunTrail ==
    ASSUME NEW h, NEW p, NEW a, NEW r, Good(h, p, a, r), Trail(h, p), NEW u \in Urb, NEW c \in Chan,
           NEW s \in Stages, h.ch[c].urb = u, Fits(u, h.urb[u].seen, s, h.urb[u].left)
    PROVE  Trail(Run(h, u, c, s), p)
<1> DEFINE g == Run(h, u, c, s)
<1>1. h \in HC /\ \A d \in Chan : h.ch[d].urb = u => d = c
  BY DEF Good, Pointing
<1>2. /\ g.urb = h.urb /\ \A d \in Chan : g.ch[d].urb = h.ch[d].urb
      /\ \A d \in Chan \ {c} : g.hw[d] = h.hw[d]
  BY <1>1, RunFacts
<1>3. /\ g.ch[c].stage = s /\ g.hw[c].stage = s /\ g.hw[c].event = "none" /\ g.hw[c].state = "busy"
      /\ \A d \in Chan \ {c} : g.ch[d].stage = h.ch[d].stage
  BY <1>1, RunKeeps
<1> HIDE DEF g
<1>4. OnTrack(u, g.urb[u], g.ch[c], g.hw[c])
  BY <1>2, <1>3 DEF OnTrack, Over
<1>5. Fresh(u, g.urb[u], p[u])
  BY <1>2 DEF Trail
<1>6. Trail(g, p)
  BY <1>1, <1>2, <1>3, <1>4, <1>5, TrailBut DEF Same
<1> QED
  BY <1>6 DEF g

\* A submission starts with the first stage.
LEMMA FirstFits == ASSUME NEW u \in Urb PROVE Fits(u, <<>>, First(u), Packets)
<1>1. /\ Packets \in Nat \ {0}
      /\ Kind[u] \in {"ctl0", "ctlin", "ctlout", "bulkin", "bulkout", "intin"}
  BY UrbAssumption DEF UrbAssumption
<1>2. CASE u \in Control
  <2>1. First(u) = "setup"
    BY <1>2 DEF First, Control
  <2> QED
    BY <1>2, <2>1 DEF Fits
<1>3. CASE u \notin Control
  <2>1. First(u) = Dir(u) /\ Dir(u) # "none"
    BY <1>1, <1>3 DEF First, Dir, Control
  <2>2. Body(u, <<>>) /\ Len(<<>>) = 0 /\ Setups(u) = 0
    BY <1>3 DEF Body, Setups
  <2>3. Packets \in 1 .. Packets /\ Packets - Packets = 0
    BY <1>1
  <2> QED
    BY <2>1, <2>2, <2>3 DEF Fits
<1> QED
  BY <1>2, <1>3

\* A callback submits again.
LEMMA ResubmittedTrail ==
    ASSUME NEW h, NEW p, NEW a, NEW r, Good(h, p, a, r), Trail(h, p), NEW u \in Urb, p[u] = "idle",
           h.urb[u].hcpriv = None, Available(h) # {}
    PROVE  Trail(Resubmitted(h, u), p)
<1> DEFINE c == CHOOSE d \in Chan : Alloc(h, d)
           e == Taken(h, c)
           f == [e EXCEPT !.urb[u].left = Packets]
           k == Attached(f, u, c)
           g == Run(k, u, c, First(u))
<1>1. c \in Chan
  BY AllocFinds
<1>2. Resubmitted(h, u) = g
  BY DEF Resubmitted, Start
<1> HIDE DEF c
<1>3. h \in HC /\ \A d \in Chan : h.ch[d].urb # u
  BY Names DEF Good, Pointing
<1>4. Packets \in Int
  BY UrbAssumption DEF UrbAssumption
<1>5. /\ e \in HC /\ e.hw = h.hw /\ e.urb = h.urb
      /\ \A d \in Chan : e.ch[d].urb = h.ch[d].urb /\ e.ch[d].stage = h.ch[d].stage
  BY <1>1, <1>3, TakenFacts, LentKeeps
<1> HIDE DEF e
<1>6. /\ f \in HC /\ f.hw = e.hw /\ f.ch = e.ch
      /\ \A v \in Urb \ {u} : f.urb[v] = e.urb[v]
  BY <1>4, <1>5, LeftFacts
<1>7. f.urb[u].left = Packets
  BY <1>5, LeftKeeps DEF LeftIs
<1> HIDE DEF f
<1>8. /\ k \in HC /\ k.hw = f.hw /\ k.ch[c].urb = u
      /\ \A d \in Chan \ {c} : k.ch[d] = f.ch[d]
      /\ \A v \in Urb \ {u} : k.urb[v] = f.urb[v]
      /\ k.urb[u].error = "busy"
  BY <1>1, <1>6, AttachedFacts
<1>9. k.urb[u].seen = <<>> /\ k.urb[u].left = Packets
  BY <1>1, <1>6, <1>7, AttachedKeeps
<1> HIDE DEF k
<1>10. /\ g.urb = k.urb /\ \A d \in Chan : g.ch[d].urb = k.ch[d].urb
       /\ \A d \in Chan \ {c} : g.hw[d] = k.hw[d]
  BY <1>1, <1>8, FirstStage, RunFacts
<1>11. /\ g.ch[c].stage = First(u) /\ g.hw[c].stage = First(u) /\ g.hw[c].event = "none"
       /\ g.hw[c].state = "busy"
       /\ \A d \in Chan \ {c} : g.ch[d].stage = k.ch[d].stage
  BY <1>1, <1>8, FirstStage, RunKeeps
<1> HIDE DEF g
<1>12. OnTrack(u, g.urb[u], g.ch[c], g.hw[c])
  BY <1>9, <1>10, <1>11, FirstFits DEF OnTrack, Over
<1>13. Fresh(u, g.urb[u], p[u])
  BY <1>8, <1>10 DEF Fresh
<1>14. \A v \in Urb \ {u} : g.urb[v] = h.urb[v]
  BY <1>5, <1>6, <1>8, <1>10
<1>15. \A d \in Chan \ {c} : /\ g.hw[d] = h.hw[d] /\ g.ch[d].urb = h.ch[d].urb
                             /\ g.ch[d].stage = h.ch[d].stage
  BY <1>5, <1>6, <1>8, <1>10, <1>11
<1>16. g.ch[c].urb = u
  BY <1>1, <1>8, <1>10
<1>17. Trail(g, p)
  BY <1>1, <1>3, <1>12, <1>13, <1>14, <1>15, <1>16, TrailBut DEF Same
<1> QED
  BY <1>2, <1>17

\* The end of a URB is told to its thread, or its channel is given back and
\* its callback called.
LEMMA WaitupTrail ==
    ASSUME NEW h, NEW p, NEW a, NEW r, NEW u \in Urb, NEW c \in Chan, Ended(h, p, a, r, u, c), Trail(h, p),
           NEW code \in Codes, code # "busy", code = "ok" => Complete(u, h.urb[u].seen)
    PROVE  Trail(Waitup(h, u, code), p)
<1> DEFINE e == [h EXCEPT !.urb[u].error = code]
           g == Free(e, c)
           k == [e EXCEPT !.ch[c].sem = 1]
<1>1. /\ Good(h, p, a, r) /\ h.ch[c].urb = u /\ h.hw[c].state = "idle"
      /\ p[u] \in Open /\ h.urb[u].hcpriv = c
      /\ Knows(h.urb[u], p[u], a[u], u) /\ h \in HC /\ p \in [Urb -> Places]
      /\ \A d \in Chan : h.ch[d].urb = u => d = c
  BY DEF Ended, Good, Pointing
<1>2. /\ e \in HC /\ e.hw = h.hw /\ e.ch = h.ch
      /\ \A v \in Urb \ {u} : e.urb[v] = h.urb[v]
      /\ e.urb[u].hcpriv = c /\ e.urb[u].error = code /\ e.urb[u].timed = h.urb[u].timed
  BY <1>1, CodedFacts
<1>3. Same(e, h, u)
  BY <1>1, CodedKeeps
<1> HIDE DEF e
<1>4. Fresh(u, e.urb[u], p[u])
  BY <1>1, <1>2, <1>3 DEF Fresh, Open, Same
<1>5. Trail(e, p)
  BY <1>1, <1>2, <1>3, <1>4, TrailBut DEF Same
<1>6. CASE h.urb[u].timed
  <2>1. u \in Sync /\ u \notin Again
    BY <1>1, <1>6, Names DEF Knows, Open
  <2>2. Waitup(h, u, code) = k
    BY <1>1, <1>6, <2>1 DEF Waitup, e
  <2>3. k.hw = e.hw /\ k.urb = e.urb /\ \A d \in Chan : k.ch[d].urb = e.ch[d].urb
    BY <1>2, SemFacts
  <2>4. \A d \in Chan : k.ch[d].stage = e.ch[d].stage
    BY <1>2, LentKeeps
  <2> HIDE DEF k
  <2>5. Trail(k, p)
    BY <1>5, <2>3, <2>4, TrailSame DEF Same
  <2> QED
    BY <2>2, <2>5
<1>7. CASE ~h.urb[u].timed
  <2>1. p[u] \in {"idle", "check", "kill"} /\ (p[u] # "idle" => u \in Sync)
    BY <1>1, <1>7, Names DEF Knows, Open
  <2>2. Waitup(h, u, code) = IF u \in Again /\ code = "ok" /\ connected THEN Resubmitted(g, u) ELSE g
    BY <1>1, <1>7 DEF Waitup, e
  <2>3. Moves(p, p, u, p[u])
    BY <1>1, <2>1 DEF Moves
  <2>4. Good(g, p, a, r)
    BY <1>1, <1>2, <2>1, <2>3, FreedGood
  <2>5. /\ ~g.ch[c].inuse /\ g.urb[u].hcpriv = None /\ g.hw = e.hw /\ g.ch[c].urb = None
        /\ \A d \in Chan \ {c} : g.ch[d] = e.ch[d]
    <3>1. e.ch[c].urb = u
      BY <1>1, <1>2
    <3> QED
      BY <1>2, <3>1, FreeFacts, Names
  <2>6. \A v \in Urb : Same(g, e, v) /\ g.urb[v].error = e.urb[v].error
    BY <1>2, FreeKeeps
  <2>7. Available(g) # {}
    BY <2>5 DEF Available
  <2> HIDE DEF g
  <2>8. Trail(g, p)
    BY <1>5, <2>5, <2>6, Names, TrailSame
  <2>9. CASE p[u] = "idle"
    <3>1. Trail(Resubmitted(g, u), p)
      BY <2>4, <2>5, <2>7, <2>8, <2>9, ResubmittedTrail
    <3> QED
      BY <2>2, <2>8, <3>1
  <2>10. CASE p[u] # "idle"
    BY <2>1, <2>2, <2>8, <2>10, Names
  <2> QED
    BY <2>9, <2>10
<1> QED
  BY <1>6, <1>7

-----------------------------------------------------------------------------
(* A stage ends well: what the URB has seen then, and what is next.        *)

LEMMA KindFacts ==
    ASSUME NEW u \in Urb
    PROVE  /\ Packets \in Nat \ {0}
           /\ Kind[u] \in {"ctl0", "ctlin", "ctlout", "bulkin", "bulkout", "intin"}
           /\ Dir(u) \in {"in", "out", "none"} /\ Dir(u) \in Stages
           /\ Status(u) \in {"outstatus", "instatus"} /\ Status(u) \in Stages
           /\ Setups(u) \in {0, 1} /\ (u \in Control <=> Setups(u) = 1)
           /\ (u \in Control <=> Kind[u] \in {"ctl0", "ctlin", "ctlout"})
           /\ (Dir(u) = "none" <=> Kind[u] = "ctl0")
           /\ (Kind[u] = "ctlin" => Dir(u) = "in") /\ (Kind[u] = "ctlout" => Dir(u) = "out")
           /\ (u \notin Control => First(u) = Dir(u))
<1>1. /\ Packets \in Nat \ {0}
      /\ Kind[u] \in {"ctl0", "ctlin", "ctlout", "bulkin", "bulkout", "intin"}
  BY UrbAssumption DEF UrbAssumption
<1>2. u \in Control <=> Kind[u] \in {"ctl0", "ctlin", "ctlout"}
  BY DEF Control
<1>3. Dir(u) \in {"in", "out", "none"} /\ Dir(u) \in Stages
  BY DEF Dir, Stages
<1>4. Status(u) \in {"outstatus", "instatus"} /\ Status(u) \in Stages
  BY DEF Status, Stages
<1>5. Setups(u) \in {0, 1} /\ (u \in Control <=> Setups(u) = 1)
  BY DEF Setups
<1>6. /\ (Dir(u) = "none" <=> Kind[u] = "ctl0")
      /\ (Kind[u] = "ctlin" => Dir(u) = "in") /\ (Kind[u] = "ctlout" => Dir(u) = "out")
  BY <1>1 DEF Dir
<1>7. u \notin Control => First(u) = Dir(u)
  BY <1>1, <1>2 DEF First, Dir
<1> QED
  BY <1>1, <1>2, <1>3, <1>4, <1>5, <1>6, <1>7

\* Another packet of data.
LEMMA BodyGrows ==
    ASSUME NEW u \in Urb, NEW s, Body(u, s), Len(s) >= Setups(u)
    PROVE  Body(u, Append(s, Dir(u))) /\ Len(Append(s, Dir(u))) = Len(s) + 1
<1> DEFINE t == Append(s, Dir(u))
<1>1. s \in Seq(Stages) /\ Len(s) \in Nat /\ Dir(u) \in Stages
  BY KindFacts DEF Body
<1>2. /\ t \in Seq(Stages) /\ Len(t) = Len(s) + 1 /\ t[Len(s) + 1] = Dir(u)
      /\ \A k \in 1 .. Len(s) : t[k] = s[k]
  BY <1>1
<1> HIDE DEF t
<1>3. ASSUME NEW k \in 1 .. Len(t)
      PROVE  t[k] = IF u \in Control /\ k = 1 THEN "setup" ELSE Dir(u)
  <2>1. CASE k \in 1 .. Len(s)
    BY <1>2, <2>1 DEF Body
  <2>2. CASE k = Len(s) + 1
    <3>1. ~(u \in Control /\ k = 1)
      BY <1>1, <2>2 DEF Setups
    <3> QED
      BY <1>2, <2>2, <3>1
  <2> QED
    BY <1>1, <1>2, <2>1, <2>2
<1>4. Body(u, t)
  BY <1>2, <1>3 DEF Body
<1> QED
  BY <1>2, <1>4 DEF t

\* The setup of a control transfer is over.
LEMMA SetupEnds ==
    ASSUME NEW u \in Urb, NEW s, NEW left, Fits(u, s, "setup", left)
    PROVE  /\ u \in Control /\ left = Packets
           /\ Fits(u, Append(s, "setup"), CASE Kind[u] = "ctl0"   -> "instatus"
                                            [] Kind[u] = "ctlin"  -> "in"
                                            [] OTHER -> "out", left)
<1> DEFINE t == Append(s, "setup")
<1>1. u \in Control /\ s = <<>> /\ left = Packets
  BY KindFacts DEF Fits
<1>2. "setup" \in Stages
  BY DEF Stages
<1>3. t \in Seq(Stages) /\ Len(t) = 1 /\ t[1] = "setup"
  BY <1>1, <1>2
<1> HIDE DEF t
<1>4. Body(u, t) /\ Setups(u) = 1
  BY <1>1, <1>3 DEF Body, Setups
<1>5. Packets \in Nat \ {0} /\ Packets \in 1 .. Packets /\ Packets - Packets = 0
  BY KindFacts
<1>6. CASE Kind[u] = "ctl0"
  <2>1. Dir(u) = "none" /\ Status(u) = "instatus"
    BY <1>6 DEF Dir, Status
  <2>2. AllData(u, t)
    BY <1>3, <1>4, <1>5, <2>1 DEF AllData
  <2> QED
    BY <1>1, <1>6, <2>1, <2>2 DEF Fits, t
<1>7. CASE Kind[u] # "ctl0"
  <2>1. Dir(u) = IF Kind[u] = "ctlin" THEN "in" ELSE "out"
    BY <1>1, <1>7, KindFacts
  <2>2. Fits(u, t, Dir(u), Packets)
    BY <1>3, <1>4, <1>5, <2>1 DEF Fits
  <2> QED
    BY <1>1, <1>7, <2>1, <2>2 DEF t
<1> QED
  BY <1>6, <1>7

\* A packet of data is over, and more are to come.
LEMMA DataFits ==
    ASSUME NEW u \in Urb, NEW s, NEW left, Fits(u, s, Dir(u), left)
    PROVE  /\ Dir(u) # "none" /\ Body(u, s) /\ left \in 1 .. Packets
           /\ Len(s) = Setups(u) + (IF u \in Split THEN Packets - left ELSE 0)
<1>1. Dir(u) # "setup" /\ Dir(u) # Status(u)
  BY KindFacts
<1> QED
  BY <1>1 DEF Fits

LEMMA DataGoesOn ==
    ASSUME NEW u \in Urb, NEW s, NEW left, Fits(u, s, Dir(u), left), u \in Split, left - 1 > 0
    PROVE  Fits(u, Append(s, Dir(u)), Dir(u), left - 1)
<1>1. /\ Dir(u) # "none" /\ Body(u, s) /\ left \in 1 .. Packets
      /\ Len(s) = Setups(u) + (Packets - left)
  BY DataFits
<1>2. Packets \in Nat /\ Setups(u) \in {0, 1}
  BY KindFacts
<1>3. Body(u, Append(s, Dir(u))) /\ Len(Append(s, Dir(u))) = Len(s) + 1
  BY <1>1, <1>2, BodyGrows
<1>4. left - 1 \in 1 .. Packets
  BY <1>1, <1>2
<1>5. Len(Append(s, Dir(u))) = Setups(u) + (Packets - (left - 1))
  BY <1>1, <1>2, <1>3
<1> QED
  BY <1>1, <1>3, <1>4, <1>5 DEF Fits

\* The last packet of data is over.
LEMMA DataEnds ==
    ASSUME NEW u \in Urb, NEW s, NEW left, Fits(u, s, Dir(u), left),
           Dir(u) = "out" /\ u \in Split => left = 1
    PROVE  AllData(u, Append(s, Dir(u)))
<1> DEFINE t == Append(s, Dir(u))
<1>1. /\ Dir(u) # "none" /\ Body(u, s) /\ left \in 1 .. Packets
      /\ Len(s) = Setups(u) + (IF u \in Split THEN Packets - left ELSE 0)
  BY DataFits
<1>2. Packets \in Nat \ {0} /\ Setups(u) \in {0, 1}
  BY KindFacts
<1>3. Body(u, t) /\ Len(t) = Len(s) + 1
  BY <1>1, <1>2, BodyGrows
<1> HIDE DEF t
<1>4. CASE u \in Split
  <2>1. Len(t) = Setups(u) + (Packets - left) + 1
    BY <1>1, <1>3, <1>4
  <2> QED
    BY <1>1, <1>2, <1>3, <1>4, <2>1 DEF AllData, t
<1>5. CASE u \notin Split
  <2>1. Len(t) = Setups(u) + 1
    BY <1>1, <1>2, <1>3, <1>5
  <2> QED
    BY <1>1, <1>2, <1>3, <1>5, <2>1 DEF AllData, t
<1> QED
  BY <1>4, <1>5

\* A pipe's transfer is complete with its data.
LEMMA PipeComplete ==
    ASSUME NEW u \in Urb, u \notin Control, NEW s, AllData(u, s)
    PROVE  Complete(u, s)
<1>1. /\ Body(u, s) /\ Dir(u) # "none" /\ Setups(u) = 0
  BY KindFacts DEF AllData
<1>2. s \in Seq(Stages) /\ Len(s) > 0 /\ \A k \in DOMAIN s : s[k] = Dir(u)
  BY <1>1 DEF AllData, Body
<1>5. s # <<>> /\ Kind[u] # "ctl0"
  BY <1>2, KindFacts
<1>3. Dir(u) = "out" => Len(s) = (IF u \in Split THEN Packets ELSE 1)
  BY <1>1, KindFacts DEF AllData
<1>4. Dir(u) = CASE Kind[u] \in {"ctlin", "bulkin", "intin"} -> "in"
                 [] Kind[u] \in {"ctlout", "bulkout"} -> "out"
                 [] OTHER -> "none"
  BY KindFacts DEF Dir
<1> QED
  BY <1>2, <1>3, <1>4, <1>5 DEF Complete

\* A control transfer is complete with its status.
LEMMA ControlComplete ==
    ASSUME NEW u \in Urb, u \in Control, NEW s, AllData(u, s)
    PROVE  Complete(u, Append(s, Status(u)))
<1> DEFINE t == Append(s, Status(u))
           d == SubSeq(t, 2, Len(t) - 1)
<1>1. Body(u, s) /\ s \in Seq(Stages) /\ Len(s) \in Nat /\ Setups(u) = 1 /\ Status(u) \in Stages
      /\ Packets \in Nat \ {0}
  BY KindFacts DEF AllData, Body
<1>2. /\ t \in Seq(Stages) /\ Len(t) = Len(s) + 1 /\ t[Len(s) + 1] = Status(u)
      /\ \A k \in 1 .. Len(s) : t[k] = s[k]
  BY <1>1
<1> HIDE DEF t
<1>3. CASE Kind[u] = "ctl0"
  <2>1. Dir(u) = "none" /\ Status(u) = "instatus"
    BY <1>3 DEF Dir, Status
  <2>2. Len(s) = 1 /\ s[1] = "setup"
    <3>1. Len(s) = 1
      BY <2>1 DEF AllData
    <3>2. 1 \in 1 .. Len(s)
      BY <3>1
    <3> QED
      BY <1>1, <3>1, <3>2 DEF Body
  <2>3. Len(t) = 2 /\ t[1] = "setup" /\ t[2] = "instatus"
    BY <1>2, <2>1, <2>2
  <2>4. t = <<"setup", "instatus">>
    <3>1. t \in Seq(Stages)
      BY <1>2
    <3> QED
      BY <2>3, <3>1
  <2> QED
    BY <1>3, <2>4 DEF Complete, t
<1>4. CASE Kind[u] # "ctl0"
  <2>1. Dir(u) # "none" /\ Len(s) > 1 /\ s[1] = "setup"
    BY <1>1, <1>4, KindFacts DEF AllData, Body
  <2>2. Len(t) > 2 /\ t[1] = "setup" /\ t[Len(t)] = Status(u)
    BY <1>1, <1>2, <2>1
  <2>3. Len(d) = Len(s) - 1 /\ d # <<>> /\ \A k \in DOMAIN d : k \in 1 .. Len(s) - 1 /\ d[k] = t[k + 1]
    <3>1. Len(t) - 1 = Len(s) /\ Len(s) \in Nat /\ Len(s) > 1 /\ t \in Seq(Stages)
      BY <1>1, <1>2, <2>1
    <3>2. Len(d) = Len(s) - 1 /\ \A k \in 1 .. Len(d) : d[k] = t[2 + k - 1]
      BY <3>1
    <3>3. d \in Seq(Stages)
      BY <1>2, <3>1
    <3> HIDE DEF d
    <3>4. d # <<>> /\ DOMAIN d = 1 .. Len(s) - 1
      BY <3>1, <3>2, <3>3
    <3>5. \A k \in 1 .. Len(s) - 1 : 2 + k - 1 = k + 1
      BY <3>1
    <3> QED
      BY <3>2, <3>4, <3>5
  <2> HIDE DEF d
  <2>4. ASSUME NEW k \in DOMAIN d PROVE d[k] = Dir(u)
    <3>1. k + 1 \in 1 .. Len(s) /\ k + 1 # 1 /\ d[k] = t[k + 1]
      BY <1>1, <2>3
    <3> QED
      BY <1>1, <1>2, <3>1 DEF Body
  <2>5. Dir(u) = "out" => Len(d) = (IF u \in Split THEN Packets ELSE 1)
    BY <1>1, <2>3 DEF AllData
  <2>6. Dir(u) = CASE Kind[u] \in {"ctlin", "bulkin", "intin"} -> "in"
                   [] Kind[u] \in {"ctlout", "bulkout"} -> "out"
                   [] OTHER -> "none"
    BY KindFacts DEF Dir
  <2>7. Complete(u, t)
    BY <1>4, <2>2, <2>3, <2>4, <2>5, <2>6 DEF Complete, Status, d
  <2> QED
    BY <2>7 DEF t
<1> QED
  BY <1>3, <1>4

-----------------------------------------------------------------------------
(* The channel interrupt keeps the trails.                                 *)

\* What a handler notes on its channel, which is off, and in its URB.
LEMMA LoneTrail ==
    ASSUME NEW h, NEW p, NEW a, NEW r, NEW u \in Urb, NEW c \in Chan, Ended(h, p, a, r, u, c), Trail(h, p),
           NEW g, g.hw = h.hw, \A d \in Chan : g.ch[d].urb = h.ch[d].urb,
           \A d \in Chan \ {c} : g.ch[d].stage = h.ch[d].stage,
           \A v \in Urb \ {u} : g.urb[v] = h.urb[v], g.urb[u].error = h.urb[u].error
    PROVE  Trail(g, p)
<1>1. /\ \A d \in Chan : h.ch[d].urb = u => d = c
      /\ h.hw[c].state = "idle" /\ h.urb[u].error = "busy" /\ p[u] \in Open
  BY DEF Ended, Good, Pointing
<1>2. Fresh(u, g.urb[u], p[u])
  BY <1>1 DEF Fresh, Open
<1>3. \A d \in Chan : g.hw[d].state # "idle" => d # c
  BY <1>1
<1> QED
  BY <1>1, <1>2, <1>3, TrailBut DEF Same

\* The split state of a channel is set.
LEMMA SplitTrail ==
    ASSUME NEW h, NEW p, NEW a, NEW r, NEW u \in Urb, NEW c \in Chan, Ended(h, p, a, r, u, c), Trail(h, p),
           NEW b \in BOOLEAN, NEW g, g = [h EXCEPT !.ch[c].csplit = b]
    PROVE  /\ Ended(g, p, a, r, u, c) /\ Trail(g, p)
           /\ g.urb = h.urb /\ g.ch[c].stage = h.ch[c].stage
<1>1. h \in HC
  BY DEF Ended, Good
<1>2. Alike(g, h)
  BY <1>1, StageAlike
<1>3. g.urb = h.urb /\ \A d \in Chan : g.ch[d].stage = h.ch[d].stage
  BY <1>1 DEF HC, ChanRec
<1>4. Ended(g, p, a, r, u, c)
  BY <1>2, EndedAlike
<1>5. /\ g.hw = h.hw /\ \A e \in Chan : g.ch[e].urb = h.ch[e].urb
      /\ g.urb[u].error = h.urb[u].error
  BY <1>2 DEF Alike
<1>6. Trail(g, p)
  BY <1>3, <1>5, LoneTrail
<1> QED
  BY <1>3, <1>4, <1>6

\* The stage of a control transfer is set back.
LEMMA SetupTrail ==
    ASSUME NEW h, NEW p, NEW a, NEW r, NEW u \in Urb, NEW c \in Chan, Ended(h, p, a, r, u, c), Trail(h, p),
           NEW g, g = [h EXCEPT !.ch[c].stage = "setup"]
    PROVE  Ended(g, p, a, r, u, c) /\ Trail(g, p) /\ g.urb = h.urb
<1>1. h \in HC
  BY DEF Ended, Good
<1>2. Alike(g, h)
  BY <1>1, StageAlike
<1>3. g.urb = h.urb /\ \A d \in Chan \ {c} : g.ch[d].stage = h.ch[d].stage
  BY <1>1 DEF HC, ChanRec
<1>4. Ended(g, p, a, r, u, c)
  BY <1>2, EndedAlike
<1> DEFINE f == g
<1>5. /\ f.hw = h.hw /\ \A d \in Chan : f.ch[d].urb = h.ch[d].urb
      /\ \A v \in Urb \ {u} : f.urb[v] = h.urb[v]
      /\ f.urb[u].error = h.urb[u].error
      /\ \A d \in Chan \ {c} : f.ch[d].stage = h.ch[d].stage
  BY <1>2, <1>3 DEF Alike
<1> HIDE DEF f
<1>6. Trail(f, p)
  BY <1>5, LoneTrail
<1> QED
  BY <1>3, <1>4, <1>6 DEF f

\* What counting leaves.
Counted(g, h, u, event) ==
    /\ g.urb[u].seen = h.urb[u].seen /\ g.ch = h.ch
    /\ g.urb[u].left = IF u \in Split /\ event = "xfrc" /\ h.urb[u].left > 0
                       THEN h.urb[u].left - 1 ELSE 0

\* What is left of a URB is counted.
LEMMA MovedTrail ==
    ASSUME NEW h, NEW p, NEW a, NEW r, NEW u \in Urb, NEW c \in Chan, Ended(h, p, a, r, u, c), Trail(h, p),
           NEW event, NEW g, g = Moved(h, u, event)
    PROVE  Ended(g, p, a, r, u, c) /\ Trail(g, p) /\ Counted(g, h, u, event)
<1> DEFINE n == IF u \in Split /\ event = "xfrc" /\ h.urb[u].left > 0 THEN h.urb[u].left - 1 ELSE 0
<1>1. h \in HC
  BY DEF Ended, Good
<1>2. h.urb[u].left \in Int
  BY <1>1 DEF HC, UrbRec
<1>3. n \in Int /\ g = [h EXCEPT !.urb[u].left = n]
  BY <1>2 DEF Moved
<1>8. Alike(g, h)
  BY <1>1, MovedAlike
<1>4. Ended(g, p, a, r, u, c)
  BY <1>8, EndedAlike
<1> HIDE DEF n
<1>5. /\ g.hw = h.hw /\ g.ch = h.ch
      /\ \A v \in Urb \ {u} : g.urb[v] = h.urb[v]
      /\ g.urb[u].error = h.urb[u].error
  BY <1>1, <1>3, LeftFacts
<1>6. g.urb[u].left = n /\ g.urb[u].seen = h.urb[u].seen
  BY <1>1, <1>3, LeftKeeps DEF LeftIs
<1>7. Trail(g, p)
  BY <1>5, LoneTrail
<1> QED
  BY <1>4, <1>5, <1>6, <1>7 DEF n, Counted

\* A packet of data has come or gone, and h counts it.
LEMMA DataTrail ==
    ASSUME NEW h, NEW p, NEW a, NEW r, NEW u \in Urb, NEW c \in Chan, Ended(h, p, a, r, u, c), Trail(h, p),
           NEW s, NEW left, Fits(u, s, Dir(u), left), h.urb[u].seen = Append(s, Dir(u)),
           NEW event \in {"xfrc", "short"}, event = "short" => Dir(u) = "in",
           h.urb[u].left = IF u \in Split /\ event = "xfrc" /\ left > 0 THEN left - 1 ELSE 0
    PROVE  /\ GoesOn(h, u, event) => Trail(Run(h, u, c, Dir(u)), p)
           /\ ~GoesOn(h, u, event) /\ u \notin Control => Trail(Waitup(h, u, "ok"), p)
           /\ ~GoesOn(h, u, event) /\ u \in Control => Trail(Run(h, u, c, Status(u)), p)
<1>1. Good(h, p, a, r) /\ h.ch[c].urb = u
  BY DEF Ended
<1>2. left \in 1 .. Packets /\ Packets \in Nat
  BY DataFits, KindFacts
<1>3. Dir(u) \in Stages /\ Status(u) \in Stages /\ "ok" \in Codes
  BY KindFacts DEF Codes
<1>4. CASE GoesOn(h, u, event)
  <2>1. u \in Split /\ left - 1 > 0 /\ h.urb[u].left = left - 1
    BY <1>2, <1>4 DEF GoesOn
  <2>2. Fits(u, h.urb[u].seen, Dir(u), h.urb[u].left)
    BY <2>1, DataGoesOn
  <2>3. Trail(Run(h, u, c, Dir(u)), p)
    BY <1>1, <1>3, <2>2, RunTrail
  <2> QED
    BY <1>4, <2>3
<1>5. CASE ~GoesOn(h, u, event)
  <2>1. Dir(u) = "out" /\ u \in Split => left = 1
    BY <1>2, <1>5 DEF GoesOn
  <2>2. AllData(u, h.urb[u].seen)
    BY <2>1, DataEnds
  <2>3. CASE u \notin Control
    <3>1. Trail(Waitup(h, u, "ok"), p)
      BY <1>3, <2>2, <2>3, PipeComplete, WaitupTrail
    <3> QED
      BY <1>5, <2>3, <3>1
  <2>4. CASE u \in Control
    <3>1. Fits(u, h.urb[u].seen, Status(u), h.urb[u].left)
      BY <2>2, <2>4 DEF Fits
    <3>2. Trail(Run(h, u, c, Status(u)), p)
      BY <1>1, <1>3, <3>1, RunTrail
    <3> QED
      BY <1>5, <2>4, <3>2
  <2> QED
    BY <2>3, <2>4
<1> QED
  BY <1>4, <1>5

\* A status stage is over.
LEMMA StatusTrail ==
    ASSUME NEW h, NEW p, NEW a, NEW r, NEW u \in Urb, NEW c \in Chan, Ended(h, p, a, r, u, c), Trail(h, p),
           NEW s, u \in Control, AllData(u, s), h.urb[u].seen = Append(s, Status(u))
    PROVE  Trail(Waitup([h EXCEPT !.ch[c].stage = "setup"], u, "ok"), p)
<1> DEFINE f == [h EXCEPT !.ch[c].stage = "setup"]
<1>1. Ended(f, p, a, r, u, c) /\ Trail(f, p) /\ f.urb = h.urb
  BY SetupTrail
<1> HIDE DEF f
<1>2. Complete(u, f.urb[u].seen) /\ "ok" \in Codes
  BY <1>1, ControlComplete DEF Codes
<1>3. Trail(Waitup(f, u, "ok"), p)
  BY <1>1, <1>2, WaitupTrail
<1> QED
  BY <1>3 DEF f

\* XFRC in either handler.
LEMMA DoneTrail ==
    ASSUME NEW h, NEW p, NEW a, NEW r, NEW u \in Urb, NEW c \in Chan, Ended(h, p, a, r, u, c), Trail(h, p),
           NEW ran, ran.event \in {"xfrc", "short"}, ran.stage = h.ch[c].stage,
           EndedWell(u, h.urb[u], ran)
    PROVE  Trail(Done(h, u, c, ran), p)
<1> DEFINE st == ran.stage
           ev == ran.event
           in == st \in {"in", "instatus"}
           left == h.urb[u].left
           g == [h EXCEPT !.ch[c].csplit = FALSE]
           k == Moved(g, u, ev)
           moves == (in /\ st = "in") \/ (~in /\ (u \notin Control \/ h.ch[c].stage = "out"))
<1>2. ev = "short" => st = "in"
  BY DEF EndedWell
<1>3. /\ Ended(g, p, a, r, u, c) /\ Trail(g, p) /\ g.urb = h.urb /\ g.ch[c].stage = st
  <2>1. FALSE \in BOOLEAN
    OBVIOUS
  <2>2. Ended(g, p, a, r, u, c)
    BY <2>1, SplitTrail
  <2>3. Trail(g, p)
    BY <2>1, SplitTrail
  <2>4. g.urb = h.urb
    BY <2>1, SplitTrail
  <2>5. g.ch[c].stage = h.ch[c].stage
    BY <2>1, SplitTrail
  <2> QED
    BY <2>2, <2>3, <2>4, <2>5
<1>4. Done(h, u, c, ran) = LET m == IF moves THEN k ELSE g
                           IN  IF in THEN AfterIn(m, u, c, ev) ELSE AfterOut(m, u, c, ev)
  BY DEF Done
<1> HIDE DEF g
<1>5. /\ Ended(k, p, a, r, u, c) /\ Trail(k, p)
      /\ k.urb[u].seen = h.urb[u].seen /\ k.ch = g.ch
      /\ k.urb[u].left = IF u \in Split /\ ev = "xfrc" /\ left > 0 THEN left - 1 ELSE 0
  <2>1. Ended(k, p, a, r, u, c) /\ Trail(k, p) /\ Counted(k, g, u, ev)
    BY <1>3, MovedTrail
  <2> HIDE DEF k
  <2> QED
    BY <1>3, <2>1 DEF Counted
<1> HIDE DEF k
<1>1. PICK s \in Seq(Stages) : Fits(u, s, st, left) /\ h.urb[u].seen = Append(s, st)
  BY DEF EndedWell
<1>6. CASE st = "setup"
  <2>1. /\ u \in Control
        /\ Fits(u, h.urb[u].seen, CASE Kind[u] = "ctl0"   -> "instatus"
                                    [] Kind[u] = "ctlin"  -> "in"
                                    [] OTHER -> "out", left)
    BY <1>1, <1>6, SetupEnds
  <2>2. ~in /\ ~moves
    BY <1>6, <2>1
  <2> DEFINE next == CASE Kind[u] = "ctl0" -> "instatus" [] Kind[u] = "ctlin" -> "in" [] OTHER -> "out"
  <2>3. next \in Stages
    BY DEF Stages
  <2>4. AfterOut(g, u, c, ev) = Run(g, u, c, next)
    BY <1>3, <1>6, <2>1 DEF AfterOut
  <2> HIDE DEF next
  <2>5. Fits(u, g.urb[u].seen, next, g.urb[u].left)
    BY <1>3, <2>1 DEF next
  <2>6. Trail(Run(g, u, c, next), p)
    BY <1>3, <2>3, <2>5, RunTrail DEF Ended
  <2> QED
    BY <1>4, <2>2, <2>4, <2>6
<1>7. CASE st = Dir(u) /\ st # "none"
  <2>1. st \in {"in", "out"} /\ k.ch[c].stage = st
    BY <1>3, <1>5, <1>7, KindFacts
  <2>2. moves /\ (in <=> st = "in")
    BY <2>1
  <2>3. /\ GoesOn(k, u, ev) => Trail(Run(k, u, c, Dir(u)), p)
        /\ ~GoesOn(k, u, ev) /\ u \notin Control => Trail(Waitup(k, u, "ok"), p)
        /\ ~GoesOn(k, u, ev) /\ u \in Control => Trail(Run(k, u, c, Status(u)), p)
    BY <1>1, <1>2, <1>5, <1>7, DataTrail
  <2>4. CASE st = "in"
    <3>1. Status(u) = "outstatus"
      BY <1>7, <2>4 DEF Status
    <3>2. AfterIn(k, u, c, ev) = IF GoesOn(k, u, ev) THEN Run(k, u, c, Dir(u))
                                 ELSE IF u \in Control THEN Run(k, u, c, Status(u))
                                 ELSE Waitup(k, u, "ok")
      BY <1>7, <2>1, <2>4, <3>1 DEF AfterIn
    <3>3. Done(h, u, c, ran) = AfterIn(k, u, c, ev)
      BY <1>4, <2>2, <2>4
    <3> QED
      BY <2>3, <3>2, <3>3
  <2>5. CASE st = "out"
    <3>1. Status(u) = "instatus"
      BY <1>7, <2>5 DEF Status
    <3>2. AfterOut(k, u, c, ev) = IF GoesOn(k, u, ev) THEN Run(k, u, c, Dir(u))
                                  ELSE IF u \in Control THEN Run(k, u, c, Status(u))
                                  ELSE Waitup(k, u, "ok")
      BY <1>7, <2>1, <2>5, <3>1 DEF AfterOut
    <3>3. Done(h, u, c, ran) = AfterOut(k, u, c, ev)
      BY <1>4, <2>2, <2>5
    <3> QED
      BY <2>3, <3>2, <3>3
  <2> QED
    BY <2>1, <2>4, <2>5
<1>8. CASE st = Status(u) /\ u \in Control /\ AllData(u, s)
  <2> DEFINE f == [g EXCEPT !.ch[c].stage = "setup"]
  <2>1. st \in {"outstatus", "instatus"} /\ ~moves /\ (in <=> st = "instatus")
    BY <1>8, KindFacts
  <2>2. IF in THEN AfterIn(g, u, c, ev) = Waitup(f, u, "ok")
              ELSE AfterOut(g, u, c, ev) = Waitup(f, u, "ok")
    BY <1>3, <1>8, <2>1 DEF AfterIn, AfterOut
  <2>3. Trail(Waitup(f, u, "ok"), p)
    BY <1>1, <1>3, <1>8, StatusTrail
  <2> HIDE DEF f
  <2> QED
    BY <1>4, <2>1, <2>2, <2>3
<1> QED
  BY <1>1, <1>6, <1>7, <1>8 DEF Fits

\* NAK, ACK and NYET.
LEMMA HandshakeTrail ==
    ASSUME NEW h, NEW p, NEW a, NEW r, NEW u \in Urb, NEW c \in Chan, Ended(h, p, a, r, u, c), Trail(h, p),
           NEW event, Fits(u, h.urb[u].seen, h.ch[c].stage, h.urb[u].left)
    PROVE  Trail(Handshake(h, u, c, event), p)
<1> DEFINE split(b) == [h EXCEPT !.ch[c].csplit = b]
           s == Current(h, u, c)
<1>1. \A b \in BOOLEAN : /\ Ended(split(b), p, a, r, u, c) /\ Trail(split(b), p)
                         /\ split(b).urb = h.urb /\ split(b).ch[c].stage = h.ch[c].stage
  BY SplitTrail
<1>2. s = h.ch[c].stage
  <2>1. CASE u \in Control
    BY <2>1 DEF Current
  <2>2. CASE u \notin Control
    <3>1. First(u) = Dir(u)
      BY <2>2, KindFacts
    <3> QED
      BY <2>2, <3>1 DEF Current, Fits
  <2> QED
    BY <2>1, <2>2
<1>3. h.ch[c].stage \in Stages /\ "nak" \in Codes
  BY DEF Ended, Good, HC, ChanRec, Codes
<1>4. \A b \in BOOLEAN : Current(split(b), u, c) = s
  BY <1>1 DEF Current
<1>5. Handshake(h, u, c, event) \in {Run(split(TRUE), u, c, s), Run(split(FALSE), u, c, s),
                                     Waitup(split(FALSE), u, "nak"), h, Waitup(h, u, "nak")}
  BY DEF Handshake
<1> HIDE DEF s, split
<1>6. ASSUME NEW b \in BOOLEAN PROVE Trail(Run(split(b), u, c, s), p)
  <2>1. Good(split(b), p, a, r) /\ split(b).ch[c].urb = u
    BY <1>1 DEF Ended
  <2>2. Fits(u, split(b).urb[u].seen, s, split(b).urb[u].left)
    BY <1>1, <1>2
  <2> QED
    BY <1>1, <1>2, <1>3, <2>1, <2>2, RunTrail
<1>7. Trail(Waitup(split(FALSE), u, "nak"), p) /\ Trail(Waitup(h, u, "nak"), p)
  BY <1>1, <1>3, WaitupTrail
<1> QED
  BY <1>5, <1>6, <1>7

LEMMA HandledTrail ==
    ASSUME NEW h, NEW p, NEW a, NEW r, NEW u \in Urb, NEW c \in Chan, Ended(h, p, a, r, u, c), Trail(h, p),
           NEW ran \in HwRec, ran.state = "halted", OnTrack(u, h.urb[u], h.ch[c], ran)
    PROVE  Trail(Handled(h, u, c, ran), p)
<1>1. CASE ran.event \in {"xfrc", "short"}
  <2>1. Handled(h, u, c, ran) = Done(h, u, c, ran)
    BY <1>1 DEF Handled
  <2>2. Trail(Done(h, u, c, ran), p)
    BY <1>1, DoneTrail DEF OnTrack, Over
  <2> QED
    BY <2>1, <2>2
<1>2. CASE ran.event \in {"nak", "ack", "nyet"}
  <2>1. Handled(h, u, c, ran) = Handshake(h, u, c, ran.event)
    BY <1>2 DEF Handled
  <2>2. Fits(u, h.urb[u].seen, h.ch[c].stage, h.urb[u].left)
    BY <1>2 DEF OnTrack, Over
  <2> QED
    BY <2>1, <2>2, HandshakeTrail
<1>3. CASE ran.event \notin {"xfrc", "short", "nak", "ack", "nyet"}
  <2>1. Handled(h, u, c, ran) = Waitup(h, u, ran.event)
    BY <1>3 DEF Handled
  <2>2. ran.event \in Codes /\ ran.event # "busy" /\ ran.event # "ok"
    BY Names DEF HwRec, Codes
  <2> QED
    BY <2>1, <2>2, WaitupTrail
<1> QED
  BY <1>1, <1>2, <1>3

-----------------------------------------------------------------------------
(* Every step keeps the trails.                                            *)

LEMMA InitTrail == Init => Trail(hc, pc)
<1> SUFFICES ASSUME Init PROVE Trail(hc, pc)
  OBVIOUS
<1>1. \A c \in Chan : hc.hw[c].state = "idle"
  BY DEF Init, Off
<1>2. \A u \in Urb : pc[u] = "idle" /\ hc.urb[u].error = "unset"
  BY DEF Init
<1> QED
  BY <1>1, <1>2 DEF Trail, Fresh

LEMMA SubmitTrail ==
    ASSUME NEW u \in Urb, UrbInv, Trail(hc, pc), Submit(u) PROVE Trail(hc', pc')
<1> DEFINE e == [hc EXCEPT !.urb[u].timed = u \in Sync]
           g == [e EXCEPT !.urb[u].left = Packets]
<1>1. hc' = g /\ Goes(u, "alloc") /\ hc.urb[u].error # "busy" /\ hc \in HC
  BY DEF Submit, UrbInv, Good
<1>2. Moves(pc, pc', u, "alloc")
  BY <1>1, GoesMoves DEF Places
<1>3. /\ e \in HC /\ e.hw = hc.hw /\ e.ch = hc.ch /\ e.urb[u].error = hc.urb[u].error
      /\ \A v \in Urb \ {u} : e.urb[v] = hc.urb[v]
  <2>1. (u \in Sync) \in BOOLEAN
    OBVIOUS
  <2> QED
    BY <1>1, <2>1 DEF HC, UrbRec
<1>4. e.urb[u].seen = hc.urb[u].seen
  BY <1>1 DEF HC, UrbRec
<1> HIDE DEF e
<1>5. Packets \in Int
  BY UrbAssumption DEF UrbAssumption
<1>6. /\ g.hw = hc.hw /\ g.ch = hc.ch /\ g.urb[u].error = hc.urb[u].error
      /\ \A v \in Urb \ {u} : g.urb[v] = hc.urb[v]
  BY <1>3, <1>5, LeftFacts
<1>7. g.urb[u].left = Packets /\ g.urb[u].seen = hc.urb[u].seen
  BY <1>3, <1>4, LeftKeeps DEF LeftIs
<1> HIDE DEF g
<1>8. ASSUME NEW d \in Chan, hc.ch[d].urb = u PROVE hc.hw[d].state = "idle"
  BY <1>1, <1>8, Names DEF UrbInv, Good, Running, Runs, Open, Killed
<1>9. Fresh(u, g.urb[u], pc'[u])
  BY <1>2, <1>6, <1>7 DEF Fresh, Moves, Trail
<1>10. Trail(g, pc')
  BY <1>2, <1>6, <1>8, <1>9, TrailBut DEF Moves, Same
<1> QED
  BY <1>1, <1>10

LEMMA ChanAllocTrail ==
    ASSUME NEW u \in Urb, UrbInv, Trail(hc, pc), ChanAlloc(u) PROVE Trail(hc', pc')
<1>1. pc[u] = "alloc" /\ hc \in HC
  BY DEF ChanAlloc, UrbInv, Good
<1>2. CASE Goes(u, "idle") /\ UNCHANGED hc
  <2>1. Moves(pc, pc', u, "idle")
    BY <1>2, GoesMoves DEF Places
  <2> QED
    BY <1>2, <2>1, TrailSame DEF Moves, Same
<1>3. ASSUME NEW c \in Chan, hc' = Taken(hc, c), Goes(u, "attach") PROVE Trail(hc', pc')
  <2>1. Moves(pc, pc', u, "attach")
    BY <1>3, GoesMoves DEF Places
  <2> DEFINE g == Taken(hc, c)
  <2>2. g.hw = hc.hw /\ g.urb = hc.urb /\ \A d \in Chan : g.ch[d].urb = hc.ch[d].urb
    BY <1>1, TakenFacts
  <2>3. \A d \in Chan : g.ch[d].stage = hc.ch[d].stage
    BY <1>1, LentKeeps
  <2> HIDE DEF g
  <2>4. Trail(g, pc')
    BY <1>1, <2>1, <2>2, <2>3, TrailSame DEF Moves, Same
  <2> QED
    BY <1>3, <2>4 DEF g
<1> QED
  BY <1>2, <1>3 DEF ChanAlloc

LEMMA AttachTrail ==
    ASSUME NEW u \in Urb, UrbInv, Served, Trail(hc, pc), Attach(u)
    PROVE  Trail(hc', pc')
<1> DEFINE c == at[u]
           g == Attached(hc, u, c)
<1>1. pc[u] = "attach" /\ hc' = g /\ Goes(u, "start") /\ hc \in HC /\ c \in Chan
  BY DEF Attach, UrbInv, Good
<1>2. Moves(pc, pc', u, "start")
  BY <1>1, GoesMoves DEF Places
<1>3. hc.ch[c].urb = None /\ hc.urb[u].hcpriv = None
  BY <1>1 DEF UrbInv, Good, Reserved, Knows
<1>4. hc.hw[c].state = "idle"
  BY <1>1, <1>3, ServedFacts, Names DEF Runs, Open
<1>5. \A d \in Chan : hc.ch[d].urb # u
  BY <1>3, Names DEF UrbInv, Good, Pointing
<1>6. hc.urb[u].left = Packets
  BY <1>1 DEF Trail, Fresh
<1> HIDE DEF c
<1>7. /\ g.hw = hc.hw /\ g.urb[u].error = "busy"
      /\ \A d \in Chan \ {c} : g.ch[d] = hc.ch[d]
      /\ \A v \in Urb \ {u} : g.urb[v] = hc.urb[v]
  BY <1>1, AttachedFacts
<1>8. g.urb[u].seen = <<>> /\ g.urb[u].left = Packets
  BY <1>1, <1>6, AttachedKeeps
<1> HIDE DEF g
<1>9. Fresh(u, g.urb[u], pc'[u])
  BY <1>7, <1>8 DEF Fresh
<1>10. Trail(g, pc')
  BY <1>1, <1>2, <1>4, <1>5, <1>7, <1>9, TrailBut DEF Moves, Same
<1> QED
  BY <1>1, <1>10

LEMMA StartTransferTrail ==
    ASSUME NEW u \in Urb, UrbInv, Trail(hc, pc), StartTransfer(u) PROVE Trail(hc', pc')
<1> DEFINE c == at[u]
           l == IF u \in Sync THEN "wait" ELSE "idle"
<1>1. pc[u] = "start" /\ hc' = Run(hc, u, c, First(u)) /\ Goes(u, l)
  BY DEF StartTransfer, Start
<1>2. l \in Open /\ l \in Places
  BY DEF Places, Open
<1>3. Moves(pc, pc', u, l)
  BY <1>1, <1>2, GoesMoves
<1>4. Aims(at, at, u, c) /\ c \in Chan
  BY DEF UrbInv, Good, Aims
<1>5. hc.ch[c].urb = u
  BY <1>1, <1>4 DEF UrbInv, Good, Knows, Pointing
<1>6. Good(hc, pc', at, past.raced)
  BY <1>1, <1>3, <1>4, StaysGood DEF UrbInv
<1>7. Fits(u, hc.urb[u].seen, First(u), hc.urb[u].left)
  <2>1. hc.urb[u].seen = <<>> /\ hc.urb[u].left = Packets
    BY <1>1 DEF Trail, Fresh
  <2> QED
    BY <2>1, FirstFits
<1> HIDE DEF l
<1>8. Trail(hc, pc')
  BY <1>2, <1>3, TrailSame DEF Moves, Same, Open
<1> HIDE DEF c
<1>9. Trail(Run(hc, u, c, First(u)), pc')
  BY <1>4, <1>5, <1>6, <1>7, <1>8, FirstStage, RunTrail
<1> QED
  BY <1>1, <1>9

LEMMA SemTakeTrail ==
    ASSUME NEW u \in Urb, UrbInv, Trail(hc, pc), SemTake(u) PROVE Trail(hc', pc')
<1> DEFINE c == at[u]
           g == [hc EXCEPT !.ch[c].sem = 0]
<1>1. hc' = g /\ Goes(u, "woken") /\ hc \in HC /\ c \in Chan
  BY DEF SemTake, UrbInv, Good
<1>2. Moves(pc, pc', u, "woken")
  BY <1>1, GoesMoves DEF Places
<1> HIDE DEF c
<1>3. g.hw = hc.hw /\ g.urb = hc.urb /\ \A d \in Chan : g.ch[d].urb = hc.ch[d].urb
  <2>1. 0 \in 0 .. 1
    OBVIOUS
  <2> QED
    BY <1>1, <2>1, SemFacts
<1>4. \A d \in Chan : g.ch[d].stage = hc.ch[d].stage
  BY <1>1, LentKeeps
<1> HIDE DEF g
<1>5. Trail(g, pc')
  BY <1>2, <1>3, <1>4, TrailSame DEF Moves, Same
<1> QED
  BY <1>1, <1>5

LEMMA ClearTimeoutTrail ==
    ASSUME NEW u \in Urb, UrbInv, Trail(hc, pc), ClearTimeout(u) PROVE Trail(hc', pc')
<1> DEFINE g == [hc EXCEPT !.urb[u].timed = FALSE]
<1>1. hc \in HC
  BY DEF UrbInv, Good
<1>2. hc' = g
  BY DEF ClearTimeout
<1>3. Moves(pc, pc', u, "free") \/ Moves(pc, pc', u, "check")
  BY GoesMoves DEF Places, ClearTimeout
<1>4. /\ g.hw = hc.hw /\ g.ch = hc.ch
      /\ \A v \in Urb \ {u} : g.urb[v] = hc.urb[v]
      /\ g.urb[u].error = hc.urb[u].error
  BY <1>1 DEF HC, UrbRec
<1>5. Same(g, hc, u)
  BY <1>1, FieldKeeps
<1> HIDE DEF g
<1>6. Trail(g, pc')
  BY <1>3, <1>4, <1>5, TrailSame DEF Moves, Same
<1> QED
  BY <1>2, <1>6

\* dwc2_chan_free leaves every trail.
LEMMA FreeTrail ==
    ASSUME NEW h \in HC, NEW c \in Chan, NEW p, Trail(h, p) PROVE Trail(Free(h, c), p)
<1> DEFINE g == Free(h, c)
<1>1. /\ g.hw = h.hw /\ g.ch[c].urb = None
      /\ \A d \in Chan \ {c} : g.ch[d] = h.ch[d]
  BY FreeFacts
<1>2. \A v \in Urb : Same(g, h, v) /\ g.urb[v].error = h.urb[v].error
  BY FreeKeeps
<1> HIDE DEF g
<1>3. \A u \in Urb : Trail(g, p)
  BY <1>1, <1>2, Names, TrailSame
<1>4. CASE Urb = {}
  BY <1>4 DEF Trail
<1> QED
  BY <1>3, <1>4 DEF g

LEMMA FreeChanTrail ==
    ASSUME NEW u \in Urb, UrbInv, Trail(hc, pc), FreeChan(u) PROVE Trail(hc', pc')
<1> DEFINE c == at[u]
<1>1. hc' = Free(hc, c) /\ Goes(u, "idle") /\ hc \in HC /\ c \in Chan
  BY DEF FreeChan, UrbInv, Good
<1>2. Moves(pc, pc', u, "idle")
  BY <1>1, GoesMoves DEF Places
<1>3. Trail(hc, pc')
  BY <1>2, TrailSame DEF Moves, Same
<1> QED
  BY <1>1, <1>3, FreeTrail

LEMMA KillTrail ==
    ASSUME UrbInv, Trail(hc, pc), NEW u \in Urb, Kill(u) PROVE Trail(hc', pc)
<1> DEFINE c == hc.urb[u].hcpriv
           k == Halted(hc, c)
           h == [k EXCEPT !.urb[u].error = "shutdown"]
<1>2. hc \in HC
  BY DEF UrbInv, Good
<1>3. CASE UNCHANGED hc
  BY <1>3
<1>4. CASE c # None /\ hc' = IF h.urb[u].timed THEN [h EXCEPT !.ch[c].sem = 1] ELSE Free(h, c)
  <2>1. c \in Chan /\ "shutdown" \in Codes
    BY <1>2, <1>4 DEF HC, UrbRec, Codes
  <2> HIDE DEF c
  <2>2. k \in HC /\ k.ch = hc.ch /\ k.urb = hc.urb
        /\ \A d \in Chan : k.hw[d].state # "idle" => k.hw[d] = hc.hw[d]
    <3>1. CASE hc.hw[c].state = "busy"
      BY <1>2, <2>1, <3>1, OffFacts DEF Halted
    <3>2. CASE hc.hw[c].state # "busy"
      BY <1>2, <3>2 DEF Halted
    <3> QED
      BY <3>1, <3>2
  <2> HIDE DEF k
  <2>3. /\ h \in HC /\ h.hw = k.hw /\ h.ch = k.ch
        /\ \A v \in Urb \ {u} : h.urb[v] = k.urb[v]
        /\ h.urb[u].error = "shutdown"
    BY <1>2, <2>1, <2>2, CodedFacts
  <2>4. Same(h, k, u)
    BY <1>2, <2>2, CodedKeeps
  <2> HIDE DEF h
  <2>5. Trail(h, pc)
    BY <1>2, <2>2, <2>3, <2>4, TrailSame DEF Same
  <2>6. Trail(Free(h, c), pc)
    BY <2>1, <2>3, <2>5, FreeTrail
  <2> DEFINE m == [h EXCEPT !.ch[c].sem = 1]
  <2>7. m.hw = h.hw /\ m.urb = h.urb /\ \A d \in Chan : m.ch[d].urb = h.ch[d].urb
    <3>1. 1 \in 0 .. 1
      OBVIOUS
    <3> QED
      BY <2>1, <2>3, <3>1, SemFacts
  <2>8. \A d \in Chan : m.ch[d].stage = h.ch[d].stage
    BY <2>1, <2>3, LentKeeps
  <2> HIDE DEF m
  <2>9. Trail(m, pc)
    BY <1>2, <2>5, <2>7, <2>8, TrailSame DEF Same
  <2> QED
    BY <1>4, <2>6, <2>9 DEF m
<1> QED
  BY <1>3, <1>4 DEF Kill

LEMMA KillOwnTrail ==
    ASSUME NEW u \in Urb, UrbInv, Trail(hc, pc), KillOwn(u) PROVE Trail(hc', pc')
<1>1. Kill(u) /\ Goes(u, "idle")
  BY DEF KillOwn
<1>2. Moves(pc, pc', u, "idle")
  BY <1>1, GoesMoves DEF Places
<1>3. Trail(hc', pc)
  BY <1>1, KillTrail
<1> DEFINE h == hc'
<1> HIDE DEF h
<1>4. Trail(h, pc) => Trail(h, pc')
  BY <1>2, TrailSame DEF Moves, Same
<1> QED
  BY <1>3, <1>4 DEF h

LEMMA KillOtherTrail ==
    ASSUME UrbInv, Trail(hc, pc), KillOther PROVE Trail(hc', pc')
<1>1. killer \in Urb /\ Kill(killer) /\ UNCHANGED pc
  BY Names DEF KillOther, UrbInv, KillerKnows
<1> QED
  BY <1>1, KillTrail

\* A wait runs out, or its thread looks at the URB: the tables stay.
LEMMA LooksTrail ==
    ASSUME NEW u \in Urb, UrbInv, Trail(hc, pc), Expire(u) \/ GiveUp(u) PROVE Trail(hc', pc')
<1>1. PICK l \in {"expired", "idle", "kill"} : Goes(u, l)
  BY DEF Expire, GiveUp
<1>2. Moves(pc, pc', u, l)
  BY <1>1, GoesMoves DEF Places
<1>3. Trail(hc, pc')
  BY <1>2, TrailSame DEF Moves, Same
<1> QED
  BY <1>3 DEF Expire, GiveUp

LEMMA IrqTrail ==
    ASSUME NEW c \in Chan, UrbInv, Trail(hc, pc), Irq(c) PROVE Trail(hc', pc')
<1> DEFINE ran == hc.hw[c]
           u == hc.ch[c].urb
           h == [hc EXCEPT !.hw[c] = Off]
<1>1. ran.state = "halted" /\ ran \in HwRec /\ hc \in HC /\ UNCHANGED pc
  BY DEF Irq, UrbInv, Good, HC
<1>2. CASE u = None
  BY <1>1, <1>2 DEF Irq
<1>3. CASE u # None
  <2>1. Runs(hc, pc, c)
    BY <1>1, <1>3 DEF UrbInv, Good, Running, Killed
  <2>2. u \in Urb /\ hc.urb[u].error = "busy" /\ pc[u] \in Open
    BY <2>1 DEF Runs, Open
  <2>3. hc' = Handled(h, u, c, ran)
    BY <1>3 DEF Irq
  <2>4. Good(h, pc, at, past.raced)
    BY OffGood DEF UrbInv
  <2>5. /\ h.ch = hc.ch /\ h.urb = hc.urb /\ h.hw[c].state = "idle"
        /\ \A d \in Chan \ {c} : h.hw[d] = hc.hw[d]
    BY <1>1, OffFacts
  <2>6. OnTrack(u, hc.urb[u], hc.ch[c], ran)
    BY <1>1, <2>2 DEF Trail
  <2> HIDE DEF ran, h
  <2>7. Ended(h, pc, at, past.raced, u, c)
    BY <2>2, <2>4, <2>5 DEF Ended
  <2> HIDE DEF u
  <2>8. Trail(h, pc)
    BY <2>2, <2>5, TrailSame DEF Same
  <2>9. Trail(Handled(h, u, c, ran), pc)
    BY <1>1, <2>2, <2>5, <2>6, <2>7, <2>8, HandledTrail
  <2> QED
    BY <1>1, <2>3, <2>9
<1> QED
  BY <1>2, <1>3

\* What a URB has seen is never too long to be noted.
LEMMA FitsLength ==
    ASSUME NEW u \in Urb, NEW s, NEW stage, NEW left, Fits(u, s, stage, left)
    PROVE  s \in Seq(Stages) /\ Len(s) < Packets + 2
<1>1. Packets \in Nat \ {0} /\ Setups(u) \in {0, 1}
  BY KindFacts
<1>2. CASE s = <<>>
  BY <1>1, <1>2
<1>3. CASE /\ stage = Dir(u) /\ Body(u, s) /\ left \in 1 .. Packets
           /\ Len(s) = Setups(u) + (IF u \in Split THEN Packets - left ELSE 0)
  BY <1>1, <1>3 DEF Body
<1>4. CASE AllData(u, s)
  BY <1>1, <1>4 DEF AllData, Body
<1> QED
  BY <1>2, <1>3, <1>4 DEF Fits

LEMMA HardwareTrail ==
    ASSUME NEW c \in Chan, NEW event \in Events, UrbInv, Trail(hc, pc), Hardware(c, event)
    PROVE  Trail(hc', pc')
<1> DEFINE ran == hc.hw[c]
           u == ran.urb
           old == hc.urb[u].seen
           x == IF event \in {"xfrc", "short"} /\ Len(old) < Packets + 2
                THEN Append(old, ran.stage) ELSE old
           f == [[hc EXCEPT !.hw[c].state = "halted"] EXCEPT !.hw[c].event = event]
           g == [f EXCEPT !.urb[u].seen = x]
<1>1. ran.state = "busy" /\ Ends(u, ran.stage, event) /\ UNCHANGED pc /\ hc' = g /\ hc \in HC
  BY DEF Hardware, UrbInv, Good
<1>2. Runs(hc, pc, c)
  BY <1>1 DEF UrbInv, Good, Running, Killed
<1>3. u \in Urb /\ hc.ch[c].urb = u /\ hc.urb[u].error = "busy" /\ pc[u] \in Open
  BY <1>2 DEF Runs, Open
<1>4. \A d \in Chan : hc.ch[d].urb = u => d = c
  BY <1>3 DEF UrbInv, Good, Pointing
<1>5. /\ ran.stage = hc.ch[c].stage
      /\ Fits(u, old, ran.stage, hc.urb[u].left)
  BY <1>1, <1>3 DEF Trail, OnTrack, Over
<1>6. old \in Seq(Stages) /\ Len(old) < Packets + 2 /\ ran.stage \in Stages
  <2>1. ran.stage \in Stages
    BY <1>1 DEF HC, HwRec
  <2> QED
    BY <1>3, <1>5, <2>1, FitsLength
<1>7. x = IF event \in {"xfrc", "short"} THEN Append(old, ran.stage) ELSE old
  BY <1>6
<1>8. x \in Seq(Stages)
  BY <1>6, <1>7
<1>9. /\ f \in HC /\ f.ch = hc.ch /\ f.urb = hc.urb
      /\ f.hw[c].state = "halted" /\ f.hw[c].event = event /\ f.hw[c].stage = ran.stage
      /\ \A d \in Chan \ {c} : f.hw[d] = hc.hw[d]
  <2> DEFINE e == [hc EXCEPT !.hw[c].state = "halted"]
  <2>1. /\ e \in HC /\ e.ch = hc.ch /\ e.urb = hc.urb
        /\ e.hw[c].state = "halted" /\ e.hw[c].stage = ran.stage
        /\ \A d \in Chan \ {c} : e.hw[d] = hc.hw[d]
    BY <1>1 DEF HC, HwRec
  <2>2. f = [e EXCEPT !.hw[c].event = event]
    OBVIOUS
  <2> HIDE DEF e, f, ran
  <2>3. /\ f \in HC /\ f.ch = e.ch /\ f.urb = e.urb
        /\ f.hw[c].state = e.hw[c].state /\ f.hw[c].event = event
        /\ f.hw[c].stage = e.hw[c].stage
        /\ \A d \in Chan \ {c} : f.hw[d] = e.hw[d]
    BY <2>1, <2>2, SMTT(30) DEF HC, HwRec
  <2> QED
    BY <2>1, <2>3
<1> HIDE DEF f, x
<1>10. /\ g.hw = f.hw /\ g.ch = f.ch /\ g.urb[u].error = f.urb[u].error
       /\ \A v \in Urb \ {u} : g.urb[v] = f.urb[v]
  <2> HIDE DEF ran, u
  <2> QED
    BY <1>3, <1>8, <1>9, SeenFacts
<1>11. g.urb[u].seen = x /\ g.urb[u].left = hc.urb[u].left
  <2>1. g.urb[u].seen = x /\ g.urb[u].left = f.urb[u].left
    BY <1>3, <1>9, SeenKeeps DEF SeenIs
  <2> QED
    BY <1>9, <2>1
<1> HIDE DEF g
<1>12. OnTrack(u, g.urb[u], g.ch[c], g.hw[c])
  <2>1. g.hw[c].stage = ran.stage /\ g.hw[c].event = event /\ g.hw[c].state = "halted"
        /\ g.ch[c].stage = ran.stage
    BY <1>5, <1>9, <1>10
  <2>2. CASE event \in {"xfrc", "short"}
    <3>1. g.urb[u].seen = Append(old, ran.stage) /\ Fits(u, old, ran.stage, g.urb[u].left)
      BY <1>5, <1>7, <1>11, <2>2
    <3>2. event = "short" => ran.stage = "in"
      BY <1>1 DEF Ends
    <3> HIDE DEF old, ran, u
    <3>3. EndedWell(u, g.urb[u], g.hw[c])
      BY <1>6, <2>1, <3>1, <3>2 DEF EndedWell
    <3> QED
      BY <2>1, <2>2, <3>3 DEF OnTrack, Over
  <2>3. CASE event \notin {"xfrc", "short"}
    BY <1>5, <1>7, <1>11, <2>1, <2>3 DEF OnTrack, Over
  <2> QED
    BY <2>2, <2>3
<1>13. Fresh(u, g.urb[u], pc[u])
  BY <1>3, <1>9, <1>10 DEF Fresh, Open
<1>14. \A v \in Urb \ {u} : g.urb[v] = hc.urb[v]
  BY <1>9, <1>10
<1>15. \A d \in Chan : /\ g.ch[d] = hc.ch[d]
                       /\ d # c => g.hw[d] = hc.hw[d]
  BY <1>9, <1>10
<1> HIDE DEF u
<1>16. Trail(g, pc)
  BY <1>3, <1>4, <1>12, <1>13, <1>14, <1>15, TrailBut DEF Same
<1> QED
  BY <1>1, <1>16 DEF u

LEMMA ThreadTrail ==
    ASSUME NEW u \in Urb, UrbInv, Served, Trail(hc, pc), Thread(u)
    PROVE  Trail(hc', pc')
  BY SubmitTrail, ChanAllocTrail, AttachTrail, StartTransferTrail, SemTakeTrail,
     LooksTrail, ClearTimeoutTrail, FreeChanTrail DEF Thread

LEMMA StepTrail ==
    ASSUME UrbInv, Trail(hc, pc), [Next]_vars PROVE Trail(hc', pc')
<1>1. ASSUME NEW u \in Urb, KillStarts(u) PROVE Trail(hc', pc')
  BY <1>1 DEF KillStarts
<1>2. CASE Connection
  BY <1>2 DEF Connection
<1>3. CASE UNCHANGED vars
  BY <1>3 DEF vars
<1> QED
  BY <1>1, <1>2, <1>3, ThreadTrail, KillOwnTrail, KillOtherTrail, IrqTrail, HardwareTrail DEF Next

-----------------------------------------------------------------------------
(* What holds of the pool, for any number of channels and requests.        *)

\* If only owners kill, on one core, or with more cores nothing is killed and no
\* wait runs out: chan->urb and urb->hcpriv always agree, between the critical
\* sections of any number of submissions, in a callback that submits again and
\* while a thread gives up its request, until a completion comes too late.
THEOREM UrbAttachment == ASSUME Disciplined PROVE Spec => []Attachment
<1>1. PoolInv => Attachment
  BY DEF PoolInv, UrbInv, Good, Pointing, Attachment
<1> QED
  BY <1>1, Inductive, PTL

\* ... and no channel of chan_pool is lost or lent twice, also when they are
\* all taken.
THEOREM UrbPoolAccounts == ASSUME Disciplined PROVE Spec => []PoolAccounts
<1>1. PoolInv => PoolAccounts
  <2> SUFFICES ASSUME UrbInv, NEW c \in Chan
               PROVE  (\E u \in Urb : hc.urb[u].hcpriv = c) <=> hc.ch[c].urb # None
    BY DEF PoolInv, PoolAccounts, UrbInv, Good, Lent
  <2>1. hc.ch[c].urb \in Urb \cup {None}
    BY DEF UrbInv, Good, HC, ChanRec
  <2> QED
    BY <2>1, Names DEF UrbInv, Good, Pointing
<1> QED
  BY <1>1, Inductive, PTL

\* ... and a thread that dwc2_urb_waitup has woken finds its own request over
\* ("we can free chan when waitsem is done").
THEOREM UrbFreedWhenDone == ASSUME Disciplined PROVE Spec => []FreedWhenDone
<1>1. PoolInv => FreedWhenDone
  BY DEF PoolInv, UrbInv, Good, Knows, FreedWhenDone
<1> QED
  BY <1>1, Inductive, PTL

\* ... and dwc2_chan_free at the end of usbh_submit_urb frees the channel of
\* that request and no other's.
THEOREM UrbFreesOwnChannel == ASSUME Disciplined PROVE Spec => []FreesOwnChannel
<1>1. PoolInv => FreesOwnChannel
  <2> SUFFICES ASSUME UrbInv, NEW u \in Urb, pc[u] = "free"
               PROVE  /\ hc.ch[at[u]].urb \in {u, None}
                      /\ \A v \in Urb : pc[v] = "attach" => at[v] # at[u]
    BY DEF PoolInv, FreesOwnChannel
  <2>1. hc.ch[at[u]].urb = u
    BY DEF UrbInv, Good, Knows, Pointing
  <2> QED
    BY <2>1, Names DEF UrbInv, Good, Reserved
<1> QED
  BY <1>1, Inductive, PTL

\* ... and a URB that ends with errorcode 0 has gone through all of its own
\* stages in order: setup, every packet of its data and the status, with a
\* split transaction started over any number of times, or the same URB
\* submitted again from its callback, and whoever gives up on which request.
THEOREM UrbSuccessIsComplete == ASSUME Disciplined PROVE Spec => []SuccessIsComplete
<1> DEFINE TrailInv == PoolInv /\ (~past.stale => Trail(hc, pc))
<1>1. Init => TrailInv
  BY InitGood, InitTrail DEF Init, PoolInv
<1>2. TrailInv /\ [Next]_vars => TrailInv'
  <2> SUFFICES ASSUME TrailInv, [Next]_vars PROVE TrailInv'
    OBVIOUS
  <2>1. past' \in [stale : BOOLEAN, raced : BOOLEAN] /\ (past.stale => past'.stale)
    BY PastStays DEF PoolInv
  <2>2. ~past'.stale => UrbInv'
    BY <2>1, StepInv DEF PoolInv
  <2>3. ~past'.stale => Trail(hc', pc')
    BY <2>1, StepTrail DEF PoolInv
  <2> QED
    BY <2>1, <2>2, <2>3 DEF PoolInv
<1>3. TrailInv => SuccessIsComplete
  BY DEF Trail, Fresh, SuccessIsComplete
<1> QED
  BY <1>1, <1>2, <1>3, PTL DEF Spec

\* ... and no interrupt handler meets a channel without a URB (chan->urb is
\* never checked) and no pointer that has gone is followed, until some
\* usbh_kill_urb meets a transfer that has just ended.
THEOREM UrbNoFault == ASSUME Disciplined PROVE Spec => []NoFault
<1>1. PoolInv => NoFault
  BY DEF PoolInv, UrbInv, NoFault
<1> QED
  BY <1>1, Inductive, PTL
=============================================================================
