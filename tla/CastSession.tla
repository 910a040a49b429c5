----------------------------- MODULE CastSession -----------------------------
(***************************************************************************)
(* A cast as FCastMenuProvider (src/clients/nautilus/fcast_nautilus.py)   *)
(* runs it, and what the receiver sees.  Everything in the extension runs  *)
(* on Nautilus's GLib main loop, one callback at a time, except that       *)
(* get_local_ip_address's dialog.run() (line 241) iterates the main loop   *)
(* inside the callback: timers and menu activations are dispatched there,  *)
(* and a dialog opened meanwhile must return before the one below it.      *)
(*                                                                         *)
(* cast_to_host (196-211) reads selected_file_path, gives up without a     *)
(* MIME type, and start_web_server (258-275) picks a port that is free now *)
(* (find_free_port, 250-256), asks for a local IP, spawns run_http_server  *)
(* in a detached process whatever the IP, and returns a URL or None; a     *)
(* one-second timer then sends the Play command (notify_fcast_server,      *)
(* 277-302).  The spawned server (93-110) binds (ip, port) when its        *)
(* interpreter is up: before or after the timer.  Other processes may take *)
(* ports meanwhile.  The receiver handles Play commands in order and       *)
(* fetches each URL once; what a listening server answers is MediaServer's *)
(* business (it implements FileResponse), so here a fetch yields the file  *)
(* of whichever server owns the address.                                   *)
(***************************************************************************)
EXTENDS Integers, SequencesExt

CONSTANTS
    Files,         \* files the user may select
    MimeKnown,     \* files mimetypes.guess_type gives a type for
    Ports,         \* ports the kernel may hand out
    Ips,           \* local IPv4 addresses
    IpChoices,     \* sets of them on the receiver's subnet a cast may find
    MaxCasts,      \* bound on cast_to_host activations
    MaxOther,      \* bound on ports other processes take
    NoFile, NoIp, NoUrl, Wildcard, Other

ASSUME MimeKnown \subseteq Files /\ IpChoices \subseteq SUBSET Ips
ASSUME MaxCasts \in Nat /\ MaxOther \in Nat

VARIABLES
    selected,   \* self.selected_file_path
    menu,       \* the file the open "Cast To" menu was built for, or NoFile
    casts,      \* one record per cast_to_host that got past the MIME check
    dialogs,    \* open "Select IP Address" dialogs, innermost last
    timers,     \* pending GLib one-second timers, in the order added
    bound,      \* sockets bound: [ip, port, owner]
    inbox,      \* Play frames the receiver has yet to handle, in order
    playing     \* the receiver's last handled Play command and its fetch

vars == <<selected, menu, casts, dialogs, timers, bound, inbox, playing>>

CastIds == 1..MaxCasts

\* Who answers a connection to ip:port (a wildcard bind answers all IPs).
Owners(ip, port) ==
    {b.owner : b \in {b \in bound : b.port = port /\ b.ip \in {ip, Wildcard}}}

\* bind() fails when the address, or the port on any address, is taken.
InUse(ip, port) ==
    \E b \in bound : b.port = port /\ (b.ip = ip \/ b.ip = Wildcard \/ ip = Wildcard)

-----------------------------------------------------------------------------
Init ==
    /\ selected = NoFile
    /\ menu = NoFile
    /\ casts = <<>>
    /\ dialogs = <<>>
    /\ timers = <<>>
    /\ bound = {}
    /\ inbox = <<>>
    /\ playing = [cast |-> 0, got |-> "none", file |-> NoFile]

\* get_file_items (117-142) with one file selected: remembers it and builds
\* the menu.
get_file_items ==
    /\ \E f \in Files : selected' = f /\ menu' = f
    /\ UNCHANGED <<casts, dialogs, timers, bound, inbox, playing>>

\* The rest of start_web_server once the IP is known (line 264 on): spawn
\* run_http_server for (ip, port) and schedule the notify callback.
Spawn(i, ip) ==
    /\ casts' = [casts EXCEPT ![i].ip = ip, ![i].srv = "starting",
                              ![i].phase = "timer"]
    /\ timers' = Append(timers, i)

\* get_local_ip_address (213-248) without a dialog: the one IP, or None.
OnlyIp(ips) == IF ips = {} THEN NoIp ELSE CHOOSE x \in ips : TRUE

\* Mutant: the MIME check of cast_to_host dropped.
HasMimeTypeAlways(f) == TRUE

\* mimetypes.guess_type(selected_file_path) finds a type (lines 200-203).
HasMimeType(f) == f \in MimeKnown

\* A cast of the selected file from the menu, on port p; `offered` are
\* the IPs the dialog lists.
NewCast(p, ips, ip, phase) ==
    [file |-> selected, port |-> p, offered |-> ips, ip |-> ip,
     srv |-> IF phase = "timer" THEN "starting" ELSE "none",
     phase |-> phase, sent |-> FALSE]

\* cast_to_host from a host item of the open menu.  find_free_port binds
\* port 0 and closes the socket: any port nobody holds.  With one IP on
\* the subnet it is used, with none the IP is None, with several a dialog
\* opens and the rest waits for its answer.
cast_to_host ==
    /\ menu # NoFile
    /\ menu' = NoFile
    /\ IF ~HasMimeType(selected)
       THEN UNCHANGED <<casts, dialogs, timers>>
       ELSE /\ Len(casts) < MaxCasts
            /\ \E p \in {q \in Ports : ~InUse(Wildcard, q)}, ips \in IpChoices :
                 IF Cardinality(ips) > 1
                 THEN /\ casts' = Append(casts, NewCast(p, ips, NoIp, "dialog"))
                      /\ dialogs' = Append(dialogs, Len(casts) + 1)
                      /\ UNCHANGED timers
                 ELSE /\ casts' = Append(casts, NewCast(p, ips, OnlyIp(ips), "timer"))
                      /\ timers' = Append(timers, Len(casts) + 1)
                      /\ UNCHANGED dialogs
    /\ UNCHANGED <<selected, bound, inbox, playing>>

\* The innermost dialog.run() returns: OK gives the chosen IP, Cancel
\* (or closing it) makes get_local_ip_address return None (lines 241-245).
DialogResponse ==
    /\ dialogs # <<>>
    /\ \E ip \in casts[Last(dialogs)].offered \cup {NoIp} : Spawn(Last(dialogs), ip)
    /\ dialogs' = Front(dialogs)
    /\ UNCHANGED <<selected, menu, bound, inbox, playing>>

\* run_http_server in the spawned process: HTTPServer((ip, port)) binds, or
\* raises (ip None, address taken) and the process logs and exits.
run_http_server(i) ==
    /\ casts[i].srv = "starting"
    /\ IF casts[i].ip = NoIp \/ InUse(casts[i].ip, casts[i].port)
       THEN /\ casts' = [casts EXCEPT ![i].srv = "failed"]
            /\ UNCHANGED bound
       ELSE /\ casts' = [casts EXCEPT ![i].srv = "listening"]
            /\ bound' = bound \cup {[ip |-> casts[i].ip, port |-> casts[i].port,
                                     owner |-> i]}
    /\ UNCHANGED <<selected, menu, dialogs, timers, inbox, playing>>

-----------------------------------------------------------------------------
(* The Play frame.  A byte string is a sequence: the length and opcode    *)
(* bytes are numbers, and each constant piece of json.dumps's output, the  *)
(* MIME type, an address and a port stand for their UTF-8 bytes as one     *)
(* symbol each, so lengths count symbols.                                  *)

\* mimetypes.guess_type's answer for a file (line 199).
MimeType(f) == <<f>>

\* The URL start_web_server returns (lines 271-275): None without an IP.
LocalUrl(c) == IF c.ip = NoIp THEN NoUrl ELSE <<"http://", c.ip, ":", c.port, "/">>

\* json.dumps({"container": mime, "url": url}) (lines 281-285): keys in
\* insertion order, ", " and ": " separators, None as null.
JsonString(s) == <<"\"">> \o s \o <<"\"">>
JsonDumps(mime, url) ==
    <<"{\"container\": ">> \o JsonString(mime) \o <<", \"url\": ">>
      \o (IF url = NoUrl THEN <<"null">> ELSE JsonString(url)) \o <<"}">>

\* int.to_bytes(4, 'little') (line 292).
LittleEndian4(n) == [k \in 1..4 |-> (n \div 256^(k - 1)) % 256]

\* Mutant: the length field counts the JSON only, not the opcode byte.
PlayPacketLengthWithoutOpcode(mime, url) ==
    LET json == JsonDumps(mime, url)
    IN  LittleEndian4(Len(json)) \o <<1>> \o json

\* length_bytes + opcode_byte + json_data, length = len(json_data) + 1
\* and opcode 1 = Play (lines 290-297).
PlayPacket(mime, url) ==
    LET json == JsonDumps(mime, url)
    IN  LittleEndian4(Len(json) + 1) \o <<1>> \o json

\* callback -> notify_fcast_server (208-209, 277-302): connect to the
\* receiver and sendall the Play frame, url null without an IP.  A refused
\* connect raises out of the callback; nothing is sent.
notify_fcast_server(i) ==
    \/ /\ inbox' = Append(inbox, [cast |-> i,
                   frame |-> PlayPacket(MimeType(casts[i].file), LocalUrl(casts[i]))])
       /\ casts' = [casts EXCEPT ![i].phase = "done", ![i].sent = TRUE]
    \/ /\ casts' = [casts EXCEPT ![i].phase = "done"]
       /\ UNCHANGED inbox

\* GLib.timeout_add_seconds(1, callback) (line 211): the oldest timer
\* fires, from the main loop or from inside a dialog.run(); the callback
\* returns None, so GLib drops the timer.
TimerFires ==
    /\ timers # <<>>
    /\ notify_fcast_server(Head(timers))
    /\ timers' = Tail(timers)
    /\ UNCHANGED <<selected, menu, dialogs, bound, playing>>

\* Another process binds a free port.
OtherBind ==
    /\ Cardinality({b \in bound : b.owner = Other}) < MaxOther
    /\ \E p \in Ports :
          /\ ~InUse(Wildcard, p)
          /\ bound' = bound \cup {[ip |-> Wildcard, port |-> p, owner |-> Other]}
    /\ UNCHANGED <<selected, menu, casts, dialogs, timers, inbox, playing>>

(* The receiver, as spec.md 4.2 and 6 define it: read the 4-byte little- *)
(* endian length, then that many bytes: the opcode and the JSON payload.  *)

\* A frame the receiver cannot read as one Play command.
Malformed == [container |-> <<>>, url |-> <<>>]

\* The commands a payload may carry, and the payload parsed as JSON.
PlayCommands ==
    [container : {MimeType(f) : f \in Files},
     url : {<<"http://", ip, ":", p, "/">> : ip \in Ips, p \in Ports} \cup {NoUrl}]
ParsePlay(payload) ==
    IF \E cmd \in PlayCommands : JsonDumps(cmd.container, cmd.url) = payload
    THEN CHOOSE cmd \in PlayCommands : JsonDumps(cmd.container, cmd.url) = payload
    ELSE Malformed

\* The frame read from the connection until the sender closes it.
DecodePlay(frame) ==
    IF Len(frame) < 5 THEN Malformed
    ELSE LET length == frame[1] + 256 * frame[2] + 65536 * frame[3]
                         + 16777216 * frame[4]
         IN  IF length < 1 \/ 4 + length # Len(frame) \/ frame[5] # 1
             THEN Malformed
             ELSE ParsePlay(SubSeq(frame, 6, 4 + length))

\* The receiver handles the next frame: a malformed frame or no URL, nobody
\* listening at the URL, another process, or the file of the cast whose
\* server answers there.
ReceiverPlay ==
    /\ inbox # <<>>
    /\ LET i == Head(inbox).cast
           cmd == DecodePlay(Head(inbox).frame)
           who == IF cmd.url \in {NoUrl, <<>>} THEN {}
                  ELSE Owners(cmd.url[2], cmd.url[4])
           w == CHOOSE o \in who : TRUE
       IN  playing' =
             CASE cmd = Malformed -> [cast |-> i, got |-> "malformed", file |-> NoFile]
               [] cmd.url = NoUrl -> [cast |-> i, got |-> "nourl", file |-> NoFile]
               [] who = {}     -> [cast |-> i, got |-> "refused", file |-> NoFile]
               [] w = Other    -> [cast |-> i, got |-> "stranger", file |-> NoFile]
               [] OTHER        -> [cast |-> i, got |-> "file", file |-> casts[w].file]
    /\ inbox' = Tail(inbox)
    /\ UNCHANGED <<selected, menu, casts, dialogs, timers, bound>>

Next ==
    \/ get_file_items \/ cast_to_host \/ DialogResponse
    \/ \E i \in 1..Len(casts) : run_http_server(i)
    \/ TimerFires \/ OtherBind \/ ReceiverPlay

\* The main loop dispatches due timers, also inside dialog.run(); spawned
\* interpreters come up; the receiver handles what it is sent.  The user
\* owes nothing: a dialog may stay open.
Spec ==
    /\ Init /\ [][Next]_vars
    /\ WF_vars(TimerFires) /\ WF_vars(ReceiverPlay)
    /\ \A i \in CastIds : WF_vars(i <= Len(casts) /\ run_http_server(i))

-----------------------------------------------------------------------------
(* Properties                                                              *)

Phases == {"dialog", "timer", "done"}
Results == {"none", "malformed", "nourl", "refused", "stranger", "file"}

TypeOK ==
    /\ selected \in Files \cup {NoFile} /\ menu \in Files \cup {NoFile}
    /\ Len(casts) <= MaxCasts
    /\ \A i \in 1..Len(casts) :
          /\ casts[i].file \in MimeKnown /\ casts[i].port \in Ports
          /\ casts[i].ip \in Ips \cup {NoIp} /\ casts[i].phase \in Phases
          /\ casts[i].srv \in {"none", "starting", "listening", "failed"}
    /\ Range(dialogs) \cup Range(timers) \subseteq 1..Len(casts)
    /\ \A k \in DOMAIN inbox : inbox[k].cast \in 1..Len(casts)
    /\ playing.got \in Results

\* Spec 4.3: the receiver plays the file of the cast it was told about,
\* never a null URL (no usable IP), a URL nobody serves, another process's port, or another cast's
\* server that holds the port this cast was given.
PlayedUrlIsServed ==
    /\ playing.got \in {"none", "file"}
    /\ playing.got = "file" => playing.file = casts[playing.cast].file

\* Spec 8 round trip: every frame notify_fcast_server puts on the wire,
\* read as spec.md 6 lays it out (the length field is 1 + the payload's
\* length, then opcode 1), gives back the container and url of its cast.
FrameRoundTrip ==
    \A k \in DOMAIN inbox :
        DecodePlay(inbox[k].frame)
            = [container |-> MimeType(casts[inbox[k].cast].file),
               url |-> LocalUrl(casts[inbox[k].cast])]

\* Once nothing is pending, the receiver plays the most recent cast that
\* reached it.
LastCastPlays ==
    dialogs = <<>> /\ timers = <<>> /\ inbox = <<>> /\ playing.cast # 0
    => \A j \in 1..Len(casts) : casts[j].sent => j <= playing.cast

=============================================================================
