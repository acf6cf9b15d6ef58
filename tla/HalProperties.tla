---------------------------- MODULE HalProperties ----------------------------
(***************************************************************************)
(* The property interface of the CoreAudio driver (ReacJackDriver.c): the  *)
(* tables that say which property an object has, how large it is, what it  *)
(* holds and whether it can be set.  Each table is a switch of its own in  *)
(* the code, three per question, and the host believes all of them: it     *)
(* asks whether a property exists, allocates what the size table says and  *)
(* fetches into it.                                                        *)
(*                                                                         *)
(* Selectors keep the code's names without kAudio...Property.  Values are  *)
(* strings that name what is written, sizes are bytes of a 64 bit macOS.   *)
(***************************************************************************)
EXTENDS Integers

CONSTANTS
  CountMod,     \* range of the reference count, 2^32
  Sizes,        \* sizes of buffers a host may pass, whatever the size table says
  OtherValues,  \* values a host may try to set
  MaxRunning    \* bound: clients that run IO

ASSUME HalPropertiesAssumption ==
  CountMod \in Nat \ {0} /\ Sizes \subseteq Nat /\ MaxRunning \in Nat

Objects == {"PlugIn", "Device", "Stream"}
ObjectIDs == Objects \cup {"Unknown"}   \* Unknown: kAudioObjectUnknown or any other id
Scopes == {"Global", "Input", "Output"}

\* sizeof of UInt32, AudioClassID and AudioObjectID, of CFStringRef and Float64, ...
Word == 4
Wide == 8
ValueRange == 16        \* AudioValueRange
StreamFormat == 40      \* AudioStreamBasicDescription
RangedFormat == 56      \* AudioStreamRangedDescription

\* channel_layout_size: the layout's head and a description per channel
ChannelLayout == 12 + 40 * 20

-----------------------------------------------------------------------------
(* Which properties there are. *)

Common == {"BaseClass", "Class", "Owner"}

PlugInSelectors ==
  Common \cup {"Manufacturer", "OwnedObjects", "DeviceList", "TranslateUIDToDevice",
               "ResourceBundle"}

DeviceSelectors ==
  Common \cup {"Name", "Manufacturer", "OwnedObjects", "ControlList", "DeviceUID",
               "ModelUID", "TransportType", "RelatedDevices", "ClockDomain", "IsAlive",
               "IsRunning", "CanBeDefaultDevice", "CanBeDefaultSystemDevice", "Latency",
               "Streams", "SafetyOffset", "NominalSampleRate",
               "AvailableNominalSampleRates", "IsHidden", "ZeroTimeStampPeriod"}

Preferred == {"PreferredChannelsForStereo", "PreferredChannelLayout"}

StreamSelectors ==
  Common \cup {"IsActive", "Direction", "TerminalType", "StartingChannel", "Latency",
               "VirtualFormat", "PhysicalFormat", "AvailableVirtualFormats",
               "AvailablePhysicalFormats"}

Selectors ==
  PlugInSelectors \cup DeviceSelectors \cup Preferred \cup StreamSelectors \cup {"Other"}

device_has_property(sel, scope) ==
  sel \in DeviceSelectors \/ (sel \in Preferred /\ scope \in {"Input", "Global"})

HasProperty(obj, sel, scope) ==
  CASE obj = "PlugIn" -> sel \in PlugInSelectors
    [] obj = "Device" -> device_has_property(sel, scope)
    [] obj = "Stream" -> sel \in StreamSelectors
    [] OTHER -> FALSE

-----------------------------------------------------------------------------
(* Answers: a status, the bytes written and what they say. *)

Error(status) == [status |-> status, size |-> 0, value |-> ""]
Ok(size, value) == [status |-> "ok", size |-> size, value |-> value]

BadObject == Error("bad object")
BadSize == Error("bad size")
UnknownProperty == Error("unknown property")
Unsupported == Error("unsupported format")

-----------------------------------------------------------------------------
(* How large they are. *)

plugin_property_size(sel) ==
  CASE sel \in Common \cup {"OwnedObjects", "DeviceList", "TranslateUIDToDevice"} -> Ok(Word, "")
    [] sel \in {"Manufacturer", "ResourceBundle"} -> Ok(Wide, "")
    [] OTHER -> UnknownProperty

\* Mutant: the size of the list of streams forgets the scope.
StreamsSizeAnyScope(scope) == Word

\* The device has an input stream and no output stream.
StreamsSize(scope) == IF scope = "Output" THEN 0 ELSE Word

device_property_size(sel, scope) ==
  CASE sel \in {"Name", "Manufacturer", "DeviceUID", "ModelUID", "NominalSampleRate"} -> Ok(Wide, "")
    [] sel = "ControlList" -> Ok(0, "")
    [] sel = "Streams" -> Ok(StreamsSize(scope), "")
    [] sel = "AvailableNominalSampleRates" -> Ok(ValueRange, "")
    [] sel = "PreferredChannelsForStereo" -> Ok(2 * Word, "")
    [] sel = "PreferredChannelLayout" -> Ok(ChannelLayout, "")
    [] sel \in Common \cup {"OwnedObjects", "TransportType", "RelatedDevices", "ClockDomain",
                 "IsAlive", "IsRunning", "CanBeDefaultDevice", "CanBeDefaultSystemDevice",
                 "Latency", "SafetyOffset", "IsHidden", "ZeroTimeStampPeriod"} -> Ok(Word, "")
    [] OTHER -> UnknownProperty

stream_property_size(sel) ==
  CASE sel \in Common \cup {"IsActive", "Direction", "TerminalType", "StartingChannel",
                            "Latency"} -> Ok(Word, "")
    [] sel \in {"VirtualFormat", "PhysicalFormat"} -> Ok(StreamFormat, "")
    [] sel \in {"AvailableVirtualFormats", "AvailablePhysicalFormats"} -> Ok(RangedFormat, "")
    [] OTHER -> UnknownProperty

GetPropertyDataSize(obj, sel, scope) ==
  CASE obj = "PlugIn" -> plugin_property_size(sel)
    [] obj = "Device" -> device_property_size(sel, scope)
    [] obj = "Stream" -> stream_property_size(sel)
    [] OTHER -> BadObject

-----------------------------------------------------------------------------
(* What they hold: room is the size of the caller's buffer. *)

\* write_uint32, write_object_id, write_string and the code like them
Write(room, size, value) == IF room < size THEN BadSize ELSE Ok(size, value)

\* A list of one entry, which a small buffer truncates to none.
WriteList(room, size, value) == IF room < size THEN Ok(0, "") ELSE Ok(size, value)

\* uid is the qualifier: the string to translate, or "none" if it has not the size of one.
plugin_property_data(sel, room, uid) ==
  CASE sel = "BaseClass" -> Write(room, Word, "object class")
    [] sel = "Class" -> Write(room, Word, "plug-in class")
    [] sel = "Owner" -> Write(room, Word, "Unknown")
    [] sel = "Manufacturer" -> Write(room, Wide, "ReacJack")
    [] sel = "ResourceBundle" -> Write(room, Wide, "")
    [] sel \in {"OwnedObjects", "DeviceList"} -> WriteList(room, Word, "Device")
    [] sel = "TranslateUIDToDevice" ->
         IF uid = "none" THEN BadSize
         ELSE Write(room, Word, IF uid = "device uid" THEN "Device" ELSE "Unknown")
    [] OTHER -> UnknownProperty

device_property_data(sel, scope, room, running) ==
  CASE sel = "BaseClass" -> Write(room, Word, "object class")
    [] sel = "Class" -> Write(room, Word, "device class")
    [] sel = "Owner" -> Write(room, Word, "PlugIn")
    [] sel = "Name" -> Write(room, Wide, "ReacJack REAC")
    [] sel = "Manufacturer" -> Write(room, Wide, "ReacJack")
    [] sel = "DeviceUID" -> Write(room, Wide, "device uid")
    [] sel = "ModelUID" -> Write(room, Wide, "model uid")
    [] sel = "OwnedObjects" -> Write(room, Word, "Stream")
    [] sel = "ControlList" -> Ok(0, "")
    [] sel = "TransportType" -> Write(room, Word, "virtual")
    [] sel = "RelatedDevices" -> Write(room, Word, "Device")
    [] sel = "IsRunning" -> Write(room, Word, IF running > 0 THEN "1" ELSE "0")
    [] sel \in {"IsAlive", "CanBeDefaultDevice"} -> Write(room, Word, "1")
    [] sel \in {"ClockDomain", "CanBeDefaultSystemDevice", "Latency", "SafetyOffset",
                "IsHidden"} -> Write(room, Word, "0")
    [] sel = "ZeroTimeStampPeriod" -> Write(room, Word, "8192")
    [] sel = "Streams" ->
         IF scope = "Output" THEN Ok(0, "") ELSE WriteList(room, Word, "Stream")
    [] sel = "NominalSampleRate" -> Write(room, Wide, "48000")
    [] sel = "AvailableNominalSampleRates" -> WriteList(room, ValueRange, "48000..48000")
    [] sel = "PreferredChannelsForStereo" -> Write(room, 2 * Word, "1, 2")
    [] sel = "PreferredChannelLayout" -> Write(room, ChannelLayout, "40 discrete channels")
    [] OTHER -> UnknownProperty

\* device_stream_format: the only one there is.
DeviceFormat == "float32 x 40 at 48000"

StreamOwner == "Device"

stream_property_data(sel, room) ==
  CASE sel = "BaseClass" -> Write(room, Word, "object class")
    [] sel = "Class" -> Write(room, Word, "stream class")
    [] sel = "Owner" -> Write(room, Word, StreamOwner)
    [] sel \in {"IsActive", "Direction", "StartingChannel"} -> Write(room, Word, "1")
    [] sel = "TerminalType" -> Write(room, Word, "line")
    [] sel = "Latency" -> Write(room, Word, "0")
    [] sel \in {"VirtualFormat", "PhysicalFormat"} -> Write(room, StreamFormat, DeviceFormat)
    [] sel \in {"AvailableVirtualFormats", "AvailablePhysicalFormats"} ->
         WriteList(room, RangedFormat, DeviceFormat)
    [] OTHER -> UnknownProperty

GetPropertyData(obj, sel, scope, room, uid, running) ==
  CASE obj = "PlugIn" -> plugin_property_data(sel, room, uid)
    [] obj = "Device" -> device_property_data(sel, scope, room, running)
    [] obj = "Stream" -> stream_property_data(sel, room)
    [] OTHER -> BadObject

-----------------------------------------------------------------------------
(* Setting them. *)

Formats == {"VirtualFormat", "PhysicalFormat"}

Settable(obj, sel, scope) ==
  /\ HasProperty(obj, sel, scope)
  /\ \/ obj = "Device" /\ sel = "NominalSampleRate"
     \/ obj = "Stream" /\ sel \in Formats

\* Mutant: any format is taken, as if the device could follow.
FormatsEqualAlways(a, b) == TRUE

formats_equal(a, b) == a = b

SetPropertyData(obj, sel, size, value) ==
  CASE obj = "Device" /\ sel = "NominalSampleRate" ->
         IF size # Wide THEN BadSize ELSE IF value = "48000" THEN Ok(0, "") ELSE Unsupported
    [] obj = "Stream" /\ sel \in Formats ->
         IF size # StreamFormat THEN BadSize
         ELSE IF formats_equal(value, DeviceFormat) THEN Ok(0, "") ELSE Unsupported
    [] OTHER -> UnknownProperty

-----------------------------------------------------------------------------
(* The plug-in under its host. *)

VARIABLES
  refCount,        \* gPlugIn_RefCount
  held,            \* references the host has and has not released
  runningClients,  \* gDevice_IOIsRunning, which StartIO and StopIO change at any time
  query            \* the host's conversation about one property

PropertiesVars == <<refCount, held, runningClients, query>>

NoQuery == [stage |-> "none", obj |-> "Unknown", sel |-> "Other", scope |-> "Global",
            room |-> 0, reply |-> UnknownProperty]

PropertiesInit == refCount = 0 /\ held = 0 /\ runningClients = 0 /\ query = NoQuery

\* QueryInterface for an interface the driver has; for another it changes nothing.
QueryInterface ==
  /\ held < CountMod - 1
  /\ refCount' = (refCount + 1) % CountMod
  /\ held' = held + 1
  /\ UNCHANGED <<runningClients, query>>

AddRef ==
  /\ 0 < held /\ held < CountMod - 1
  /\ refCount' = (refCount + 1) % CountMod
  /\ held' = held + 1
  /\ UNCHANGED <<runningClients, query>>

\* The host may release once more than it should.
Release ==
  /\ refCount' = IF refCount > 0 THEN refCount - 1 ELSE 0
  /\ held' = IF held > 0 THEN held - 1 ELSE 0
  /\ UNCHANGED <<runningClients, query>>

\* Another thread's StartIO or StopIO (see HalDriver).
RunningChanges ==
  /\ runningClients' \in {runningClients - 1, runningClients + 1} \cap (0 .. MaxRunning)
  /\ UNCHANGED <<refCount, held, query>>

\* The host turns to a property: HasProperty, IsPropertySettable and the size.
Ask(obj, sel, scope) ==
  /\ query.stage = "none"
  /\ query' = [query EXCEPT !.stage = "asked", !.obj = obj, !.sel = sel, !.scope = scope,
                 !.reply = GetPropertyDataSize(obj, sel, scope)]
  /\ UNCHANGED <<refCount, held, runningClients>>

\* It fetches the value into a buffer of room bytes, ...
Fetch(room, uid) ==
  /\ query.stage = "asked"
  /\ query' = [query EXCEPT !.stage = "got", !.room = room,
       !.reply = GetPropertyData(query.obj, query.sel, query.scope, room, uid, runningClients)]
  /\ UNCHANGED <<refCount, held, runningClients>>

\* ... may write that value back or another one, ...
Put(value) ==
  /\ query.stage = "got" /\ query.reply.status = "ok"
  /\ query' = [query EXCEPT !.stage = IF value = query.reply.value THEN "put back" ELSE "put other",
                 !.reply = SetPropertyData(query.obj, query.sel, query.reply.size, value)]
  /\ UNCHANGED <<refCount, held, runningClients>>

\* ... and is done with it.
Done ==
  /\ query.stage # "none"
  /\ query' = NoQuery
  /\ UNCHANGED <<refCount, held, runningClients>>

\* Buffers: as large as the size table says, or of any other size.
Rooms == {query.reply.size} \cup Sizes

\* Qualifiers: none, or one of the wrong size; the device's uid; another one.
Uids == {"none", "device uid", "another uid"}

PropertiesNext ==
  \/ QueryInterface \/ AddRef \/ Release \/ RunningChanges \/ Done
  \/ \E obj \in ObjectIDs, sel \in Selectors, scope \in Scopes : Ask(obj, sel, scope)
  \/ \E room \in Rooms, uid \in Uids : Fetch(room, uid)
  \/ \E value \in {query.reply.value} \cup OtherValues : Put(value)

PropertiesSpec == PropertiesInit /\ [][PropertiesNext]_PropertiesVars

-----------------------------------------------------------------------------
(* Properties. *)

\* What the answers of the tables say.
Values ==
  {"", "0", "1", "8192", "48000", "48000..48000", "1, 2", "40 discrete channels", DeviceFormat,
   "object class", "plug-in class", "device class", "stream class", "virtual", "line", "ReacJack",
   "ReacJack REAC", "device uid", "model uid"} \cup ObjectIDs

Reply ==
  [status : {"ok", "bad object", "bad size", "unknown property", "unsupported format"},
   size : Nat, value : Values]

Query ==
  [stage : {"none", "asked", "got", "put back", "put other"}, obj : ObjectIDs, sel : Selectors,
   scope : Scopes, room : Nat, reply : Reply]

\* Every variable stays in its domain; the count never wraps and is what the host holds,
\* also after a release too many (ReacJack_Release).
PropertiesTypeOK ==
  /\ refCount \in 0 .. CountMod - 1 /\ held = refCount
  /\ runningClients \in 0 .. MaxRunning
  /\ query \in Query

Has == HasProperty(query.obj, query.sel, query.scope)

\* The tables agree: what HasProperty affirms has a size, and a fetch into a buffer of
\* that size succeeds and fills it, whatever other threads do between the two calls.  A
\* property HasProperty denies is refused, but for the preferred channels of the output
\* scope, which the size and data tables do not tell from the input scope's.  And no
\* answer writes past the buffer it was given, however small that is.
TablesAgree ==
  /\ query.stage = "asked" /\ Has => query.reply.status = "ok"
  /\ /\ query.stage = "got" /\ Has /\ query.sel # "TranslateUIDToDevice"
     /\ query.room = GetPropertyDataSize(query.obj, query.sel, query.scope).size
     => query.reply.status = "ok" /\ query.reply.size = query.room
  /\ query.stage \in {"asked", "got"} /\ ~Has /\ query.sel \notin Preferred =>
       query.reply.status \in {"unknown property", "bad object"}
  /\ query.stage = "got" => query.reply.size <= query.room

Value(obj, sel) == GetPropertyData(obj, sel, "Global", 1000, "none", runningClients).value

\* Owner and OwnedObjects describe one tree: an object's owner names it as owned, and
\* what an object owns names it as its owner.
OwnershipTree ==
  query.stage = "got" /\ query.reply.status = "ok" /\ query.reply.size > 0 =>
    /\ query.sel \in {"OwnedObjects", "DeviceList", "Streams"} =>
         Value(query.reply.value, "Owner") = query.obj
    /\ query.sel = "Owner" /\ query.reply.value # "Unknown" =>
         Value(query.reply.value, "OwnedObjects") = query.obj

\* IsPropertySettable tells the truth: the current value of a settable property can be
\* written back, any other value and any other property are refused, so that the
\* format GetPropertyData reports is the one the IO path delivers.
SetHonest ==
  /\ query.stage = "put back" =>
       (query.reply.status = "ok") = Settable(query.obj, query.sel, query.scope)
  /\ query.stage = "put other" => query.reply.status # "ok"

\* What the host was told is what the tables say of the property it asked about, at a moment
\* when some number of clients ran.
QueryStages ==
  /\ query.stage = "asked" => query.reply = GetPropertyDataSize(query.obj, query.sel, query.scope)
  /\ query.stage = "got" =>
       \E uid \in Uids, clients \in 0 .. MaxRunning :
         query.reply = GetPropertyData(query.obj, query.sel, query.scope, query.room, uid, clients)

\* What holds of the plug-in's answers in every state: the reference count covers what the
\* host holds, the objects form one tree, and what can be set can be set.
PropertiesInvariant == PropertiesTypeOK /\ OwnershipTree /\ SetHonest /\ QueryStages
=============================================================================
