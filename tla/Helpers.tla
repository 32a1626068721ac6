------------------------------ MODULE Helpers ------------------------------
(***************************************************************************)
(* Four parts of the library that share no state, each behind one handle:  *)
(* a mixer's volume item, the functions on samples and formats, the search *)
(* for cards, and channel maps.  A behaviour is one of any of them; the    *)
(* variables of the others stay as they are.                               *)
(***************************************************************************)
EXTENDS Volume

CONSTANTS
    AreaFormats, AreaChannels, Frames, Layouts,     \* Areas
    MaxCards, MaxDevices, MaxChanges, Ids, DevNames,  \* Cards
    Positions, PosNames, MapChannels, MaxChannels, MaxParsed, Offers, Maps, MaxLens  \* Chmap

VARIABLES
    part,                              \* which part this behaviour is of
    ret,                               \* Cards and Chmap
    mem, before,                       \* Areas
    id, changes, rcard, seen, steady,  \* Cards
    offer, kmap, ctl, heap, given, mine  \* Chmap

volumeVars == <<control, tlv, changed, range, raw, usr, db_info, unread,
               stale, pc, job, read>>
areaVars == <<mem, before>>
cardVars == <<id, changes, rcard, seen, steady>>
mapVars == <<offer, kmap, ctl, heap, given, mine>>
allVars == <<part, call, ret, volumeVars, areaVars, cardVars, mapVars>>

A == INSTANCE Areas WITH Formats <- AreaFormats, Channels <- AreaChannels
C == INSTANCE Cards WITH Names <- DevNames
M == INSTANCE Chmap WITH Names <- PosNames, Channels <- MapChannels

-----------------------------------------------------------------------------
NoVolume ==
    /\ control = 0 /\ tlv = 0 /\ changed = 0 /\ range = 0 /\ raw = 0 /\ usr = 0
    /\ db_info = 0 /\ unread = 0 /\ stale = 0 /\ pc = 0 /\ job = 0 /\ read = 0
NoAreas == mem = 0 /\ before = 0
NoCards == id = 0 /\ changes = 0 /\ rcard = 0 /\ seen = 0 /\ steady = 0
NoMaps == offer = 0 /\ kmap = 0 /\ ctl = 0 /\ heap = 0 /\ given = 0 /\ mine = 0

AllInit ==
    \/ part = "volume" /\ Init /\ ret = 0 /\ NoAreas /\ NoCards /\ NoMaps
    \/ part = "areas" /\ A!Init /\ ret = 0 /\ NoVolume /\ NoCards /\ NoMaps
    \/ part = "cards" /\ C!Init /\ NoVolume /\ NoAreas /\ NoMaps
    \/ part = "maps" /\ M!Init /\ NoVolume /\ NoAreas /\ NoCards

AllNext ==
    \/ part = "volume" /\ Next /\ UNCHANGED <<part, ret, areaVars, cardVars, mapVars>>
    \/ part = "areas" /\ A!Next /\ UNCHANGED <<part, ret, volumeVars, cardVars, mapVars>>
    \/ part = "cards" /\ C!Next /\ UNCHANGED <<part, volumeVars, areaVars, mapVars>>
    \/ part = "maps" /\ M!Next /\ UNCHANGED <<part, volumeVars, areaVars, cardVars>>

AllSpec == AllInit /\ [][AllNext]_allVars

-----------------------------------------------------------------------------
(* Properties. *)

\* The volume an application is told stands for the device's, in the range that
\* the application has chosen, and the item follows the device once events have
\* been handled, also if another process wrote between the read and the write of
\* _snd_selem_update_volume, but not after a read or a write that failed.
VolumesTrue == part = "volume" => UserTrue /\ DeviceTrue

\* The dB functions answer from the driver's table where that is the whole of the
\* TLV, and refuse only where there is none or reading it failed: the bounds are
\* those of the values there are, and gains that are asked for or set are rounded
\* as asked.  A table in a container ends in init_db_info's free of a pointer into
\* its buffer, after which nothing is claimed.
GainsTrue == part = "volume" => DbKnown /\ DbGiven /\ BoundsTight /\ AnswersRounded /\ GainSet

\* snd_pcm_areas_silence, snd_pcm_areas_copy and snd_pcm_mmap_writei/readi put
\* every sample where it belongs and change no other bit.
SamplesExact == part = "areas" => A!SilenceExact /\ A!CopyExact

\* The tables of formats agree with each other: a linear format is found again
\* from its traits, the words of its silence have the bytes of the silent sample in
\* the order of memory, and every name leads to a format that goes by it.
FormatsTrue == part = "areas" => A!LinearFound /\ A!WordSilent /\ A!NameFound

\* Cards that stay are listed, and found by number, or by an id or a path that no
\* device number follows, while others come and go; a device name that is found
\* leads to the device and the subdevice it names.
CardsFound == part = "cards" => C!CardsFound

\* Whatever allocation or ioctl fails, a call on channel maps leaves no memory and
\* no control device behind; the maps it returns are the driver's, or the one that
\* was set; and text that was printed reads as the same map.
MapsTrue == part = "maps" => M!MapsTrue
=============================================================================
