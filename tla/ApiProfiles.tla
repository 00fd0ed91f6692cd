---------------------------- MODULE ApiProfiles ----------------------------
(***************************************************************************)
(* The APIs of opentele (api.py) and the devices they generate             *)
(* (devices.py).  The long lists of names are kept by their positions: a   *)
(* name is the number of its line, a version the number of its place.      *)
(***************************************************************************)
EXTENDS Naturals, Sequences, SequencesExt

Positions(n) == [k \in 1 .. n |-> k]

DeviceInfo(model, version) == [model |-> model, version |-> version]

\* the loop over majors with the loop over minors inside
Product(majors, minors) ==
    [k \in 1 .. Len(majors) * Len(minors) |->
        <<majors[(k - 1) \div Len(minors) + 1], minors[((k - 1) % Len(minors)) + 1]>>]

\* all versions of a model in a row
Devices(models, versions) ==
    LET pairs == Product(models, versions)
    IN  [k \in DOMAIN pairs |-> DeviceInfo(pairs[k][1], pairs[k][2])]

\* the hash of a unique_id, or of random bytes, picks a device of the list
RandomDevice(hash, deviceList) == deviceList[(hash % Len(deviceList)) + 1]

-----------------------------------------------------------------------------
(* The lists of devices *)

DesktopModels == Positions(790)

WindowsDevices == Devices(DesktopModels, Positions(4))

\* Linux versions are all combinations of an environment, a display server
\* and a C library
LinuxVersions ==
    LET With(prefixes, names) ==
            LET pairs == Product(prefixes, names)
            IN  [k \in DOMAIN pairs |-> Append(pairs[k][1], pairs[k][2])]
    IN  FoldLeft(With, << <<"Linux">> >>, << Positions(7), Positions(3), Positions(4) >>)

LinuxDevices ==
    LET pairs == Product(LinuxVersions, DesktopModels)
    IN  [k \in DOMAIN pairs |-> DeviceInfo(pairs[k][2], pairs[k][1])]

\* the words of the identifiers, once each, in the order of their first one
MacModels ==
    << <<"Mac", "Book", "Pro">>, <<"Mac", "Book", "Air">>, <<"Mac", "Book">>,
       <<"Mac", "Pro">>, <<"i", "Mac">>, <<"i", "Mac", "Pro">> >>

MacDevices == Devices(MacModels, Positions(48))

AndroidModels == Positions(4869)

AndroidDevices == Devices(AndroidModels, Positions(9))

\* the suffixes of the iPhones of a generation
IPhones ==
    << <<5, <<"S">>>>,
       <<6, <<" Plus", "", "S", "S Plus">>>>,
       <<7, <<"", " Plus">>>>,
       <<8, <<"", " Plus">>>>,
       <<10, <<"", "S", "S Max", "R">>>>,
       <<11, <<"", " Pro", " Pro Max">>>>,
       <<12, <<" mini", "", " Pro", " Pro Max">>>>,
       <<13, <<" Pro", " Pro Max", " Mini", "">>>> >>

\* the patches of each minor version
IOSVersions ==
    [ major \in 12 .. 15 |->
        CASE major = 15 -> << <<2, <<>>>>, <<1, <<1>>>>, <<0, <<2, 1>>>> >>
          [] major = 14 -> << <<8, <<1>>>>, <<7, <<1>>>>, <<6, <<>>>>, <<5, <<1>>>>,
                              <<4, <<2, 1>>>>, <<3, <<>>>>, <<2, <<1>>>>, <<1, <<>>>>,
                              <<0, <<1>>>> >>
          [] major = 13 -> << <<7, <<>>>>, <<6, <<1>>>>, <<5, <<1>>>>, <<4, <<1>>>>,
                              <<3, <<1>>>>, <<2, <<3, 2>>>>, <<1, <<3, 2, 1>>>> >>
          [] OTHER -> << <<5, <<5, 4, 3, 2, 1>>>>, <<4, <<9, 8, 7, 6, 5, 4, 3, 2, 1>>>>,
                         <<3, <<2, 1>>>>, <<11, <<0>>>>, <<2, <<>>>>, <<1, <<4, 3, 2, 1>>>>,
                         <<0, <<1>>>> >> ]

AvailableVersions(generation) ==
    CASE generation = 13 -> <<15>>
      [] generation = 12 -> <<14, 15>>
      [] generation = 11 -> <<13, 14, 15>>
      [] generation = 5  -> <<12>>
      [] OTHER           -> <<12, 13, 14, 15>>

\* <<major, minor>>, or <<major, minor, patch>> for each of its patches
Releases(major) ==
    LET named(minor) ==
            IF minor[2] = <<>> THEN << <<major, minor[1]>> >>
            ELSE [k \in DOMAIN minor[2] |-> <<major, minor[1], minor[2][k]>>]
    IN  FlattenSeq([k \in DOMAIN IOSVersions[major] |-> named(IOSVersions[major][k])])

IOSDevices ==
    LET majors(g) == AvailableVersions(g)
        versions(g) == FlattenSeq([k \in DOMAIN majors(g) |-> Releases(majors(g)[k])])
        models(g, suffixes) == [k \in DOMAIN suffixes |-> <<g, suffixes[k]>>]
        of(iPhone) == Devices(models(iPhone[1], iPhone[2]), versions(iPhone[1]))
    IN  FlattenSeq([k \in DOMAIN IPhones |-> of(IPhones[k])])

-----------------------------------------------------------------------------
(* The APIs *)

\* what an argument is when it is left out, or None
Falsy == [api_id |-> 0, device |-> "", lang_pack |-> ""]

\* the built-in APIs, by what the server and the conversions look at
Templates ==
    [ TelegramDesktop  |-> [api_id |-> 2040, device |-> "Desktop", lang_pack |-> "tdesktop"],
      TelegramAndroid  |-> [api_id |-> 6, device |-> "Samsung SM-G998B", lang_pack |-> "android"],
      TelegramAndroidX |-> [api_id |-> 21724, device |-> "Samsung SM-G998B",
                            lang_pack |-> "android"],
      TelegramIOS      |-> [api_id |-> 10840, device |-> "iPhone 13 Pro Max", lang_pack |-> "ios"],
      TelegramMacOS    |-> [api_id |-> 2834, device |-> "MacBook Pro", lang_pack |-> "macos"],
      TelegramWeb_Z    |-> [api_id |-> 2496, device |-> "Mozilla", lang_pack |-> ""],
      TelegramWeb_K    |-> [api_id |-> 2496, device |-> "Mozilla", lang_pack |-> "macos"],
      Webogram         |-> [api_id |-> 2496, device |-> "Mozilla", lang_pack |-> ""] ]

\* APIData(...): what is left out or falsy is taken from the class
APIData(cls, given) ==
    [f \in DOMAIN Templates[cls] |-> IF given[f] = Falsy[f] THEN Templates[cls][f] ELSE given[f]]

Copy(cls, api) == APIData(cls, api)

\* the operating system of TelegramDesktop.Generate: chosen by the same hash
\* as the device when it is none of the three names
validList == <<"windows", "macos", "linux">>

SystemOf(system, hash) == IF system \in Range(validList) THEN system
                          ELSE RandomDevice(hash, validList)

DesktopDevices(system) == CASE system = "windows" -> WindowsDevices
                            [] system = "macos"   -> MacDevices
                            [] system = "linux"   -> LinuxDevices

\* the devices of Generate; there are none for a browser
Generated(cls, system, hash) ==
    CASE cls = "TelegramDesktop" ->
            {RandomDevice(hash, DesktopDevices(SystemOf(system, hash)))}
      [] cls \in {"TelegramAndroid", "TelegramAndroidX"} -> {RandomDevice(hash, AndroidDevices)}
      [] cls = "TelegramIOS"   -> {RandomDevice(hash, IOSDevices)}
      [] cls = "TelegramMacOS" -> {RandomDevice(hash, MacDevices)}
      [] OTHER                 -> {}                    \* NotImplementedError
=============================================================================
