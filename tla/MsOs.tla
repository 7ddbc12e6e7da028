-------------------------------- MODULE MsOs --------------------------------
(***************************************************************************)
(* The device descriptor, and the BOS and Microsoft OS 2.0 descriptors     *)
(* that make Windows bind WinUSB to the DFU and the control interface      *)
(* (xua_ep0_msos_descriptors.h and the requests for them in                *)
(* xua_endpoint0.c).  Lengths are in bytes.                                *)
(***************************************************************************)
EXTENDS DescriptorsUac1

\* ENUMERATE_CONTROL_INTF_AS_WINUSB keeps its default, 1.
WinUsb(b) == {"control", "dfu"} \intersect b.has
_XUA_ENABLE_BOS_DESC(b) == WinUsb(b) # {}

HeaderBytes == 10
FunctionBytes(b, name) == 8 + 20 + 132     \* subset header, compatible id, registry property

\* A function: its first interface, and the one its GUID is about
Function(b, name) == [first |-> INTERFACE_NUMBER(b, name), guid |-> name]
desc_ms_os_20_composite(b) ==
  [simple |-> FALSE,
   functions |-> {Function(b, name) : name \in WinUsb(b)},
   length |-> HeaderBytes + 8 + Cardinality(WinUsb(b)) * FunctionBytes(b, "any")]

\* A device with one interface has no functions: the GUID is the device's.
desc_ms_os_20_simple(b) ==
  [simple |-> TRUE,
   functions |-> {[first |-> 0, guid |-> IF "dfu" \in b.has THEN "dfu" ELSE "control"]},
   length |-> HeaderBytes + 20 + 132]

\* The number of interfaces is that of UAC2 where the build has it, also at full speed.
num_interfaces(b, inDfu) ==
  IF inDfu THEN 1 ELSE IF Class2(b) THEN Len(Interfaces(b)) ELSE NUM_INTERFACES_A1(b)

\* Mutant of MsOsDescriptor: the TODO of the source, without its test for DFU mode.
MsOsInApp(b, inDfu) ==
  IF num_interfaces(b, FALSE) = 1 THEN desc_ms_os_20_simple(b) ELSE desc_ms_os_20_composite(b)
\* The answer to REQUEST_GET_MS_DESCRIPTOR
MsOsDescriptor(b, inDfu) ==
  IF num_interfaces(b, inDfu) = 1 THEN desc_ms_os_20_simple(b) ELSE desc_ms_os_20_composite(b)

\* The BOS descriptor announces the length of that answer.
BosDescriptor(b, inDfu) ==
  [length |-> IF num_interfaces(b, inDfu) = 1 THEN desc_ms_os_20_simple(b).length
              ELSE desc_ms_os_20_composite(b).length]

\* devDesc_Audio1, devDesc_Audio2 and DFUdevDesc: the class and the version of USB
DeviceDescriptor(b, uac1, inDfu) ==
  [class |-> IF inDfu \/ uac1 THEN "perInterface" ELSE "association",
   bcdUSB |-> IF _XUA_ENABLE_BOS_DESC(b) THEN 513 ELSE 512]
=============================================================================
