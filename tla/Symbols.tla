------------------------------ MODULE Symbols ------------------------------
(***************************************************************************)
(* The driver's entry points: the tables that cudasys binds at load time   *)
(* and the entry points that the wrappers of each file of cudaresult call. *)
(* An entry point is named by its field of cudasys.Driver without the      *)
(* leading Cu.  The two sides are written independently in the code, and   *)
(* so they are here: nothing but the properties that use them says that    *)
(* they agree.                                                             *)
(***************************************************************************)

requiredSymbols ==
  {"Init", "DriverGetVersion", "DeviceGetCount", "DeviceGet", "DeviceGetName",
   "DeviceTotalMem", "DeviceGetAttribute", "CtxGetCurrent", "CtxSetCurrent",
   "CtxSynchronize", "CtxGetStreamPriorityRange", "DevicePrimaryCtxRetain",
   "DevicePrimaryCtxRelease", "MemAlloc", "MemFree", "MemGetInfo",
   "MemcpyHtoD", "MemcpyDtoH", "MemcpyDtoD", "MemcpyHtoDAsync",
   "MemcpyDtoHAsync", "MemcpyDtoDAsync", "MemsetD8", "MemsetD16", "MemsetD32",
   "MemsetD8Async", "MemsetD16Async", "MemsetD32Async", "MemAllocHost",
   "MemFreeHost", "ModuleLoadData", "ModuleLoadDataEx", "ModuleUnload",
   "ModuleGetFunction", "ModuleGetGlobal", "StreamCreate",
   "StreamCreateWithPriority", "StreamDestroy", "StreamSynchronize",
   "StreamQuery", "StreamWaitEvent", "EventCreate", "EventDestroy",
   "EventRecord", "EventQuery", "EventSynchronize", "EventElapsedTime",
   "LaunchKernel"}

optionalSymbols ==
  {"MemAllocAsync", "MemFreeAsync",
   "OccupancyMaxActiveBlocksPerMultiprocessor",
   "OccupancyMaxPotentialBlockSize", "StreamBeginCapture", "StreamEndCapture",
   "GraphInstantiate", "GraphLaunch", "GraphDestroy", "GraphExecDestroy",
   "GraphExecUpdate", "DeviceGetPCIBusId", "DeviceGetUuid", "MemHostRegister",
   "MemHostUnregister", "MemAllocPitch", "Memcpy2D", "Memcpy2DAsync",
   "Memcpy3D", "Memcpy3DAsync", "ArrayCreate", "Array3DCreate",
   "ArrayDestroy", "TexObjectCreate", "TexObjectDestroy", "SurfObjectCreate",
   "SurfObjectDestroy", "DeviceGetDefaultMemPool", "MemPoolGetAttribute",
   "MemPoolSetAttribute", "MemAllocFromPoolAsync", "MemAllocManaged",
   "MemPrefetchAsync", "MemAdvise", "MemGetAllocationGranularity",
   "MemCreate", "MemAddressReserve", "MemMap", "MemSetAccess", "MemUnmap",
   "MemAddressFree", "MemRelease", "FuncSetAttribute", "FuncGetAttribute",
   "PointerGetAttribute", "DeviceCanAccessPeer", "CtxEnablePeerAccess",
   "CtxDisablePeerAccess", "MemcpyPeer", "LaunchCooperativeKernel",
   "LaunchHostFunc", "IpcGetMemHandle", "IpcCloseMemHandle",
   "IpcGetEventHandle", "LinkCreate", "LinkAddData", "LinkComplete",
   "LinkDestroy"}

\* Bound apart from the tables, because they take a struct by value.
bindByValueIPC == {"IpcOpenMemHandle", "IpcOpenEventHandle"}

Symbols == requiredSymbols \cup optionalSymbols \cup bindByValueIPC

----------------------------------------------------------------------------
(* cudaresult, file by file.  A core wrapper answers ErrNotInitialized     *)
(* when its entry point is missing, a feature wrapper                      *)
(* ErrSymbolUnavailable; both call the driver otherwise.                   *)

Wrappers(core, feature) == [core |-> core, feature |-> feature]

init == Wrappers({"Init"}, {})
version == Wrappers({"DriverGetVersion"}, {})

context == Wrappers(
  {"DevicePrimaryCtxRetain", "DevicePrimaryCtxRelease", "CtxSetCurrent",
   "CtxGetCurrent", "CtxSynchronize", "CtxGetStreamPriorityRange"}, {})

device == Wrappers(
  {"DeviceGetCount", "DeviceGet", "DeviceGetName", "DeviceTotalMem",
   "DeviceGetAttribute"},
  {"DeviceGetPCIBusId", "DeviceGetUuid"})

memory == Wrappers(
  {"MemAlloc", "MemFree", "MemGetInfo", "MemcpyHtoD", "MemcpyDtoH",
   "MemcpyHtoDAsync", "MemcpyDtoHAsync", "MemcpyDtoD", "MemcpyDtoDAsync",
   "MemsetD8", "MemsetD16", "MemsetD32", "MemsetD8Async", "MemsetD16Async",
   "MemsetD32Async", "MemAllocHost", "MemFreeHost"},
  {"MemAllocAsync", "MemFreeAsync", "MemHostRegister", "MemHostUnregister"})

module == Wrappers(
  {"ModuleLoadData", "ModuleLoadDataEx", "ModuleUnload", "ModuleGetFunction",
   "ModuleGetGlobal"}, {})

stream == Wrappers(
  {"StreamCreate", "StreamCreateWithPriority", "StreamDestroy",
   "StreamSynchronize", "StreamQuery", "StreamWaitEvent", "EventCreate",
   "EventDestroy", "EventRecord", "EventQuery", "EventSynchronize",
   "EventElapsedTime"}, {})

launch == Wrappers({"LaunchKernel"},
                   {"LaunchCooperativeKernel", "LaunchHostFunc"})

function == Wrappers({}, {"FuncSetAttribute", "FuncGetAttribute"})

graph == Wrappers({},
  {"StreamBeginCapture", "StreamEndCapture", "GraphInstantiate",
   "GraphLaunch", "GraphDestroy", "GraphExecUpdate", "GraphExecDestroy"})

ipc == Wrappers({},
  {"IpcGetMemHandle", "IpcOpenMemHandle", "IpcCloseMemHandle",
   "IpcGetEventHandle", "IpcOpenEventHandle"})

link == Wrappers({}, {"LinkCreate", "LinkAddData", "LinkComplete", "LinkDestroy"})

managed == Wrappers({}, {"MemAllocManaged", "MemPrefetchAsync", "MemAdvise"})

mempool == Wrappers({},
  {"DeviceGetDefaultMemPool", "MemPoolGetAttribute", "MemPoolSetAttribute",
   "MemAllocFromPoolAsync"})

occupancy == Wrappers({},
  {"OccupancyMaxActiveBlocksPerMultiprocessor",
   "OccupancyMaxPotentialBlockSize"})

peer == Wrappers({},
  {"DeviceCanAccessPeer", "CtxEnablePeerAccess", "CtxDisablePeerAccess",
   "MemcpyPeer", "PointerGetAttribute"})

pitch == Wrappers({},
  {"MemAllocPitch", "Memcpy2D", "Memcpy2DAsync", "Memcpy3D", "Memcpy3DAsync"})

surface == Wrappers({}, {"Array3DCreate", "SurfObjectCreate", "SurfObjectDestroy"})

texture == Wrappers({},
  {"ArrayCreate", "ArrayDestroy", "TexObjectCreate", "TexObjectDestroy"})

vmm == Wrappers({},
  {"MemGetAllocationGranularity", "MemCreate", "MemAddressReserve", "MemMap",
   "MemSetAccess", "MemUnmap", "MemAddressFree", "MemRelease"})

cudaresult ==
  {init, version, context, device, memory, module, stream, launch, function,
   graph, ipc, link, managed, mempool, occupancy, peer, pitch, surface,
   texture, vmm}

CoreCalls == UNION {file.core : file \in cudaresult}
FeatureCalls == UNION {file.feature : file \in cudaresult}

\* What a wrapper for entry point s does with a driver that has bound these.
Answer(bound, s) ==
  CASE s \in bound -> "call"
    [] s \notin bound /\ s \in CoreCalls -> "ErrNotInitialized"
    [] s \notin bound /\ s \in FeatureCalls -> "ErrSymbolUnavailable"
=============================================================================
